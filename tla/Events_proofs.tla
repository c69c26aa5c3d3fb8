----------------------------- MODULE Events_proofs -----------------------------
(***************************************************************************)
(* Around the consumers: a pause takes hold, for any number of loops that  *)
(* share a control source, any TTL and any lookup timeout (no clock bound  *)
(* is used); the Kafka loop, for any partitions, logs and failures; and the *)
(* flow of events, for any chain, handlers, errors and room for attributes. *)
(***************************************************************************)
EXTENDS MCEvents, FiniteSetTheorems, TLAPS

(* What the proof needs of the types: times are naturals, and those of the *)
(* past are not later than now.                                            *)
Times ==
  /\ clock \in Nat /\ idleSince \in 0..clock /\ fetchedAt \in 0..clock /\ failedAt \in Int
  /\ at \in [Loops -> {"gate", "lookup", "answered", "pull", "nap"}]
  /\ since \in [Loops -> Nat] /\ sample \in [Loops -> States \union {NoAnswer}]
  /\ plane \in States /\ cachedState \in States
  /\ \A l \in Loops : at[l] = "answered" => sample[l] \in States

(* A lookup that is under way began in the past and is within its timeout. *)
Timely ==
  \A l \in Loops : at[l] \in {"lookup", "answered"} => since[l] <= clock /\ clock <= since[l] + Lookup

(* The operator wants no pulls, and no lookup has failed since.            *)
Quiet == plane \notin ShouldPull /\ failedAt < idleSince

(* Then whatever still says pull is old: the cached state, and an answer   *)
(* on its way, date from before the operator's word.                       *)
OldNews ==
  Quiet => /\ cachedState \in ShouldPull => fetchedAt <= idleSince
           /\ \A l \in Loops : at[l] = "answered" /\ sample[l] \in ShouldPull => since[l] <= idleSince

(* The inductive invariant: PauseTakesHold speaks of one step, and what    *)
(* makes the step right is how old the news may be that it acts upon.      *)
GateInv == Times /\ Timely /\ OldNews

LEMMA GateInvInit == GateInit => GateInv
  BY GateAssumption DEF GateInit, GateInv, Times, Timely, OldNews, States, NoAnswer

(* What get() decides changes the loop that asked and no other, which then *)
(* pulls or naps.                                                          *)
LEMMA DecideMoves ==
  ASSUME Times, NEW l \in Loops, NEW s \in States, Decide(l, s)
  PROVE  /\ at' \in [Loops -> {"gate", "lookup", "answered", "pull", "nap"}]
         /\ since' \in [Loops -> Nat] /\ sample' \in [Loops -> States \union {NoAnswer}]
         /\ at'[l] = IF s \in ShouldPull THEN "pull" ELSE "nap"
         /\ \A k \in Loops \ {l} : at'[k] = at[k] /\ since'[k] = since[k] /\ sample'[k] = sample[k]
<1>1. CASE s \in ShouldPull
  BY <1>1 DEF Decide, Times
<1>2. CASE s \notin ShouldPull
  <2>1. (IF PollInterval > 1 THEN PollInterval ELSE 1) \in Nat
    BY GateAssumption
  <2> QED
    BY <1>2, <2>1 DEF Decide, Nap, Times
<1> QED
  BY <1>1, <1>2

LEMMA GateStep == GateInv /\ [GateNext]_gateVars => GateInv'
<1> SUFFICES ASSUME GateInv, [GateNext]_gateVars
             PROVE  GateInv'
  OBVIOUS
<1> USE GateAssumption DEF GateInv
<1>1. CASE UNCHANGED gateVars
  BY <1>1 DEF gateVars, Times, Timely, OldNews, Quiet
<1>2. CASE GateTick
  BY <1>2 DEF GateTick, Times, Timely, OldNews, Quiet
<1>3. CASE CloseSource
  BY <1>3 DEF CloseSource, Times, Timely, OldNews, Quiet
<1>4. ASSUME NEW s \in Wanted, Operate(s)
      PROVE  GateInv'
  <2>1. s \in States
    BY DEF States
  <2>2. CASE plane \in ShouldPull
    BY <1>4, <2>1, <2>2 DEF Operate, Times, Timely, OldNews, Quiet
  <2>3. CASE plane \notin ShouldPull
    BY <1>4, <2>1, <2>3 DEF Operate, Times, Timely, OldNews, Quiet
  <2> QED
    BY <2>2, <2>3
<1>5. ASSUME NEW l \in Loops, UseCache(l)
      PROVE  GateInv'
  BY <1>5, DecideMoves DEF UseCache, Times, Timely, OldNews, Quiet
<1>6. ASSUME NEW l \in Loops, Ask(l)
      PROVE  GateInv'
  BY <1>6 DEF Ask, Times, Timely, OldNews, Quiet
<1>7. ASSUME NEW l \in Loops, PlaneAnswers(l)
      PROVE  GateInv'
  BY <1>7 DEF PlaneAnswers, Times, Timely, OldNews, Quiet
<1>8. ASSUME NEW l \in Loops, AnswerArrives(l)
      PROVE  GateInv'
  <2>1. sample[l] \in States
    BY <1>8 DEF AnswerArrives, Times
  <2> QED
    BY <1>8, <2>1, DecideMoves DEF AnswerArrives, Times, Timely, OldNews, Quiet
<1>9. ASSUME NEW l \in Loops, LookupFails(l)
      PROVE  GateInv'
  BY <1>9, DecideMoves DEF LookupFails, Times, Timely, OldNews, Quiet
<1>10. ASSUME NEW l \in Loops, NapOver(l)
       PROVE  GateInv'
  BY <1>10 DEF NapOver, Times, Timely, OldNews, Quiet
<1>11. ASSUME NEW l \in Loops, NEW n \in 0..Batch, Cycle(l, n)
       PROVE  GateInv'
  <2>1. at' = [at EXCEPT ![l] = "gate"] \/ at' = [at EXCEPT ![l] = "nap"]
    BY <1>11 DEF Cycle, Nap
  <2>2. since' \in [Loops -> Nat] /\ \A k \in Loops \ {l} : since'[k] = since[k]
    BY <1>11 DEF Cycle, Nap, Times
  <2> QED
    BY <1>11, <2>1, <2>2 DEF Cycle, Times, Timely, OldNews, Quiet
<1> QED
  BY <1>1, <1>2, <1>3, <1>4, <1>5, <1>6, <1>7, <1>8, <1>9, <1>10, <1>11 DEF GateNext

(* A loop begins to pull on fresh news only, so if it does although the    *)
(* operator has wanted no pulls for long enough, a lookup has failed since *)
(* (control.py:75-97, pull.py:62-74).                                      *)
LEMMA PullNeedsFailure ==
  ASSUME GateInv, [GateNext]_gateVars, NEW l \in Loops,
         at[l] # "pull", at'[l] = "pull",
         plane \notin ShouldPull, clock > idleSince + Staleness
  PROVE  failedAt' >= idleSince
<1> USE GateAssumption DEF GateInv
<1>1. Staleness >= Ttl - 1 /\ Staleness >= Lookup /\ Staleness \in Int
  BY DEF Staleness
<1>2. UseCache(l) \/ AnswerArrives(l) \/ LookupFails(l)
  <2>1. at' # at
    BY DEF Times
  <2>2. PICK k \in Loops : \/ UseCache(k) \/ Ask(k) \/ PlaneAnswers(k) \/ AnswerArrives(k)
                           \/ LookupFails(k) \/ NapOver(k) \/ \E n \in 0..Batch : Cycle(k, n)
    BY <2>1 DEF GateNext, GateTick, CloseSource, Operate, gateVars
  <2>3. CASE Ask(k) \/ PlaneAnswers(k) \/ NapOver(k) \/ \E n \in 0..Batch : Cycle(k, n)
    BY <2>3 DEF Ask, PlaneAnswers, NapOver, Cycle, Nap, Times
  <2>4. CASE UseCache(k) \/ AnswerArrives(k) \/ LookupFails(k)
    <3>1. k = l
      BY <2>4, DecideMoves DEF UseCache, AnswerArrives, LookupFails, Times
    <3> QED
      BY <2>4, <3>1
  <2> QED
    BY <2>2, <2>3, <2>4
<1>3. CASE UseCache(l)
  <2>1. cachedState \in ShouldPull
    BY <1>3, DecideMoves DEF UseCache, Times
  <2> QED
    BY <1>1, <1>3, <2>1 DEF UseCache, Fresh, Times, OldNews, Quiet
<1>4. CASE AnswerArrives(l)
  <2>1. sample[l] \in ShouldPull
    BY <1>4, DecideMoves DEF AnswerArrives, Times
  <2> QED
    BY <1>1, <1>4, <2>1 DEF AnswerArrives, Times, Timely, OldNews, Quiet
<1>5. CASE LookupFails(l)
  BY <1>5 DEF LookupFails, Times
<1> QED
  BY <1>2, <1>3, <1>4, <1>5

(* Every pull that starts more than one TTL, or one lookup, after the      *)
(* operator's word follows a lookup that has failed since.                 *)
THEOREM PauseTakesHoldHolds == GateSpec => PauseTakesHold
<1>1. GateInv /\ [GateNext]_gateVars =>
        [\A l \in Loops :
           /\ at[l] # "pull" /\ at'[l] = "pull"
           /\ plane \notin ShouldPull /\ clock > idleSince + Staleness
           => failedAt' >= idleSince]_gateVars
  BY PullNeedsFailure
<1> QED
  BY <1>1, GateInvInit, GateStep, PTL DEF GateSpec, PauseTakesHold

(* What GateTypeOK says besides: the clock stops, and only a loop that was *)
(* told to pull pulls.                                                     *)
GateNow ==
  /\ clock \in 0..MaxTime /\ client \in BOOLEAN /\ failedAt \in -1..clock
  /\ \A l \in Loops : at[l] = "pull" => sample[l] \in ShouldPull

LEMMA GateNowInit == GateInit => GateNow
<1> SUFFICES ASSUME GateInit
             PROVE  GateNow
  OBVIOUS
<1>1. clock \in 0..MaxTime /\ failedAt \in -1..clock
  BY GateAssumption DEF GateInit
<1>2. client \in BOOLEAN
  BY Zenon DEF GateInit
<1>3. \A l \in Loops : at[l] # "pull"
  BY DEF GateInit
<1> QED
  BY <1>1, <1>2, <1>3 DEF GateNow

LEMMA GateNowStep == GateInv /\ GateNow /\ [GateNext]_gateVars => GateNow'
<1> SUFFICES ASSUME GateInv, GateNow, [GateNext]_gateVars
             PROVE  GateNow'
  OBVIOUS
<1> USE GateAssumption DEF GateInv
<1>1. CASE UNCHANGED gateVars
  BY <1>1 DEF gateVars, GateNow
<1>2. CASE GateTick
  <2>1. client' \in BOOLEAN
    BY <1>2, Zenon DEF GateTick, GateNow
  <2>2. clock' \in 0..MaxTime /\ failedAt' \in -1..clock'
    BY <1>2 DEF GateTick, GateNow
  <2> QED
    BY <1>2, <2>1, <2>2 DEF GateTick, GateNow
<1>7. CASE CloseSource \/ \E s \in Wanted : Operate(s)
  <2>1. client' \in BOOLEAN
    BY <1>7, Zenon DEF CloseSource, Operate, GateNow
  <2> QED
    BY <1>7, <2>1 DEF CloseSource, Operate, GateNow
<1>3. ASSUME NEW l \in Loops, NEW s \in States, Decide(l, s)
      PROVE  \A k \in Loops : at'[k] = "pull" => sample'[k] \in ShouldPull
  BY <1>3 DEF Decide, Nap, Times, GateNow
<1>4. ASSUME NEW l \in Loops, UseCache(l) \/ AnswerArrives(l) \/ LookupFails(l)
      PROVE  GateNow'
  <2>1. \E s \in States : Decide(l, s)
    BY <1>4 DEF UseCache, AnswerArrives, LookupFails, Times
  <2>2. clock' = clock /\ client' \in BOOLEAN /\ failedAt' \in -1..clock'
    BY <1>4 DEF UseCache, AnswerArrives, LookupFails, Times, GateNow
  <2> QED
    BY <1>3, <2>1, <2>2 DEF GateNow
<1>5. ASSUME NEW l \in Loops, Ask(l) \/ PlaneAnswers(l) \/ NapOver(l)
      PROVE  GateNow'
  BY <1>5 DEF Ask, PlaneAnswers, NapOver, Times, GateNow
<1>6. ASSUME NEW l \in Loops, NEW n \in 0..Batch, Cycle(l, n)
      PROVE  GateNow'
  <2>1. at' = [at EXCEPT ![l] = "gate"] \/ at' = [at EXCEPT ![l] = "nap"]
    BY <1>6 DEF Cycle, Nap
  <2> QED
    BY <1>6, <2>1 DEF Cycle, Times, GateNow
<1> QED
  BY <1>1, <1>2, <1>4, <1>5, <1>6, <1>7 DEF GateNext

(* Clock, answers and loops are what they are said to be, and a loop pulls  *)
(* only when it was told to (control.py:75-97, pull.py:62-74).             *)
THEOREM GateTypeCorrect == GateSpec => []GateTypeOK
<1>1. GateInv /\ GateNow => GateTypeOK
  BY DEF GateInv, Times, GateNow, GateTypeOK, ShouldPull
<1> QED
  BY <1>1, GateInvInit, GateStep, GateNowInit, GateNowStep, PTL DEF GateSpec
-------------------------------------------------------------------------------
(* The Kafka loop.                                                         *)
KafkaTyped ==
  /\ assigned \subseteq Partitions /\ through \subseteq Records /\ batch \subseteq Records
  /\ position \in [Partitions -> 0..LogEnd] /\ committed \in [Partitions -> 0..LogEnd]
  /\ loop \in {"control", "fetched", "stopped", "dead"}
  /\ deliveries \in [Records -> Nat]

Live == loop \in {"control", "fetched"}

(* What is fetched lies before the position and in assigned partitions; the *)
(* others stand still.                                                     *)
BatchFetched ==
  /\ loop = "control" => batch = {}
  /\ Live => \A b \in batch : b[1] \in assigned /\ b[2] < position[b[1]]
  /\ \A p \in Partitions \ assigned : position[p] = 0 /\ committed[p] = 0

(* What this process is through with lies before the position, and before  *)
(* what it has still to look at in the same partition: a rewind to a record *)
(* of the batch repeats nothing.                                           *)
ThroughBehind ==
  Live => /\ \A t \in through : t[2] < position[t[1]]
          /\ \A t \in through, b \in batch : t[1] = b[1] => t[2] < b[2]

(* Nothing before the position is passed over, which one partition needs:  *)
(* a rewind drops the batch's records of the others, and only the position *)
(* of its own partition goes back.                                         *)
NothingSkipped ==
  Cardinality(assigned) = 1 =>
    /\ CommittedIsHandled
    /\ Live => \A r \in Records : r[2] < position[r[1]] => r \in handled \/ r \in batch

KafkaInv == KafkaTyped /\ BatchFetched /\ ThroughBehind /\ NothingSkipped

LEMMA KafkaInvInit == KafkaInit => KafkaInv
  BY KafkaAssumption DEF KafkaInit, KafkaInv, KafkaTyped, BatchFetched, ThroughBehind, NothingSkipped,
     CommittedIsHandled, Live, Records

LEMMA OfRecords ==
  ASSUME NEW r \in Records
  PROVE  r[1] \in Partitions /\ r[2] \in Nat /\ r[2] < LogEnd /\ r = <<r[1], r[2]>>
BY KafkaAssumption DEF Records

LEMMA FetchStep ==
  ASSUME KafkaInv, Fetch
  PROVE  KafkaInv'
<1>1. PICK upto \in [Partitions -> 0..LogEnd] :
        /\ \A p \in Partitions : upto[p] >= position[p] /\ (p \notin assigned => upto[p] = position[p])
        /\ batch' = UNION {Offsets(p, position[p], upto[p]) : p \in Partitions}
        /\ position' = upto
  BY DEF Fetch
<1>2. \A r \in Records : r \in batch' <=> position[r[1]] <= r[2] /\ r[2] < upto[r[1]]
  <2> SUFFICES ASSUME NEW r \in Records
               PROVE  r \in batch' <=> position[r[1]] <= r[2] /\ r[2] < upto[r[1]]
    OBVIOUS
  <2>1. position[r[1]] \in Nat /\ upto[r[1]] \in Nat
    BY OfRecords DEF KafkaInv, KafkaTyped
  <2>2. \A p \in Partitions : r \in Offsets(p, position[p], upto[p]) <=>
          p = r[1] /\ r[2] \in position[p]..upto[p]-1
    BY OfRecords DEF Offsets
  <2> QED
    BY <1>1, <2>1, <2>2, OfRecords
<1>3. batch' \subseteq Records
  BY <1>1, KafkaAssumption DEF Offsets, Records, KafkaInv, KafkaTyped
<1>4. /\ loop = "control" /\ loop' = "fetched"
      /\ UNCHANGED <<assigned, committed, tries, handled, through, deliveries, crashes>>
  BY DEF Fetch
<1>5. KafkaTyped'
  BY <1>1, <1>3, <1>4 DEF KafkaInv, KafkaTyped
<1>6. BatchFetched'
  BY <1>1, <1>2, <1>3, <1>4, OfRecords DEF KafkaInv, KafkaTyped, BatchFetched, Live
<1>7. ThroughBehind'
  BY <1>1, <1>2, <1>3, <1>4, OfRecords DEF KafkaInv, KafkaTyped, ThroughBehind, Live
<1>8. NothingSkipped'
  BY <1>1, <1>2, <1>3, <1>4, OfRecords
     DEF KafkaInv, KafkaTyped, BatchFetched, NothingSkipped, CommittedIsHandled, Live
<1> QED
  BY <1>5, <1>6, <1>7, <1>8 DEF KafkaInv

LEMMA ThroughStep ==
  ASSUME KafkaInv, NEW r \in Records, Through(r)
  PROVE  KafkaInv'
<1>1. /\ loop = "fetched" /\ r \in batch /\ \A b \in batch : b[1] = r[1] => r[2] <= b[2]
      /\ handled' = handled \union {r} /\ through' = through \union {r} /\ batch' = batch \ {r}
      /\ UNCHANGED <<assigned, committed, loop, position>>
  BY DEF Through, Deliver, IsNext
<1>2. deliveries' \in [Records -> Nat]
  BY DEF Through, Deliver, KafkaInv, KafkaTyped
<1>3. KafkaTyped'
  BY <1>1, <1>2 DEF KafkaInv, KafkaTyped
<1>4. BatchFetched'
  BY <1>1 DEF KafkaInv, BatchFetched, Live
<1>5. ThroughBehind'
  <2>1. ASSUME NEW b \in batch, b # r, b[1] = r[1]
        PROVE  r[2] < b[2]
    BY <1>1, <2>1, OfRecords DEF KafkaInv, KafkaTyped
  <2>2. r[2] < position[r[1]]
    BY <1>1 DEF KafkaInv, BatchFetched, Live
  <2> QED
    BY <1>1, <2>1, <2>2 DEF KafkaInv, ThroughBehind, Live
<1>6. NothingSkipped'
  BY <1>1 DEF KafkaInv, NothingSkipped, CommittedIsHandled, Live
<1> QED
  BY <1>3, <1>4, <1>5, <1>6 DEF KafkaInv

LEMMA RewindStep ==
  ASSUME KafkaInv, NEW r \in Records, Rewind(r)
  PROVE  KafkaInv'
<1>1. /\ loop = "fetched" /\ r \in batch /\ \A b \in batch : b[1] = r[1] => r[2] <= b[2]
      /\ batch' = {} /\ position' = [position EXCEPT ![r[1]] = r[2]]
      /\ UNCHANGED <<assigned, committed, loop, handled, through>>
  BY DEF Rewind, Dropped, Deliver, IsNext
<1>2. deliveries' \in [Records -> Nat]
  BY DEF Rewind, Deliver, KafkaInv, KafkaTyped
<1>3. /\ position' \in [Partitions -> 0..LogEnd] /\ position'[r[1]] = r[2]
      /\ \A p \in Partitions : p # r[1] => position'[p] = position[p]
  BY <1>1, OfRecords, KafkaAssumption DEF KafkaInv, KafkaTyped
<1>4. KafkaTyped'
  BY <1>1, <1>2, <1>3 DEF KafkaInv, KafkaTyped
<1>5. r[1] \in assigned
  BY <1>1 DEF KafkaInv, BatchFetched, Live
<1>6. BatchFetched'
  BY <1>1, <1>3, <1>5 DEF KafkaInv, BatchFetched, Live
<1>7. ThroughBehind'
  BY <1>1, <1>3, OfRecords DEF KafkaInv, KafkaTyped, ThroughBehind, Live
<1>8. NothingSkipped'
  <2> SUFFICES ASSUME Cardinality(assigned) = 1
               PROVE  /\ CommittedIsHandled'
                      /\ \A q \in Records : q[2] < position'[q[1]] => q \in handled
    BY <1>1 DEF NothingSkipped
  <2>1. CommittedIsHandled'
    BY <1>1 DEF KafkaInv, NothingSkipped, CommittedIsHandled
  <2>2. ASSUME NEW q \in Records, q[2] < position'[q[1]]
        PROVE  q \in handled
    <3>1. PICK p \in Partitions : assigned = {p}
      <4>1. IsFiniteSet(assigned)
        BY KafkaAssumption, FS_Subset DEF KafkaInv, KafkaTyped
      <4> QED
        BY <4>1, FS_Singleton DEF KafkaInv, KafkaTyped
    <3>2. q[1] = r[1]
      BY <1>3, <1>5, <2>2, <3>1, OfRecords DEF KafkaInv, BatchFetched
    <3>3. q[2] < r[2] /\ r[2] < position[r[1]]
      BY <1>1, <1>3, <2>2, <3>2 DEF KafkaInv, BatchFetched, Live
    <3>4. q \in handled \/ q \in batch
      BY <1>1, <3>2, <3>3, OfRecords DEF KafkaInv, KafkaTyped, NothingSkipped, Live
    <3>5. q \notin batch
      BY <1>1, <3>2, <3>3, OfRecords
    <3> QED
      BY <3>4, <3>5
  <2> QED
    BY <2>1, <2>2
<1> QED
  BY <1>4, <1>6, <1>7, <1>8 DEF KafkaInv

LEMMA KafkaStep == KafkaInv /\ [KafkaNext]_kafkaVars => KafkaInv'
<1> SUFFICES ASSUME KafkaInv, [KafkaNext]_kafkaVars
             PROVE  KafkaInv'
  OBVIOUS
<1> USE DEF KafkaInv, KafkaTyped, BatchFetched, ThroughBehind, NothingSkipped, CommittedIsHandled, Live
<1>1. CASE UNCHANGED kafkaVars
  BY <1>1 DEF kafkaVars
<1>2. CASE EndBatch
  BY <1>2 DEF EndBatch
<1>3. CASE StopLoop
  BY <1>3 DEF StopLoop
<1>4. CASE Crash
  BY <1>4 DEF Crash
<1>5. CASE Restart
  <2>1. deliveries' \in [Records -> Nat]
    BY <1>5 DEF Restart
  <2> QED
    BY <1>5, <2>1 DEF Restart
<1> HIDE DEF KafkaInv, KafkaTyped, BatchFetched, ThroughBehind, NothingSkipped, CommittedIsHandled, Live
<1>6. ASSUME NEW r \in Records, Through(r) \/ Rewind(r)
      PROVE  KafkaInv'
  BY <1>6, ThroughStep, RewindStep
<1> QED
  BY <1>1, <1>2, <1>3, <1>4, <1>5, <1>6, FetchStep DEF KafkaNext

LEMMA KafkaInvHolds == KafkaSpec => []KafkaInv
  BY KafkaInvInit, KafkaStep, PTL DEF KafkaSpec

(* OnePartitionAtLeastOnce (kafka_observer.py:106-165): for any log and     *)
(* any number of records in a fetch, failures, stops and crashes.          *)
THEOREM OnePartitionAtLeastOnceHolds == KafkaSpec => []OnePartitionAtLeastOnce
<1>1. KafkaInv => OnePartitionAtLeastOnce
  BY DEF KafkaInv, NothingSkipped, OnePartitionAtLeastOnce
<1> QED
  BY <1>1, KafkaInvHolds, PTL

(* RepeatsNeedRestart (kafka_observer.py:137-165): for any number of        *)
(* partitions, too: what a rewind drops of them is lost, never repeated.   *)
THEOREM RepeatsNeedRestartHolds == KafkaSpec => RepeatsNeedRestart
<1>1. KafkaInv /\ [KafkaNext]_kafkaVars =>
        [\A r \in through \intersect through' : deliveries'[r] = deliveries[r]]_kafkaVars
  <2> SUFFICES ASSUME KafkaInv, KafkaNext, NEW r \in through, r \in through'
               PROVE  deliveries'[r] = deliveries[r]
    BY DEF kafkaVars
  <2>1. r \in Records /\ deliveries \in [Records -> Nat]
    BY DEF KafkaInv, KafkaTyped
  <2>2. ASSUME NEW q \in Records, Deliver(q)
        PROVE  deliveries'[r] = deliveries[r]
    <3>1. q \in batch /\ Live
      BY <2>2 DEF Deliver, IsNext, Live
    <3>2. q # r
      BY <2>1, <3>1, OfRecords DEF KafkaInv, ThroughBehind
    <3> QED
      BY <2>1, <2>2, <3>2 DEF Deliver
  <2>3. CASE Fetch \/ EndBatch \/ StopLoop \/ Crash
    BY <2>3 DEF Fetch, EndBatch, StopLoop, Crash
  <2>4. CASE Restart
    BY <2>4 DEF Restart
  <2> QED
    BY <2>2, <2>3, <2>4 DEF KafkaNext, Through, Rewind
<1> QED
  BY <1>1, KafkaInvHolds, PTL DEF KafkaSpec, RepeatsNeedRestart

(* A record is delivered once for each attempt that failed, and once more. *)
KafkaNow ==
  /\ rewound \in BOOLEAN /\ crashes \in 0..MaxCrashes
  /\ lane \subseteq assigned /\ Cardinality(lane) <= 1
  /\ through \subseteq handled /\ handled \subseteq Records
  /\ Cardinality(batch) <= MaxRecords
  /\ tries \in [Records -> 0..MaxAttempts]
  /\ \A r \in Records : IF r \in through THEN deliveries[r] <= MaxAttempts + 1
                        ELSE deliveries[r] = tries[r]

LEMMA BatchFinite == KafkaInv => IsFiniteSet(batch) /\ Cardinality(batch) \in Nat
<1>1. IsFiniteSet(Records)
  <2>1. IsFiniteSet(0..LogEnd-1)
    BY KafkaAssumption, FS_Interval
  <2> QED
    BY <2>1, KafkaAssumption, FS_Product DEF Records
<1> QED
  BY <1>1, FS_Subset, FS_CardinalityType DEF KafkaInv, KafkaTyped

LEMMA KafkaNowInit == KafkaInit => KafkaNow
<1>1. Cardinality({}) = 0
  BY FS_EmptySet
<1> SUFFICES ASSUME KafkaInit
             PROVE  KafkaNow
  OBVIOUS
<1>2. /\ lane = {} /\ batch = {} /\ through = {} /\ handled = {} /\ crashes = 0
      /\ tries = [r \in Records |-> 0] /\ deliveries = tries
  BY DEF KafkaInit
<1>3. rewound \in BOOLEAN
  BY Zenon DEF KafkaInit
<1>4. tries \in [Records -> 0..MaxAttempts]
  BY <1>2, KafkaAssumption
<1>5. Cardinality(lane) <= 1 /\ Cardinality(batch) <= MaxRecords
  BY <1>1, <1>2, KafkaAssumption
<1>6. crashes \in 0..MaxCrashes
  BY <1>2, KafkaAssumption
<1>7. \A r \in Records : r \notin through /\ deliveries[r] = tries[r]
  BY <1>2
<1> QED
  BY <1>2, <1>3, <1>4, <1>5, <1>6, <1>7 DEF KafkaNow

(* A delivery takes a record that is not through.                          *)
LEMMA DeliveredNow ==
  ASSUME KafkaInv, KafkaNow, NEW r \in Records, Deliver(r)
  PROVE  /\ r \notin through /\ r \in batch
         /\ rewound \in BOOLEAN /\ crashes' \in 0..MaxCrashes
         /\ lane' \subseteq assigned' /\ Cardinality(lane') <= 1
         /\ deliveries'[r] = tries[r] + 1
         /\ \A q \in Records : q # r => deliveries'[q] = deliveries[q]
<1>1. r \in batch /\ Live /\ r[1] \in assigned
  BY DEF Deliver, IsNext, Live, KafkaInv, BatchFetched
<1>2. r \notin through
  BY <1>1, OfRecords DEF KafkaInv, ThroughBehind
<1>3. lane' = {r[1]} /\ UNCHANGED <<assigned, crashes>>
  BY DEF Deliver
<1>4. Cardinality(lane') = 1
  BY <1>3, FS_Singleton
<1>5. deliveries \in [Records -> Nat] /\ deliveries' = [deliveries EXCEPT ![r] = @ + 1]
  BY DEF Deliver, KafkaInv, KafkaTyped
<1> QED
  BY <1>1, <1>2, <1>3, <1>4, <1>5 DEF KafkaNow

LEMMA KafkaNowStep == KafkaInv /\ KafkaNow /\ [KafkaNext]_kafkaVars => KafkaNow'
<1> SUFFICES ASSUME KafkaInv, KafkaNow, [KafkaNext]_kafkaVars
             PROVE  KafkaNow'
  OBVIOUS
<1> USE KafkaAssumption
<1>0. Cardinality({}) = 0
  BY FS_EmptySet
<1>1. CASE UNCHANGED kafkaVars
  BY <1>1 DEF kafkaVars, KafkaNow
<1>2. CASE Fetch
  <2>1. Cardinality(batch') \in 1..MaxRecords /\ lane' = {}
    BY <1>2 DEF Fetch
  <2>2. rewound' \in BOOLEAN
    BY <1>2, Zenon DEF Fetch
  <2>3. UNCHANGED <<assigned, tries, handled, through, deliveries, crashes>>
    BY <1>2 DEF Fetch
  <2>4. Cardinality(lane') <= 1 /\ lane' \subseteq assigned'
    BY <1>0, <2>1
  <2> QED
    BY <2>1, <2>2, <2>3, <2>4 DEF KafkaNow
<1>3. CASE EndBatch \/ StopLoop \/ Crash
  BY <1>3 DEF EndBatch, StopLoop, Crash, KafkaNow
<1>4. CASE Restart
  <2>1. rewound' \in BOOLEAN
    BY <1>4, Zenon DEF Restart
  <2>2. /\ lane' = {} /\ batch' = {} /\ through' = {} /\ UNCHANGED <<assigned, handled, crashes>>
        /\ tries' = [r \in Records |-> 0] /\ deliveries' = tries'
    BY <1>4 DEF Restart
  <2>3. tries' \in [Records -> 0..MaxAttempts]
    BY <2>2
  <2>4. Cardinality(lane') <= 1 /\ Cardinality(batch') <= MaxRecords
    BY <1>0, <2>2
  <2>5. \A r \in Records : r \notin through' /\ deliveries'[r] = tries'[r]
    BY <2>2
  <2> QED
    BY <2>1, <2>2, <2>3, <2>4, <2>5 DEF KafkaNow
<1>5. ASSUME NEW r \in Records, Through(r)
      PROVE  KafkaNow'
  <2>1. Deliver(r) /\ UNCHANGED rewound /\ tries' = [tries EXCEPT ![r] = 0]
        /\ handled' = handled \union {r} /\ through' = through \union {r} /\ batch' = batch \ {r}
    BY <1>5 DEF Through
  <2>2. Cardinality(batch') <= MaxRecords
    <3>1. Cardinality(batch') <= Cardinality(batch) /\ Cardinality(batch') \in Nat
      BY <2>1, BatchFinite, FS_Subset, FS_CardinalityType
    <3> QED
      BY <3>1, BatchFinite DEF KafkaNow
  <2>3. tries[r] \in 0..MaxAttempts /\ tries' \in [Records -> 0..MaxAttempts]
        /\ \A q \in Records : q # r => tries'[q] = tries[q]
    BY <2>1 DEF KafkaNow
  <2> QED
    BY <2>1, <2>2, <2>3, DeliveredNow DEF KafkaNow
<1>6. ASSUME NEW r \in Records, Rewind(r)
      PROVE  KafkaNow'
  <2>1. Deliver(r) /\ rewound' = TRUE /\ tries[r] < MaxAttempts
        /\ tries' = [tries EXCEPT ![r] = @ + 1] /\ batch' = {} /\ UNCHANGED <<handled, through>>
    BY <1>6 DEF Rewind, Dropped
  <2>2. tries' \in [Records -> 0..MaxAttempts] /\ tries'[r] = tries[r] + 1
        /\ \A q \in Records : q # r => tries'[q] = tries[q]
    BY <2>1 DEF KafkaNow
  <2>3. Cardinality(batch') <= MaxRecords
    BY <2>1, FS_EmptySet
  <2> QED
    BY <2>1, <2>2, <2>3, DeliveredNow DEF KafkaNow
<1> QED
  BY <1>1, <1>2, <1>3, <1>4, <1>5, <1>6 DEF KafkaNext

(* Positions, batch and lane are what they are said to be, and no process   *)
(* sees a record more often than it may fail, and once (kafka_observer.py:  *)
(* 106-165).                                                               *)
THEOREM KafkaTypeCorrect == KafkaSpec => []KafkaTypeOK
<1>1. KafkaInv /\ KafkaNow => KafkaTypeOK
  <2> SUFFICES ASSUME KafkaInv, KafkaNow
               PROVE  KafkaTypeOK
    OBVIOUS
  <2>1. tries \in [Records -> 0..MaxAttempts+1] /\ deliveries \in [Records -> 0..MaxAttempts+1]
    BY KafkaAssumption DEF KafkaInv, KafkaTyped, KafkaNow
  <2> QED
    BY <2>1 DEF KafkaInv, KafkaTyped, KafkaNow, KafkaTypeOK
<1> QED
  BY <1>1, KafkaInvInit, KafkaStep, KafkaNowInit, KafkaNowStep, PTL DEF KafkaSpec
-------------------------------------------------------------------------------
(* The flow of events.                                                     *)
SpanRecord == [kind : {"producer", "consumer", "replay"}, parent : Nat, step : Nat, trace : Nat]
Letter == [id : Nat, step : 1..Hops, ctx : Nat, keyed : BOOLEAN, from : Nat, wraps : Nat]
Outcomes == {"none", "success", "retrying", "dlq", "failed", "duplicate"}
WorkRecord == [at : {"idle", "handling", "settling"}, msg : Letter \union {NoMessage}, span : Nat,
               saved : Nat, marked : Outcomes]
PubRecord == [at : {"none", "sending", "done"}, wire : Nat, saved : Nat]
RedriveRecord == [at : {"rest", "next", "sent"}, batch : SUBSET Letter, msg : Letter \union {NoMessage}]

FlowTyped ==
  /\ spans \in Seq(SpanRecord) /\ current \in [Tasks -> Nat]
  /\ queue \in [1..Hops -> SUBSET Letter] /\ dead \subseteq Letter
  /\ work \in [Tasks -> WorkRecord] /\ pub \in [Tasks -> PubRecord]
  /\ redrive \in RedriveRecord /\ published \in Nat

(* A trace is named by the span it began with.                             *)
SpansRooted == \A s \in 1..Len(spans) : spans[s].trace \in 1..s

(* Where a message may come from: the delivery one step before, or a       *)
(* replay of its own step, which names another trace.                      *)
Born(m) ==
  IF m.ctx = 0 THEN m.from = 0 /\ (m.step = 1 \/ Headers >= MaxAttributes)
  ELSE /\ m.ctx \in 1..Len(spans)
       /\ \/ spans[m.ctx].kind = "consumer" /\ spans[m.ctx].step = m.step - 1 /\ m.from = 0
          \/ /\ spans[m.ctx].kind = "replay" /\ spans[m.ctx].step = m.step
             /\ m.from # spans[m.ctx].trace
             /\ m.step > 1 /\ SystemAttributes + Headers < MaxAttributes => m.from # 0

(* A dead letter has kept its carrier if there was room for it.            *)
Kept(m) ==
  /\ m.ctx \in 0..Len(spans)
  /\ m.step > 1 /\ SystemAttributes + Headers < MaxAttributes => m.ctx # 0

MessagesBorn ==
  /\ \A h \in 1..Hops : \A m \in queue[h] : m.step = h /\ Born(m)
  /\ \A t \in 1..Hops : work[t].at # "idle" =>
       work[t].msg \in Letter /\ work[t].msg.step = t /\ Born(work[t].msg)
  /\ \A m \in dead \union redrive.batch : Kept(m)

(* A handler runs below the span of its delivery, which continues the      *)
(* trace of the message.                                                   *)
Handles(t) ==
  work[t].at = "handling" =>
    /\ work[t].span \in 1..Len(spans)
    /\ spans[work[t].span].kind = "consumer" /\ spans[work[t].span].step = t
    /\ spans[work[t].span].parent = work[t].msg.ctx
    /\ work[t].msg.ctx # 0 => spans[work[t].span].trace = spans[work[t].msg.ctx].trace

(* The active span of a task is that of its delivery, or of the publish in *)
(* it, which knows what it has to restore.                                 *)
Publishes(t) ==
  /\ pub[t].at = "sending" =>
       /\ t < Hops /\ work[t].at = "handling" /\ pub[t].saved = work[t].span /\ pub[t].wire = work[t].span
       /\ current[t] \in 1..Len(spans)
       /\ spans[current[t]].kind = "producer" /\ spans[current[t]].step = t + 1
  /\ work[t].at = "handling" /\ pub[t].at # "sending" => current[t] = work[t].span

InItsSpan ==
  /\ work[0].at = "handling" /\ work[0].span = 0
  /\ \A t \in 1..Hops : Handles(t)
  /\ \A t \in Tasks : Publishes(t)

(* No envelope is about the span of a delivery or a publish under way.     *)
Untold(e, t) ==
  /\ t # 0 /\ work[t].at = "handling" => e.span # work[t].span
  /\ pub[t].at = "sending" => e.span # current[t]

SpansKnown == \A e \in envelopes :
  e.span \in 1..Len(spans) /\ (e.kind = "consumer" => e.parent \in 0..Len(spans))

Reported == EnvelopesTellTheTruth /\ SpansKnown /\ \A e \in envelopes, t \in Tasks : Untold(e, t)

FlowInv == FlowTyped /\ SpansRooted /\ MessagesBorn /\ InItsSpan /\ Reported

(* Spans are only added.                                                   *)
Longer == Len(spans) <= Len(spans') /\ \A s \in 1..Len(spans) : spans'[s] = spans[s]

LEMMA StartOf ==
  ASSUME FlowTyped, SpansRooted, NEW kind \in {"producer", "consumer", "replay"},
         NEW parent \in 0..Len(spans), NEW step \in Nat, Start(kind, parent, step)
  PROVE  /\ spans' \in Seq(SpanRecord) /\ Longer /\ SpansRooted'
         /\ Len(spans) \in Nat /\ Len(spans') = Len(spans) + 1 /\ NextSpan = Len(spans) + 1
         /\ spans'[NextSpan].kind = kind /\ spans'[NextSpan].parent = parent
         /\ spans'[NextSpan].step = step
         /\ spans'[NextSpan].trace = IF parent = 0 THEN NextSpan ELSE spans[parent].trace
<1> DEFINE trace == IF parent = 0 THEN NextSpan ELSE spans[parent].trace
           s == [kind |-> kind, parent |-> parent, step |-> step, trace |-> trace]
<1>1. Len(spans) \in Nat /\ NextSpan = Len(spans) + 1 /\ NextSpan \in Nat
  BY DEF FlowTyped, NextSpan
<1>2. trace \in 1..NextSpan
  BY <1>1 DEF SpansRooted
<1>3. s \in SpanRecord
  BY <1>1, <1>2 DEF SpanRecord
<1>4. spans' = Append(spans, s)
  BY DEF Start
<1>5. s.kind = kind /\ s.parent = parent /\ s.step = step /\ s.trace = trace
  OBVIOUS
<1> HIDE DEF s, trace
<1>6. /\ spans' \in Seq(SpanRecord) /\ Len(spans') = Len(spans) + 1 /\ spans'[NextSpan] = s
      /\ \A i \in 1..Len(spans) : spans'[i] = spans[i]
  BY <1>1, <1>3, <1>4 DEF FlowTyped
<1>7. SpansRooted'
  BY <1>1, <1>2, <1>5, <1>6 DEF SpansRooted
<1> QED
  BY <1>1, <1>5, <1>6, <1>7 DEF Longer, trace

(* Where a message comes from does not change with more spans.             *)
LEMMA BornStays ==
  ASSUME Longer, Len(spans) \in Nat, Len(spans') \in Nat, NEW m
  PROVE  (Born(m) => Born(m)') /\ (Kept(m) => Kept(m)')
BY DEF Longer, Born, Kept

(* What is true of the envelopes stays true of them.                       *)
LEMMA TruthStays ==
  ASSUME FlowInv, Longer, Len(spans') \in Nat, envelopes' = envelopes
  PROVE  EnvelopesTellTheTruth' /\ SpansKnown'
<1>1. Len(spans) \in Nat /\ EnvelopesTellTheTruth /\ SpansKnown
  BY DEF FlowInv, FlowTyped, Reported
<1>2. OneEnvelope'
  BY <1>1 DEF EnvelopesTellTheTruth, OneEnvelope, Longer, SpansKnown
<1>3. LineageIsConsumerChain'
  BY <1>1 DEF EnvelopesTellTheTruth, LineageIsConsumerChain, Longer, SpansKnown
<1>4. ReplayLinked'
  BY <1>1 DEF EnvelopesTellTheTruth, ReplayLinked, Longer, SpansKnown
<1> QED
  BY <1>1, <1>2, <1>3, <1>4 DEF EnvelopesTellTheTruth, Longer, SpansKnown

(* The span of a delivery stays its span while spans are added.            *)
LEMMA HandlesStays ==
  ASSUME FlowInv, Longer, Len(spans') \in Nat, NEW u \in 1..Hops, work'[u] = work[u]
  PROVE  Handles(u)'
<1>1. Handles(u) /\ Len(spans) \in Nat
  BY DEF FlowInv, FlowTyped, InItsSpan
<1>2. work[u].at = "handling" /\ work[u].msg.ctx # 0 => work[u].msg.ctx \in 1..Len(spans)
  BY DEF FlowInv, MessagesBorn, Born
<1>3. \A s \in 1..Len(spans) : s \in 1..Len(spans') /\ spans'[s] = spans[s]
  BY <1>1 DEF Longer
<1> QED
  BY <1>1, <1>2, <1>3 DEF Handles

(* A task that does nothing stays where it is while spans are added.       *)
LEMMA OthersStay ==
  ASSUME FlowInv, Longer, Len(spans') \in Nat, NEW u \in Tasks,
         work'[u] = work[u], pub'[u] = pub[u], current'[u] = current[u]
  PROVE  /\ u # 0 => Handles(u)'
         /\ Publishes(u)'
         /\ u = 0 => (work[0].at = "handling" /\ work[0].span = 0)'
         /\ \A e : Untold(e, u) => Untold(e, u)'
<1>1. Len(spans) \in Nat /\ Hops \in Nat /\ Tasks = 0..Hops
  BY FlowAssumption DEF FlowInv, FlowTyped, Tasks
<1>2. u # 0 => Handles(u)'
  <2>1. u # 0 => u \in 1..Hops
    BY <1>1
  <2> QED
    BY <2>1, HandlesStays
<1>3. Publishes(u)'
  BY <1>1 DEF FlowInv, InItsSpan, Publishes, Longer
<1> QED
  BY <1>1, <1>2, <1>3 DEF FlowInv, InItsSpan, Untold

(* What only one task's place changes.                                     *)
LEMMA OneMoves ==
  ASSUME FlowInv, Longer, Len(spans') \in Nat, NEW t \in Tasks,
         \A u \in Tasks \ {t} : work'[u] = work[u] /\ pub'[u] = pub[u] /\ current'[u] = current[u],
         t = 0 => (work[0].at = "handling" /\ work[0].span = 0)',
         t # 0 => Handles(t)', Publishes(t)'
  PROVE  InItsSpan' /\ \A e \in envelopes, u \in Tasks \ {t} : Untold(e, u)'
<1>1. Hops \in Nat /\ Tasks = 0..Hops /\ \A e \in envelopes, u \in Tasks : Untold(e, u)
  BY FlowAssumption DEF Tasks, FlowInv, Reported
<1>2. \A u \in Tasks \ {t} :
         /\ u # 0 => Handles(u)'
         /\ Publishes(u)'
         /\ u = 0 => (work[0].at = "handling" /\ work[0].span = 0)'
         /\ \A e \in envelopes : Untold(e, u)'
  <2> SUFFICES ASSUME NEW u \in Tasks \ {t}
               PROVE  /\ u # 0 => Handles(u)'
                      /\ Publishes(u)'
                      /\ u = 0 => (work[0].at = "handling" /\ work[0].span = 0)'
                      /\ \A e \in envelopes : Untold(e, u)'
    OBVIOUS
  <2>1. work'[u] = work[u] /\ pub'[u] = pub[u] /\ current'[u] = current[u]
    OBVIOUS
  <2>2. /\ u # 0 => Handles(u)'
        /\ Publishes(u)'
        /\ u = 0 => (work[0].at = "handling" /\ work[0].span = 0)'
        /\ \A e : Untold(e, u) => Untold(e, u)'
    BY <2>1, OthersStay
  <2> QED
    BY <1>1, <2>2
<1>3. \A u \in 1..Hops : Handles(u)'
  BY <1>1, <1>2
<1>4. \A u \in Tasks : Publishes(u)'
  BY <1>2
<1>5. (work[0].at = "handling" /\ work[0].span = 0)'
  BY <1>1, <1>2
<1> QED
  BY <1>2, <1>3, <1>4, <1>5 DEF InItsSpan

(* What a step leaves of the messages was born before it.                  *)
LEMMA MessagesStay ==
  ASSUME FlowInv, Longer, Len(spans') \in Nat,
         \A h \in 1..Hops : \A l \in queue'[h] : l \in queue[h] \/ (l.step = h /\ Born(l)'),
         \A h \in 1..Hops :
           \/ work'[h].at = "idle"
           \/ work[h].at # "idle" /\ work'[h].msg = work[h].msg
           \/ (work[h].msg \in Letter /\ work[h].msg.step = h /\ Born(work[h].msg))',
         \A l \in dead' \union redrive'.batch : l \in dead \union redrive.batch \/ Kept(l)'
  PROVE  MessagesBorn'
<1>1. MessagesBorn /\ Len(spans) \in Nat
  BY DEF FlowInv, FlowTyped
<1>2. ASSUME NEW l PROVE (Born(l) => Born(l)') /\ (Kept(l) => Kept(l)')
  BY <1>1, BornStays
<1>3. \A h \in 1..Hops : \A l \in queue'[h] : l.step = h /\ Born(l)'
  BY <1>1, <1>2 DEF MessagesBorn
<1>4. ASSUME NEW h \in 1..Hops, (work[h].at # "idle")'
      PROVE  (work[h].msg \in Letter /\ work[h].msg.step = h /\ Born(work[h].msg))'
  <2>1. CASE work[h].at # "idle" /\ work'[h].msg = work[h].msg
    <3>1. PICK l : l = work[h].msg
      OBVIOUS
    <3>2. l \in Letter /\ l.step = h /\ Born(l)
      BY <1>1, <2>1, <3>1 DEF MessagesBorn
    <3>3. Born(l)' /\ l = work'[h].msg
      BY <1>2, <2>1, <3>1, <3>2
    <3> QED
      BY <3>2, <3>3 DEF Born
  <2> QED
    BY <1>4, <2>1
<1>5. \A l \in dead' \union redrive'.batch : Kept(l)'
  BY <1>1, <1>2 DEF MessagesBorn
<1> QED
  BY <1>3, <1>4, <1>5 DEF MessagesBorn

LEMMA OpenPublishStep ==
  ASSUME FlowInv, Transport # "redis", NEW t \in Tasks, OpenPublish(t)
  PROVE  FlowInv'
<1>1. /\ work[t].at = "handling" /\ pub[t].at = "none" /\ t < Hops
      /\ Start("producer", current[t], t + 1)
      /\ pub' = [pub EXCEPT ![t] = [at |-> "sending", wire |-> current[t], saved |-> current[t]]]
      /\ current' = [current EXCEPT ![t] = NextSpan]
      /\ UNCHANGED <<queue, dead, work, redrive, envelopes, published, resent>>
  BY DEF OpenPublish, Wire, SetCurrent
<1>2. Hops \in Nat \ {0} /\ Tasks = 0..Hops /\ t + 1 \in Nat
  BY FlowAssumption DEF Tasks
<1>3. current[t] = work[t].span /\ current[t] \in 0..Len(spans) /\ Len(spans) \in Nat
  <2>1. current[t] = work[t].span
    BY <1>1 DEF FlowInv, InItsSpan, Publishes
  <2>2. Len(spans) \in Nat
    BY DEF FlowInv, FlowTyped
  <2>3. work[t].span \in 0..Len(spans)
    <3>1. CASE t = 0
      BY <3>1, <2>2 DEF FlowInv, InItsSpan
    <3>2. CASE t # 0
      BY <3>2, <1>1, <1>2, <2>2 DEF FlowInv, InItsSpan, Handles
    <3> QED
      BY <3>1, <3>2
  <2> QED
    BY <2>1, <2>2, <2>3
<1>4. /\ spans' \in Seq(SpanRecord) /\ Longer /\ SpansRooted'
      /\ Len(spans') = Len(spans) + 1 /\ NextSpan = Len(spans) + 1
      /\ spans'[NextSpan].kind = "producer" /\ spans'[NextSpan].step = t + 1
  BY <1>1, <1>2, <1>3, StartOf DEF FlowInv
<1>5. [at |-> "sending", wire |-> current[t], saved |-> current[t]] \in PubRecord
  BY <1>3 DEF PubRecord
<1>6. FlowTyped'
  BY <1>1, <1>3, <1>4, <1>5 DEF FlowInv, FlowTyped
<1>7. MessagesBorn'
  <2>1. \A h \in 1..Hops : work'[h].at = "idle" \/ (work[h].at # "idle" /\ work'[h].msg = work[h].msg)
    BY <1>1
  <2> QED
    BY <1>1, <1>3, <1>4, <2>1, MessagesStay
<1>8. /\ \A u \in Tasks \ {t} : work'[u] = work[u] /\ pub'[u] = pub[u] /\ current'[u] = current[u]
      /\ pub'[t].at = "sending" /\ pub'[t].saved = current[t] /\ pub'[t].wire = current[t]
      /\ current'[t] = NextSpan /\ work'[t] = work[t]
  BY <1>1 DEF FlowInv, FlowTyped
<1>9. Publishes(t)'
  BY <1>1, <1>3, <1>4, <1>8 DEF Publishes
<1>10. t # 0 => Handles(t)'
  <2> SUFFICES ASSUME t \in 1..Hops PROVE Handles(t)'
    BY <1>2
  <2> QED
    BY <1>3, <1>4, <1>8, HandlesStays
<1>11. InItsSpan' /\ \A e \in envelopes, u \in Tasks \ {t} : Untold(e, u)'
  <2>1. t = 0 => (work[0].at = "handling" /\ work[0].span = 0)'
    BY <1>1 DEF FlowInv, InItsSpan
  <2> QED
    BY <1>3, <1>4, <1>8, <1>9, <1>10, <2>1, OneMoves
<1>12. Reported'
  <2>1. \A e \in envelopes : Untold(e, t)'
    BY <1>1, <1>3, <1>4, <1>8 DEF Untold, FlowInv, Reported, SpansKnown
  <2> QED
    BY <1>1, <1>3, <1>4, <1>11, <2>1, TruthStays DEF Reported
<1> QED
  BY <1>4, <1>6, <1>7, <1>11, <1>12 DEF FlowInv

LEMMA EnterStep ==
  ASSUME FlowInv, NEW t \in 1..Hops, NEW m \in queue[t], Enter(t, m)
  PROVE  FlowInv'
<1> DEFINE w == [at |-> "handling", msg |-> m, span |-> NextSpan, saved |-> current[t], marked |-> "none"]
<1>1. /\ work[t].at = "idle" /\ Start("consumer", m.ctx, t)
      /\ work' = [work EXCEPT ![t] = w]
      /\ pub' = [pub EXCEPT ![t] = NoPublish]
      /\ current' = [current EXCEPT ![t] = NextSpan]
      /\ UNCHANGED <<queue, dead, redrive, envelopes, published, resent>>
  BY DEF Enter, SetCurrent
<1>2. Hops \in Nat \ {0} /\ Tasks = 0..Hops /\ t \in Nat /\ t \in Tasks /\ t # 0
  BY FlowAssumption DEF Tasks
<1>3. m \in Letter /\ m.step = t /\ Born(m) /\ m.ctx \in 0..Len(spans) /\ Len(spans) \in Nat
  <2>1. m \in Letter /\ Len(spans) \in Nat
    BY DEF FlowInv, FlowTyped
  <2>2. m.step = t /\ Born(m)
    BY DEF FlowInv, MessagesBorn
  <2> QED
    BY <2>1, <2>2 DEF Born
<1>4. /\ spans' \in Seq(SpanRecord) /\ Longer /\ SpansRooted'
      /\ Len(spans') = Len(spans) + 1 /\ NextSpan = Len(spans) + 1
      /\ spans'[NextSpan].kind = "consumer" /\ spans'[NextSpan].step = t
      /\ spans'[NextSpan].parent = m.ctx
      /\ m.ctx # 0 => spans'[NextSpan].trace = spans[m.ctx].trace
  BY <1>1, <1>2, <1>3, StartOf DEF FlowInv
<1>5. w \in WorkRecord /\ w.at = "handling" /\ w.msg = m /\ w.span = NextSpan
  <2>1. current[t] \in Nat /\ NextSpan \in Nat
    BY <1>2, <1>3, <1>4 DEF FlowInv, FlowTyped
  <2> QED
    BY <1>3, <2>1 DEF WorkRecord, Outcomes
<1> HIDE DEF w
<1>6. NoPublish \in PubRecord /\ NoPublish.at = "none"
  BY DEF NoPublish, PubRecord
<1>7. FlowTyped'
  <2>1. NextSpan \in Nat
    BY <1>3, <1>4
  <2> QED
    BY <1>1, <1>4, <1>5, <1>6, <2>1 DEF FlowInv, FlowTyped
<1>8. /\ \A u \in Tasks \ {t} : work'[u] = work[u] /\ pub'[u] = pub[u] /\ current'[u] = current[u]
      /\ work'[t] = w /\ pub'[t].at = "none" /\ current'[t] = NextSpan
  BY <1>1, <1>2, <1>6 DEF FlowInv, FlowTyped
<1>9. MessagesBorn'
  <2>1. ASSUME NEW h \in 1..Hops
        PROVE  \/ work'[h].at = "idle"
               \/ work[h].at # "idle" /\ work'[h].msg = work[h].msg
               \/ (work[h].msg \in Letter /\ work[h].msg.step = h /\ Born(work[h].msg))'
    <3>1. CASE h = t
      <4>1. work'[h].msg = m
        BY <3>1, <1>5, <1>8
      <4>2. Born(m)'
        BY <1>3, <1>4, BornStays
      <4> QED
        BY <3>1, <4>1, <4>2, <1>3 DEF Born
    <3>2. CASE h # t
      BY <3>2, <1>2, <1>8
    <3> QED
      BY <3>1, <3>2
  <2>2. Len(spans') \in Nat
    BY <1>3, <1>4
  <2> QED
    BY <1>1, <1>4, <2>1, <2>2, MessagesStay
<1>10. Handles(t)' /\ Publishes(t)'
  <2>1. m.ctx # 0 => spans'[m.ctx] = spans[m.ctx]
    BY <1>3, <1>4 DEF Longer
  <2> QED
    BY <1>2, <1>3, <1>4, <1>5, <1>8, <2>1 DEF Handles, Publishes, Longer
<1>11. InItsSpan' /\ \A e \in envelopes, u \in Tasks \ {t} : Untold(e, u)'
  BY <1>2, <1>3, <1>4, <1>8, <1>10, OneMoves
<1>12. Reported'
  <2>1. \A e \in envelopes : Untold(e, t)'
    BY <1>3, <1>4, <1>5, <1>8 DEF Untold, FlowInv, Reported, SpansKnown
  <2> QED
    BY <1>1, <1>3, <1>4, <1>11, <2>1, TruthStays DEF Reported
<1> QED
  BY <1>4, <1>7, <1>9, <1>11, <1>12 DEF FlowInv

(* One more envelope, of a span nothing was said about.                    *)
LEMMA OneMore ==
  ASSUME FlowInv, spans' = spans, NEW e,
         envelopes' = envelopes \/ envelopes' = envelopes \union {e},
         e.span \in 1..Len(spans), spans[e.span].kind = e.kind, spans[e.span].step = e.step,
         \A f \in envelopes : f.span # e.span,
         e.kind = "consumer" =>
           /\ e.parent \in 0..Len(spans)
           /\ IF e.parent = 0 THEN e.from = 0 /\ (e.step = 1 \/ Headers >= MaxAttributes)
              ELSE \/ /\ spans[e.parent].kind = "consumer" /\ spans[e.parent].step = e.step - 1
                      /\ e.from = 0
                   \/ /\ spans[e.parent].kind = "replay" /\ spans[e.parent].step = e.step
                      /\ e.trace # e.from
                      /\ e.step > 1 /\ SystemAttributes + Headers < MaxAttributes => e.from # 0
  PROVE  EnvelopesTellTheTruth' /\ SpansKnown'
<1>1. Len(spans) \in Nat /\ OneEnvelope /\ LineageIsConsumerChain /\ ReplayLinked /\ SpansKnown
  BY DEF FlowInv, FlowTyped, Reported, EnvelopesTellTheTruth
<1>2. \A f \in envelopes' : f \in envelopes \/ f = e
  OBVIOUS
<1>3. OneEnvelope'
  BY <1>1, <1>2 DEF OneEnvelope
<1>4. LineageIsConsumerChain'
  BY <1>1, <1>2 DEF LineageIsConsumerChain
<1>5. ReplayLinked'
  <2> SUFFICES ASSUME NEW f \in envelopes', f.kind = "consumer"
               PROVE  (IF f.parent # 0 /\ spans[f.parent].kind = "replay"
                       THEN /\ f.trace # f.from
                            /\ f.step > 1 /\ SystemAttributes + Headers < MaxAttributes => f.from # 0
                       ELSE f.from = 0)
    BY DEF ReplayLinked
  <2>1. CASE f \in envelopes
    BY <1>1, <2>1 DEF ReplayLinked
  <2>2. CASE f = e
    BY <2>2
  <2> QED
    BY <1>2, <2>1, <2>2
<1>6. SpansKnown'
  BY <1>1, <1>2 DEF SpansKnown
<1> QED
  BY <1>3, <1>4, <1>5, <1>6 DEF EnvelopesTellTheTruth

LEMMA SendStep ==
  ASSUME FlowInv, Transport # "redis", NEW t \in Tasks, NEW taken \in BOOLEAN,
         NEW result \in {"none", "other", "cancelled"}, Send(t, taken, result)
  PROVE  FlowInv'
<1> DEFINE told == Outgoing(t, IF result = "none" THEN published + 1 ELSE 0, 0)
           e == Envelope("producer", told, IF result = "none" THEN "success" ELSE "failed",
                         current[t])
           new == Outgoing(t, published', Carried(pub[t].wire, Headers))
           p == [NoPublish EXCEPT !.at = "done"]
<1>1. /\ pub[t].at = "sending"
      /\ \/ /\ published' = published + 1
            /\ queue' = [queue EXCEPT ![t + 1] = @ \union {new}]
         \/ UNCHANGED <<published, queue>>
      /\ envelopes' = envelopes \/ envelopes' = envelopes \union {e}
      /\ current' = [current EXCEPT ![t] = pub[t].saved]
      /\ pub' = [pub EXCEPT ![t] = p]
      /\ UNCHANGED <<spans, dead, work, redrive, resent>>
  BY DEF Send, SetCurrent, Ship, ActiveSpan
<1>2. /\ Hops \in Nat \ {0} /\ Tasks = 0..Hops /\ t + 1 \in 1..Hops
      /\ work[t].at = "handling" /\ pub[t].saved = work[t].span /\ pub[t].wire = work[t].span
      /\ current[t] \in 1..Len(spans) /\ Len(spans) \in Nat
      /\ spans[current[t]].kind = "producer" /\ spans[current[t]].step = t + 1
  BY <1>1, FlowAssumption DEF Tasks, FlowInv, FlowTyped, InItsSpan, Publishes
<1>3. IF t = 0 THEN work[t].span = 0
      ELSE /\ work[t].span \in 1..Len(spans)
           /\ spans[work[t].span].kind = "consumer" /\ spans[work[t].span].step = t
  BY <1>1, <1>2 DEF FlowInv, InItsSpan, Handles
<1>4. published' \in Nat /\ new \in Letter /\ new.step = t + 1 /\ Born(new)
  <2>1. Carried(pub[t].wire, Headers) \in Nat /\ published' \in Nat
    BY <1>1, <1>2, <1>3 DEF Carried, FlowInv, FlowTyped
  <2>2. new \in Letter /\ new.step = t + 1 /\ new.from = 0 /\ new.ctx = Carried(pub[t].wire, Headers)
    BY <1>2, <2>1 DEF Outgoing, Letter
  <2> HIDE DEF new
  <2> QED
    BY <1>2, <1>3, <2>1, <2>2, FlowAssumption DEF Born, Carried
<1>5. p \in PubRecord /\ p.at = "done"
  BY DEF NoPublish, PubRecord
<1>6. e.kind = "producer" /\ e.step = t + 1 /\ e.span = current[t]
  BY DEF Envelope, Outgoing
<1> HIDE DEF told, e, new, p
<1>7. /\ \A u \in Tasks \ {t} : work'[u] = work[u] /\ pub'[u] = pub[u] /\ current'[u] = current[u]
      /\ pub'[t] = p /\ current'[t] = work[t].span /\ work'[t] = work[t]
  BY <1>1, <1>2 DEF FlowInv, FlowTyped
<1>8. FlowTyped'
  <2>1. queue' \in [1..Hops -> SUBSET Letter]
    <3> DEFINE q == queue[t + 1] \union {new}
    <3>1. q \in SUBSET Letter /\ queue \in [1..Hops -> SUBSET Letter]
      BY <1>2, <1>4 DEF FlowInv, FlowTyped
    <3>2. queue' = [queue EXCEPT ![t + 1] = q] \/ queue' = queue
      BY <1>1
    <3> HIDE DEF q
    <3> QED
      BY <1>2, <3>1, <3>2
  <2>2. current' \in [Tasks -> Nat]
    BY <1>1, <1>2, <1>3 DEF FlowInv, FlowTyped
  <2> QED
    BY <1>1, <1>4, <1>5, <2>1, <2>2 DEF FlowInv, FlowTyped
<1>9. Longer
  BY <1>1 DEF Longer, FlowInv, FlowTyped
<1>10. MessagesBorn'
  <2>1. ASSUME NEW h \in 1..Hops, NEW l \in queue'[h]
        PROVE  l \in queue[h] \/ (l = new /\ h = t + 1)
    <3>1. queue \in [1..Hops -> SUBSET Letter]
      BY DEF FlowInv, FlowTyped
    <3>2. CASE h = t + 1
      BY <1>1, <1>2, <3>1, <3>2
    <3>3. CASE h # t + 1
      BY <1>1, <1>2, <3>1, <3>3
    <3> QED
      BY <3>2, <3>3
  <2>2. ASSUME NEW h \in 1..Hops, NEW l \in queue'[h]
        PROVE  l \in queue[h] \/ (l.step = h /\ Born(l)')
    <3>1. CASE l = new /\ h = t + 1
      <4>1. l.step = h /\ Born(l)
        BY <1>4, <3>1
      <4> QED
        BY <1>1, <4>1 DEF Born
    <3> QED
      BY <2>1, <3>1
  <2>3. \A h \in 1..Hops : work'[h].at = "idle" \/ (work[h].at # "idle" /\ work'[h].msg = work[h].msg)
    BY <1>1
  <2>4. Len(spans') \in Nat /\ dead' = dead /\ redrive' = redrive
    BY <1>1, <1>2
  <2> QED
    BY <1>9, <2>2, <2>3, <2>4, MessagesStay
<1>11. InItsSpan' /\ \A f \in envelopes, u \in Tasks \ {t} : Untold(f, u)'
  <2>1. Publishes(t)'
    BY <1>5, <1>7 DEF Publishes
  <2>2. Len(spans') \in Nat /\ (t # 0 => t \in 1..Hops)
    BY <1>1, <1>2
  <2>3. t # 0 => Handles(t)'
    BY <1>7, <1>9, <2>2, HandlesStays
  <2>4. t = 0 => (work[0].at = "handling" /\ work[0].span = 0)'
    BY <1>7 DEF FlowInv, InItsSpan
  <2> QED
    BY <1>7, <1>9, <2>1, <2>2, <2>3, <2>4, OneMoves
<1>12. EnvelopesTellTheTruth' /\ SpansKnown'
  <2>1. \A f \in envelopes : f.span # current[t]
    BY <1>1 DEF FlowInv, Reported, Untold
  <2> QED
    BY <1>1, <1>2, <1>6, <2>1, OneMore
<1>13. \A f \in envelopes', u \in Tasks : Untold(f, u)'
  <2> SUFFICES ASSUME NEW f \in envelopes', NEW u \in Tasks
               PROVE  Untold(f, u)'
    OBVIOUS
  <2>1. CASE f \in envelopes /\ u = t
    BY <2>1, <1>1, <1>5, <1>7 DEF FlowInv, Reported, Untold
  <2>2. CASE f = e
    <3>1. u # 0 /\ work[u].at = "handling" => work[u].span # current[t]
      BY <1>2 DEF FlowInv, InItsSpan, Handles
    <3>2. u # t /\ pub[u].at = "sending" => current[u] # current[t]
      BY <1>2 DEF FlowInv, InItsSpan, Publishes
    <3> QED
      BY <1>1, <1>5, <1>6, <1>7, <2>2, <3>1, <3>2 DEF Untold
  <2> QED
    BY <1>1, <1>11, <2>1, <2>2
<1> QED
  BY <1>1, <1>8, <1>10, <1>11, <1>12, <1>13 DEF FlowInv, Reported, SpansRooted

LEMMA MarkStep ==
  ASSUME FlowInv, NEW t \in Tasks, NEW s \in Marks, Mark(t, s)
  PROVE  FlowInv'
<1> DEFINE w == [work[t] EXCEPT !.marked = s]
<1>1. /\ t # 0 /\ work[t].at = "handling" /\ work' = [work EXCEPT ![t] = w]
      /\ UNCHANGED <<spans, current, queue, dead, pub, redrive, envelopes, published, resent>>
  BY FlowAssumption DEF Mark, Tasks
<1>2. work[t] \in WorkRecord /\ s \in Outcomes /\ Len(spans) \in Nat
  BY FlowAssumption DEF FlowInv, FlowTyped, Outcomes
<1>3. w \in WorkRecord /\ w.at = work[t].at /\ w.msg = work[t].msg /\ w.span = work[t].span
  BY <1>2 DEF WorkRecord
<1> HIDE DEF w
<1>4. (\A u \in Tasks \ {t} : work'[u] = work[u]) /\ work'[t] = w
  BY <1>1 DEF FlowInv, FlowTyped
<1>5. \A u \in Tasks : work'[u].at = work[u].at /\ work'[u].msg = work[u].msg /\ work'[u].span = work[u].span
  BY <1>3, <1>4
<1>6. FlowTyped'
  BY <1>1, <1>3 DEF FlowInv, FlowTyped
<1>7. 0 \in Tasks /\ 1..Hops \subseteq Tasks
  BY FlowAssumption DEF Tasks
<1>8. MessagesBorn'
  <2>1. \A h \in 1..Hops : work'[h].at = "idle" \/ (work[h].at # "idle" /\ work'[h].msg = work[h].msg)
    BY <1>5, <1>7
  <2>2. Longer /\ Len(spans') \in Nat
    BY <1>1, <1>2 DEF Longer
  <2> QED
    BY <1>1, <2>1, <2>2, MessagesStay
<1>9. InItsSpan'
  BY <1>1, <1>5, <1>7 DEF FlowInv, InItsSpan, Handles, Publishes
<1>10. EnvelopesTellTheTruth' /\ SpansKnown'
  BY <1>1, <1>2, TruthStays DEF Longer
<1>11. Reported'
  BY <1>1, <1>5, <1>10 DEF FlowInv, Reported, Untold
<1> QED
  BY <1>1, <1>6, <1>8, <1>9, <1>11 DEF FlowInv, SpansRooted

LEMMA ExitStep ==
  ASSUME FlowInv, NEW t \in Tasks, NEW error \in Errors \union {"none"}, NEW emits \in BOOLEAN,
         Exit(t, error, emits)
  PROVE  FlowInv'
<1> DEFINE status == IF emits THEN Resolution(t, error) ELSE "none"
           e == Envelope("consumer", work[t].msg, status, current[t])
           w == [work[t] EXCEPT !.at = "settling", !.marked = status]
<1>1. /\ t # 0 /\ work[t].at = "handling" /\ pub[t].at # "sending"
      /\ envelopes' = envelopes \/ envelopes' = envelopes \union {e}
      /\ current' = [current EXCEPT ![t] = work[t].saved]
      /\ work' = [work EXCEPT ![t] = w]
      /\ UNCHANGED <<spans, queue, dead, pub, redrive, published, resent>>
  <2>1. work' = [work EXCEPT ![t].at = "settling", ![t].marked = status]
    BY DEF Exit
  <2>2. work' = [work EXCEPT ![t] = w]
    <3> HIDE DEF status
    <3> QED
      BY <2>1
  <2>3. t # 0
    BY FlowAssumption DEF Exit, Tasks
  <2>4. envelopes' = envelopes \/ envelopes' = envelopes \union {e}
    BY DEF Exit, Ship, ActiveSpan
  <2> QED
    BY <2>2, <2>3, <2>4 DEF Exit, SetCurrent
<1>2. /\ Hops \in Nat \ {0} /\ Tasks = 0..Hops /\ t \in 1..Hops /\ Len(spans) \in Nat
      /\ work[t] \in WorkRecord
  BY <1>1, FlowAssumption DEF Tasks, FlowInv, FlowTyped
<1>3. status \in Outcomes
  BY <1>2, FlowAssumption DEF Resolution, Classify, Outcomes, WorkRecord
<1>4. w \in WorkRecord /\ w.at = "settling" /\ w.msg = work[t].msg
  BY <1>2, <1>3 DEF WorkRecord
<1>5. /\ current[t] = work[t].span /\ work[t].span \in 1..Len(spans)
      /\ spans[work[t].span].kind = "consumer" /\ spans[work[t].span].step = t
      /\ spans[work[t].span].parent = work[t].msg.ctx
      /\ work[t].msg.ctx # 0 => spans[work[t].span].trace = spans[work[t].msg.ctx].trace
      /\ work[t].msg \in Letter /\ work[t].msg.step = t /\ Born(work[t].msg)
  <2>1. Handles(t) /\ Publishes(t)
    BY <1>2 DEF FlowInv, InItsSpan
  <2>2. work[t].msg \in Letter /\ work[t].msg.step = t /\ Born(work[t].msg)
    BY <1>1, <1>2 DEF FlowInv, MessagesBorn
  <2> QED
    BY <1>1, <2>1, <2>2 DEF Handles, Publishes
<1>6. /\ e.kind = "consumer" /\ e.step = t /\ e.span = work[t].span
      /\ e.parent = work[t].msg.ctx /\ e.from = work[t].msg.from
      /\ work[t].msg.ctx # 0 => e.trace = spans[work[t].msg.ctx].trace
  BY <1>2, <1>5 DEF Envelope
<1> HIDE DEF status, e, w
<1>7. /\ \A u \in Tasks \ {t} : work'[u] = work[u] /\ pub'[u] = pub[u] /\ current'[u] = current[u]
      /\ work'[t] = w /\ pub'[t] = pub[t]
  BY <1>1, <1>2 DEF FlowInv, FlowTyped
<1>8. FlowTyped'
  <2>1. work[t].saved \in Nat
    BY <1>2 DEF WorkRecord
  <2> QED
    BY <1>1, <1>4, <2>1 DEF FlowInv, FlowTyped
<1>9. Longer
  BY <1>1, <1>2 DEF Longer
<1>10. MessagesBorn'
  <2>1. \A h \in 1..Hops : work'[h].at = "idle" \/ (work[h].at # "idle" /\ work'[h].msg = work[h].msg)
    BY <1>1, <1>2, <1>4, <1>7
  <2>2. Len(spans') \in Nat
    BY <1>1, <1>2
  <2> QED
    BY <1>1, <1>9, <2>1, <2>2, MessagesStay
<1>11. InItsSpan' /\ \A f \in envelopes, u \in Tasks \ {t} : Untold(f, u)'
  <2>1. Publishes(t)' /\ Handles(t)'
    BY <1>1, <1>4, <1>7 DEF Handles, Publishes
  <2> QED
    BY <1>1, <1>2, <1>7, <1>9, <2>1, OneMoves
<1>12. EnvelopesTellTheTruth' /\ SpansKnown'
  <2>1. \A f \in envelopes : f.span # work[t].span
    BY <1>1 DEF FlowInv, Reported, Untold
  <2>2. /\ e.parent \in 0..Len(spans)
        /\ IF e.parent = 0 THEN e.from = 0 /\ (e.step = 1 \/ Headers >= MaxAttributes)
           ELSE \/ /\ spans[e.parent].kind = "consumer" /\ spans[e.parent].step = e.step - 1
                   /\ e.from = 0
                \/ /\ spans[e.parent].kind = "replay" /\ spans[e.parent].step = e.step
                   /\ e.trace # e.from
                   /\ e.step > 1 /\ SystemAttributes + Headers < MaxAttributes => e.from # 0
    <3>1. CASE work[t].msg.ctx = 0
      BY <1>2, <1>5, <1>6, <3>1 DEF Born
    <3>2. CASE work[t].msg.ctx # 0
      BY <1>2, <1>5, <1>6, <3>2 DEF Born
    <3> QED
      BY <3>1, <3>2
  <2>3. /\ e.span \in 1..Len(spans) /\ spans[e.span].kind = e.kind /\ spans[e.span].step = e.step
        /\ \A f \in envelopes : f.span # e.span
    BY <1>5, <1>6, <2>1
  <2>4. spans' = spans /\ (envelopes' = envelopes \/ envelopes' = envelopes \union {e})
    BY <1>1
  <2> QED
    BY <2>2, <2>3, <2>4, OneMore
<1>13. \A f \in envelopes', u \in Tasks : Untold(f, u)'
  <2> SUFFICES ASSUME NEW f \in envelopes', NEW u \in Tasks
               PROVE  Untold(f, u)'
    OBVIOUS
  <2>1. CASE u = t
    BY <2>1, <1>1, <1>4, <1>7 DEF Untold
  <2>2. CASE f = e /\ u # t
    <3>1. u # 0 /\ work[u].at = "handling" => work[u].span # work[t].span
      BY <1>2, <1>5, <2>2 DEF FlowInv, InItsSpan, Handles
    <3>2. pub[u].at = "sending" => current[u] # work[t].span
      BY <1>2, <1>5 DEF FlowInv, InItsSpan, Publishes
    <3> QED
      BY <1>6, <1>7, <2>2, <3>1, <3>2 DEF Untold
  <2> QED
    BY <1>1, <1>11, <2>1, <2>2
<1> QED
  BY <1>1, <1>8, <1>10, <1>11, <1>12, <1>13 DEF FlowInv, Reported, SpansRooted

(* The copy of a message in the dead-letter queue.                         *)
LEMMA BuriedIsKept ==
  ASSUME published \in Nat, Len(spans) \in Nat, NEW m \in Letter, Born(m)
  PROVE  Buried(m) \in Letter /\ Kept(Buried(m))
<1> DEFINE own == IF m.from # 0 \/ ~ m.keyed THEN 0 ELSE Headers
           ctx == Carried(m.ctx, SystemAttributes + own)
           keyed == m.keyed /\ SystemAttributes + own <= MaxAttributes
           b == Buried(m)
<1>1. own \in Nat /\ own <= Headers /\ m.ctx \in Nat
  BY FlowAssumption DEF Letter
<1>2. keyed \in BOOLEAN
  OBVIOUS
<1>3. /\ ctx \in 0..Len(spans)
      /\ m.step > 1 /\ SystemAttributes + Headers < MaxAttributes => ctx # 0
  <2> HIDE DEF own
  <2> QED
    BY <1>1, FlowAssumption DEF Carried, Born, Letter
<1>4. b = [id |-> published + 1, step |-> m.step, ctx |-> ctx, keyed |-> keyed, from |-> m.from, wraps |-> m.wraps + 1]
  BY DEF Buried
<1> HIDE DEF own, ctx, keyed, b
<1>5. b \in Letter /\ b.ctx = ctx /\ b.step = m.step
  <2>1. \A i \in Nat, c \in Nat, k \in BOOLEAN :
          LET l == [id |-> i, step |-> m.step, ctx |-> c, keyed |-> k, from |-> m.from, wraps |-> m.wraps + 1]
          IN  l \in Letter /\ l.ctx = c /\ l.step = m.step
    BY DEF Letter
  <2> QED
    BY <1>2, <1>3, <1>4, <2>1, published + 1 \in Nat
<1> QED
  BY <1>3, <1>5 DEF Kept, b

LEMMA SettleStep ==
  ASSUME FlowInv, NEW t \in Tasks, Settle(t)
  PROVE  FlowInv'
<1> DEFINE m == work[t].msg
           rest == queue[t] \ {m}
<1>1. /\ work[t].at = "settling" /\ work' = [work EXCEPT ![t] = Idle]
      /\ queue' = [queue EXCEPT ![t] = rest] \/ queue' = queue
      /\ \/ published' = published + 1 /\ dead' = dead \union {Buried(m)}
         \/ UNCHANGED <<dead, published>>
      /\ UNCHANGED <<spans, current, pub, redrive, envelopes, resent>>
  BY DEF Settle
<1>2. /\ Hops \in Nat \ {0} /\ Tasks = 0..Hops /\ Len(spans) \in Nat /\ published \in Nat
      /\ queue \in [1..Hops -> SUBSET Letter] /\ dead \subseteq Letter
  BY FlowAssumption DEF Tasks, FlowInv, FlowTyped
<1>3. t # 0 /\ t \in 1..Hops
  BY <1>1, <1>2 DEF FlowInv, InItsSpan
<1>4. m \in Letter /\ Born(m)
  BY <1>1, <1>3 DEF FlowInv, MessagesBorn
<1>5. Buried(m) \in Letter /\ Kept(Buried(m))
  BY <1>2, <1>4, BuriedIsKept
<1>6. Idle \in WorkRecord /\ Idle.at = "idle"
  BY DEF Idle, WorkRecord, Outcomes
<1>7. rest \in SUBSET Letter /\ rest \subseteq queue[t]
  BY <1>2, <1>3
<1> HIDE DEF m, rest
<1>8. /\ \A u \in Tasks \ {t} : work'[u] = work[u] /\ pub'[u] = pub[u] /\ current'[u] = current[u]
      /\ work'[t].at = "idle" /\ pub'[t] = pub[t] /\ current'[t] = current[t]
  BY <1>1, <1>6 DEF FlowInv, FlowTyped
<1>9. FlowTyped'
  <2>1. queue' \in [1..Hops -> SUBSET Letter]
    BY <1>1, <1>2, <1>3, <1>7
  <2> QED
    BY <1>1, <1>2, <1>5, <1>6, <2>1 DEF FlowInv, FlowTyped
<1>10. MessagesBorn'
  <2>1. \A h \in 1..Hops : queue'[h] \subseteq queue[h]
    BY <1>1, <1>2, <1>3, <1>7
  <2>2. \A u \in 1..Hops : work'[u].at = "idle" \/ (work[u].at # "idle" /\ work'[u].msg = work[u].msg)
    BY <1>2, <1>8
  <2>3. Longer /\ Len(spans') \in Nat
    BY <1>1, <1>2 DEF Longer
  <2>4. ASSUME NEW l \in dead' \union redrive'.batch
        PROVE  l \in dead \union redrive.batch \/ Kept(l)'
    <3>1. l = Buried(m) => Kept(l)
      BY <1>5
    <3>2. l = Buried(m) => Kept(l)'
      BY <1>1, <3>1 DEF Kept
    <3> QED
      BY <1>1, <3>2
  <2> QED
    BY <2>1, <2>2, <2>3, <2>4, MessagesStay
<1>11. Longer
  BY <1>1, <1>2 DEF Longer
<1>12. InItsSpan' /\ \A f \in envelopes, u \in Tasks \ {t} : Untold(f, u)'
  <2>1. Publishes(t)' /\ Handles(t)'
    BY <1>1, <1>3, <1>8 DEF FlowInv, InItsSpan, Handles, Publishes
  <2> QED
    BY <1>1, <1>2, <1>3, <1>8, <1>11, <2>1, OneMoves
<1>13. Reported'
  <2>1. \A f \in envelopes : Untold(f, t)'
    BY <1>1, <1>8 DEF FlowInv, Reported, Untold
  <2> QED
    BY <1>1, <1>2, <1>11, <1>12, <2>1, TruthStays DEF Reported
<1> QED
  BY <1>1, <1>9, <1>10, <1>12, <1>13 DEF FlowInv, SpansRooted

LEMMA ResendStep ==
  ASSUME FlowInv, NEW m \in redrive.batch, Resend(m)
  PROVE  FlowInv'
<1> DEFINE new == [id |-> published', step |-> m.step, ctx |-> NextSpan, keyed |-> FALSE,
                   from |-> ReplayedFrom(m), wraps |-> m.wraps]
           q == queue[m.step] \union {new}
           sent == [at |-> "sent", batch |-> redrive.batch, msg |-> m]
<1>1. /\ Start("replay", 0, m.step) /\ published' = published + 1
      /\ queue' = [queue EXCEPT ![m.step] = q] /\ redrive' \in {sent, AtRest}
      /\ UNCHANGED <<current, dead, work, pub, envelopes>>
  BY DEF Resend, ReplayParent
<1>2. /\ Hops \in Nat \ {0} /\ Tasks = 0..Hops /\ Len(spans) \in Nat /\ published' \in Nat
      /\ queue \in [1..Hops -> SUBSET Letter] /\ redrive \in RedriveRecord
  BY <1>1, FlowAssumption DEF Tasks, FlowInv, FlowTyped
<1>3. m \in Letter /\ m.step \in 1..Hops /\ m.step \in Nat /\ m.ctx \in 0..Len(spans) /\ Kept(m)
  <2>1. m \in Letter
    BY <1>2 DEF RedriveRecord
  <2>2. Kept(m)
    BY DEF FlowInv, MessagesBorn
  <2> QED
    BY <1>2, <2>1, <2>2 DEF Letter, Kept
<1>4. /\ spans' \in Seq(SpanRecord) /\ Longer /\ SpansRooted'
      /\ Len(spans') = Len(spans) + 1 /\ NextSpan = Len(spans) + 1
      /\ spans'[NextSpan].kind = "replay" /\ spans'[NextSpan].step = m.step
      /\ spans'[NextSpan].trace = NextSpan
  BY <1>1, <1>2, <1>3, StartOf DEF FlowInv
<1>5. /\ ReplayedFrom(m) \in Nat /\ ReplayedFrom(m) # NextSpan
      /\ m.step > 1 /\ SystemAttributes + Headers < MaxAttributes => ReplayedFrom(m) # 0
  <2>1. CASE m.ctx = 0
    BY <1>2, <1>3, <1>4, <2>1 DEF ReplayedFrom, Kept
  <2>2. CASE m.ctx # 0
    <3>1. m.ctx \in 1..Len(spans)
      BY <1>2, <1>3, <2>2
    <3>2. spans[m.ctx].trace \in 1..m.ctx
      BY <3>1 DEF FlowInv, SpansRooted
    <3> QED
      BY <1>2, <1>4, <2>2, <3>1, <3>2 DEF ReplayedFrom
  <2> QED
    BY <2>1, <2>2
<1>6. new \in Letter /\ new.step = m.step /\ new.ctx = NextSpan /\ new.from = ReplayedFrom(m)
  BY <1>2, <1>3, <1>4, <1>5 DEF Letter
<1>7. sent \in RedriveRecord /\ sent.batch = redrive.batch /\ AtRest \in RedriveRecord /\ AtRest.batch = {}
  BY <1>2, <1>3 DEF RedriveRecord, AtRest
<1> HIDE DEF new, sent
<1>8. q \in SUBSET Letter
  BY <1>2, <1>3, <1>6
<1>9. \A h \in 1..Hops : \A l \in queue'[h] : l \in queue[h] \/ (l = new /\ h = m.step)
  BY <1>1, <1>2, <1>3
<1> HIDE DEF q
<1>10. FlowTyped'
  BY <1>1, <1>2, <1>3, <1>4, <1>7, <1>8 DEF FlowInv, FlowTyped
<1>11. ASSUME NEW l, l = new PROVE Born(l)'
  <2>1. NextSpan # 0 /\ NextSpan \in 1..Len(spans')
    BY <1>2, <1>4
  <2> QED
    BY <1>4, <1>5, <1>6, <1>11, <2>1 DEF Born
<1>12. MessagesBorn'
  <2>1. \A l \in dead' \union redrive'.batch : l \in dead \union redrive.batch
    BY <1>1, <1>7
  <2>2. \A h \in 1..Hops : work'[h].at = "idle" \/ (work[h].at # "idle" /\ work'[h].msg = work[h].msg)
    BY <1>1
  <2>3. Len(spans') \in Nat
    BY <1>2, <1>4
  <2>4. ASSUME NEW h \in 1..Hops, NEW l \in queue'[h]
        PROVE  l \in queue[h] \/ (l.step = h /\ Born(l)')
    BY <1>6, <1>9, <1>11
  <2> QED
    BY <1>4, <2>1, <2>2, <2>3, <2>4, MessagesStay
<1>13. InItsSpan' /\ \A e \in envelopes, u \in Tasks : Untold(e, u)'
  <2>1. /\ Publishes(0)' /\ (work[0].at = "handling" /\ work[0].span = 0)'
        /\ \A e : Untold(e, 0) => Untold(e, 0)'
    <3>1. 0 \in Tasks /\ Len(spans') \in Nat /\ Longer
      BY <1>2, <1>4
    <3>2. work'[0] = work[0] /\ pub'[0] = pub[0] /\ current'[0] = current[0]
      BY <1>1
    <3> QED
      BY <3>1, <3>2, OthersStay
  <2> QED
    BY <1>1, <1>2, <1>4, <2>1, OneMoves DEF FlowInv, Reported
<1> QED
  BY <1>1, <1>2, <1>4, <1>10, <1>12, <1>13, TruthStays DEF FlowInv, Reported

(* The redriver's other steps.                                             *)
LEMMA RedriverStep ==
  ASSUME FlowInv, DeleteDead \/ RedriveFails \/ \E b \in SUBSET dead : ReceiveDead(b)
  PROVE  FlowInv'
<1>1. UNCHANGED <<spans, current, queue, work, pub, envelopes, published>>
  BY DEF DeleteDead, RedriveFails, ReceiveDead
<1>2. dead \subseteq Letter /\ redrive \in RedriveRecord /\ \A m \in dead \union redrive.batch : Kept(m)
  BY DEF FlowInv, FlowTyped, MessagesBorn
<1>3. /\ dead' \subseteq dead /\ redrive' \in RedriveRecord
      /\ redrive'.batch \subseteq dead \union redrive.batch
  <2>1. AtRest \in RedriveRecord /\ AtRest.batch = {}
    BY DEF AtRest, RedriveRecord
  <2>2. ASSUME NEW b \in SUBSET Letter
        PROVE  /\ [at |-> "next", batch |-> b, msg |-> NoMessage] \in RedriveRecord
               /\ [at |-> "next", batch |-> b, msg |-> NoMessage].batch = b
    BY DEF RedriveRecord
  <2>3. CASE DeleteDead
    <3>1. redrive.batch \ {redrive.msg} \in SUBSET Letter
      BY <1>2 DEF RedriveRecord
    <3> QED
      BY <1>2, <2>1, <2>2, <2>3, <3>1 DEF DeleteDead
  <2>4. CASE RedriveFails
    BY <2>1, <2>4 DEF RedriveFails
  <2>5. CASE \E b \in SUBSET dead : ReceiveDead(b)
    BY <1>2, <2>2, <2>5 DEF ReceiveDead
  <2> QED
    BY <2>3, <2>4, <2>5
<1>4. FlowTyped'
  BY <1>1, <1>2, <1>3 DEF FlowInv, FlowTyped
<1>5. MessagesBorn'
  <2>1. Longer /\ Len(spans') \in Nat
    BY <1>1 DEF Longer, FlowInv, FlowTyped
  <2>2. \A h \in 1..Hops : work'[h].at = "idle" \/ (work[h].at # "idle" /\ work'[h].msg = work[h].msg)
    BY <1>1
  <2>3. \A l \in dead' \union redrive'.batch : l \in dead \union redrive.batch
    BY <1>3
  <2> QED
    BY <1>1, <2>1, <2>2, <2>3, MessagesStay
<1>6. InItsSpan' /\ SpansRooted' /\ \A e \in envelopes, u \in Tasks : Untold(e, u)'
  BY <1>1 DEF FlowInv, InItsSpan, Handles, Publishes, SpansRooted, Reported, Untold
<1>7. EnvelopesTellTheTruth' /\ SpansKnown'
  BY <1>1, TruthStays DEF Longer, FlowInv, FlowTyped
<1> QED
  BY <1>1, <1>4, <1>5, <1>6, <1>7 DEF FlowInv, Reported

LEMMA FlowInvInit == FlowInit => FlowInv
<1> SUFFICES ASSUME FlowInit PROVE FlowInv
  OBVIOUS
<1>1. /\ spans = << >> /\ current = [t \in Tasks |-> 0] /\ queue = [h \in 1..Hops |-> {}]
      /\ dead = {} /\ pub = [t \in Tasks |-> NoPublish] /\ redrive = AtRest
      /\ envelopes = {} /\ published = 0
      /\ work = [t \in Tasks |-> IF t = 0 THEN [Idle EXCEPT !.at = "handling"] ELSE Idle]
  BY DEF FlowInit
<1>2. /\ Idle \in WorkRecord /\ Idle.at = "idle"
      /\ [Idle EXCEPT !.at = "handling"] \in WorkRecord
      /\ [Idle EXCEPT !.at = "handling"].at = "handling" /\ [Idle EXCEPT !.at = "handling"].span = 0
  BY DEF Idle, WorkRecord, Outcomes
<1>3. NoPublish \in PubRecord /\ NoPublish.at = "none"
  BY DEF NoPublish, PubRecord
<1>4. AtRest \in RedriveRecord /\ AtRest.batch = {}
  BY DEF AtRest, RedriveRecord
<1>5. Hops \in Nat /\ Tasks = 0..Hops /\ spans \in Seq(SpanRecord) /\ Len(spans) = 0
  BY <1>1, FlowAssumption DEF Tasks
<1>6. work \in [Tasks -> WorkRecord]
  BY <1>1, <1>2
<1>7. FlowTyped
  BY <1>1, <1>3, <1>4, <1>5, <1>6 DEF FlowTyped
<1>8. SpansRooted /\ MessagesBorn
  <2>1. SpansRooted
    BY <1>5 DEF SpansRooted
  <2>2. \A h \in 1..Hops : queue[h] = {} /\ work[h].at = "idle"
    BY <1>1, <1>2, <1>5
  <2>3. dead \union redrive.batch = {}
    BY <1>1, <1>4
  <2> QED
    BY <2>1, <2>2, <2>3 DEF MessagesBorn
<1>9. InItsSpan
  <2>1. /\ 0 \in Tasks /\ work[0].at = "handling" /\ work[0].span = 0
        /\ \A t \in Tasks : pub[t] = NoPublish /\ current[t] = 0
    <3>1. 0 \in Tasks
      BY <1>5
    <3>2. work[0] = [Idle EXCEPT !.at = "handling"]
      BY <1>1, <3>1
    <3>3. work[0].at = "handling" /\ work[0].span = 0
      BY <1>2, <3>2
    <3>4. \A t \in Tasks : pub[t] = NoPublish /\ current[t] = 0
      BY <1>1
    <3> QED
      BY <3>1, <3>3, <3>4
  <2>2. \A t \in Tasks \ {0} : work[t] = Idle
    BY <1>1
  <2> QED
    BY <1>2, <1>3, <1>5, <2>1, <2>2 DEF InItsSpan, Handles, Publishes
<1>10. Reported
  BY <1>1 DEF Reported, SpansKnown, EnvelopesTellTheTruth, OneEnvelope, LineageIsConsumerChain, ReplayLinked
<1> QED
  BY <1>7, <1>8, <1>9, <1>10 DEF FlowInv

LEMMA FlowStep ==
  ASSUME FlowInv, Transport # "redis", [FlowNext]_flowVars
  PROVE  FlowInv'
<1>1. CASE UNCHANGED flowVars
  <2>1. UNCHANGED <<spans, current, queue, dead, work, pub, redrive, envelopes, published>>
    BY <1>1 DEF flowVars
  <2>2. Longer /\ Len(spans') \in Nat
    BY <2>1 DEF Longer, FlowInv, FlowTyped
  <2>3. FlowTyped' /\ SpansRooted'
    BY <2>1 DEF FlowInv, FlowTyped, SpansRooted
  <2>4. MessagesBorn'
    <3>1. \A h \in 1..Hops : work'[h].at = "idle" \/ (work[h].at # "idle" /\ work'[h].msg = work[h].msg)
      BY <2>1
    <3> QED
      BY <2>1, <2>2, <3>1, MessagesStay
  <2>5. InItsSpan'
    BY <2>1 DEF FlowInv, InItsSpan, Handles, Publishes
  <2>6. Reported'
    BY <2>1, <2>2, TruthStays DEF FlowInv, Reported, Untold
  <2> QED
    BY <2>3, <2>4, <2>5, <2>6 DEF FlowInv
<1> HIDE DEF FlowInv
<1>2. CASE DeleteDead \/ RedriveFails \/ \E b \in SUBSET dead : ReceiveDead(b)
  BY <1>2, RedriverStep
<1>3. ASSUME NEW t \in Tasks, NEW taken \in BOOLEAN, NEW result \in {"none", "other", "cancelled"},
             Send(t, taken, result)
      PROVE  FlowInv'
  BY <1>3, SendStep
<1>4. ASSUME NEW t \in Tasks, NEW error \in Errors \union {"none"}, NEW emits \in BOOLEAN,
             Exit(t, error, emits)
      PROVE  FlowInv'
  BY <1>4, ExitStep
<1> QED
  BY <1>1, <1>2, <1>3, <1>4, ResendStep, OpenPublishStep, SettleStep, MarkStep, EnterStep DEF FlowNext

(* EnvelopesTellTheTruth (observer.py:134-245, sqs.py:27-36,               *)
(* otel.py:98-156): for a chain of any length, any limit on attributes, a  *)
(* sink that fails or not, and any number of retries and redrives; the     *)
(* publishes are observed or go to SQS, whose producers inject the         *)
(* context they were called in.                                            *)
THEOREM EnvelopesTellTheTruthHolds ==
  ASSUME Transport # "redis"
  PROVE  FlowSpec => []EnvelopesTellTheTruth
<1>1. FlowInv /\ [FlowNext]_flowVars => FlowInv'
  BY FlowStep
<1>2. FlowInv => EnvelopesTellTheTruth
  BY DEF FlowInv, Reported
<1> QED
  BY <1>1, <1>2, FlowInvInit, PTL DEF FlowSpec

(* RedriveLosesNothing (redriver.py:93-96): with any transport.            *)
THEOREM RedriveLosesNothingHolds == FlowSpec => RedriveLosesNothing
<1> DEFINE Known == redrive.at = "sent" => redrive.msg.id \in resent
<1>1. FlowInit => Known
  BY DEF FlowInit, AtRest
<1>2. ASSUME Known, [FlowNext]_flowVars
      PROVE  Known' /\ \A m \in dead \ dead' : m.id \in resent
  <2>1. ASSUME UNCHANGED <<dead, redrive, resent>>
        PROVE  Known' /\ \A m \in dead \ dead' : m.id \in resent
    BY <1>2, <2>1
  <2>2. CASE UNCHANGED flowVars
    BY <2>1, <2>2 DEF flowVars
  <2>3. CASE DeleteDead
    BY <1>2, <2>3 DEF DeleteDead, AtRest
  <2>4. CASE RedriveFails
    BY <2>4 DEF RedriveFails, AtRest
  <2>5. ASSUME NEW b \in SUBSET dead, ReceiveDead(b)
        PROVE  Known' /\ \A m \in dead \ dead' : m.id \in resent
    BY <2>5 DEF ReceiveDead
  <2>6. ASSUME NEW m \in redrive.batch, Resend(m)
        PROVE  Known' /\ \A l \in dead \ dead' : l.id \in resent
    BY <2>6 DEF Resend, AtRest
  <2>7. ASSUME NEW t \in Tasks, Settle(t)
        PROVE  Known' /\ \A m \in dead \ dead' : m.id \in resent
    BY <1>2, <2>7 DEF Settle
  <2>8. ASSUME NEW t \in Tasks, NEW taken \in BOOLEAN, NEW result \in {"none", "other", "cancelled"},
               Send(t, taken, result)
        PROVE  UNCHANGED <<dead, redrive, resent>>
    BY <2>8 DEF Send
  <2>9. ASSUME NEW t \in Tasks,
               \/ OpenPublish(t)
               \/ \E s \in Marks : Mark(t, s)
               \/ \E error \in Errors \union {"none"}, emits \in BOOLEAN : Exit(t, error, emits)
        PROVE  UNCHANGED <<dead, redrive, resent>>
    BY <2>9 DEF OpenPublish, Mark, Exit
  <2>10. ASSUME NEW t \in 1..Hops, NEW m \in queue[t], Enter(t, m)
         PROVE  UNCHANGED <<dead, redrive, resent>>
    BY <2>10 DEF Enter
  <2> HIDE DEF Known
  <2> QED
    BY <1>2, <2>1, <2>2, <2>3, <2>4, <2>5, <2>6, <2>7, <2>8, <2>9, <2>10 DEF FlowNext
<1>3. Known /\ [FlowNext]_flowVars => Known' /\ [\A m \in dead \ dead' : m.id \in resent]_flowVars
  BY <1>2
<1> HIDE DEF Known
<1> QED
  BY <1>1, <1>3, PTL DEF FlowSpec, RedriveLosesNothing
-------------------------------------------------------------------------------
(* The types of the flow, however handlers publish: whatever names a span   *)
(* names one that was started.                                             *)
Begun == 0..Len(spans)
Known == {m \in Message : m.ctx \in Begun}

SpansNow ==
  /\ spans \in Seq(SpanRecord) /\ Len(spans) \in 0..MaxSpans
  /\ \A s \in 1..Len(spans) : spans[s].trace \in 1..s /\ spans[s].parent \in 0..s-1

CountsNow == published \in 0..MaxMessages /\ resent \subseteq 1..MaxMessages

CurrentNow == current \in [Tasks -> Begun]

QueueNow ==
  /\ queue \in [1..Hops -> SUBSET Known]
  /\ \A h \in 1..Hops : \A m \in queue[h] : m.step = h

RedriveNow ==
  /\ dead \subseteq Known
  /\ redrive \in [at : {"rest", "next", "sent"}, batch : SUBSET Known, msg : Known \union {NoMessage}]

PubNow ==
  /\ pub \in [Tasks -> [at : {"none", "sending", "done"}, wire : Begun, saved : Begun]]
  /\ \A t \in Tasks : pub[t].at = "sending" => t < Hops

WorkNow ==
  /\ work \in [Tasks -> [at : {"idle", "handling", "settling"}, msg : Known \union {NoMessage},
                         span : Begun, saved : Begun, marked : Outcomes]]
  /\ work[0].at = "handling"
  /\ \A t \in Tasks \ {0} : work[t].at # "idle" => work[t].msg \in Known

FlowNow == SpansNow /\ CountsNow /\ CurrentNow /\ QueueNow /\ RedriveNow /\ PubNow /\ WorkNow

(* Spans are only added, so what named one of them still does.             *)
LEMMA StillBegun ==
  ASSUME SpansNow, SpansNow', Len(spans) <= Len(spans')
  PROVE  Begun \subseteq Begun' /\ Known \subseteq Known'
BY DEF SpansNow, Begun, Known

LEMMA StartNow ==
  ASSUME SpansNow, NEW kind \in {"producer", "consumer", "replay"},
         NEW parent \in Begun, NEW step \in Nat, Start(kind, parent, step)
  PROVE  /\ SpansNow' /\ Len(spans) <= Len(spans') /\ Len(spans') = NextSpan
         /\ NextSpan \in Begun' /\ NextSpan \in 1..MaxSpans
<1> DEFINE trace == IF parent = 0 THEN NextSpan ELSE spans[parent].trace
           s == [kind |-> kind, parent |-> parent, step |-> step, trace |-> trace]
<1>1. Len(spans) \in Nat /\ NextSpan = Len(spans) + 1 /\ NextSpan \in Nat /\ parent \in 0..Len(spans)
  BY DEF SpansNow, NextSpan, Begun
<1>2. trace \in 1..NextSpan
  BY <1>1 DEF SpansNow
<1>3. s \in SpanRecord
  BY <1>1, <1>2 DEF SpanRecord
<1>4. spans' = Append(spans, s) /\ Len(spans) < MaxSpans
  BY DEF Start
<1>5. s.parent = parent /\ s.trace = trace
  OBVIOUS
<1> HIDE DEF s, trace
<1>6. /\ spans' \in Seq(SpanRecord) /\ Len(spans') = Len(spans) + 1 /\ spans'[NextSpan] = s
      /\ \A i \in 1..Len(spans) : spans'[i] = spans[i]
  BY <1>1, <1>3, <1>4 DEF SpansNow
<1>7. SpansNow'
  BY <1>1, <1>2, <1>4, <1>5, <1>6, FlowAssumption DEF SpansNow
<1> QED
  BY <1>1, <1>4, <1>6, <1>7, FlowAssumption DEF Begun

(* What a step does not touch keeps its type while spans are added.        *)
LEMMA UntouchedNow ==
  ASSUME FlowNow, SpansNow', Len(spans) <= Len(spans')
  PROVE  /\ UNCHANGED current => CurrentNow'
         /\ UNCHANGED queue => QueueNow'
         /\ UNCHANGED <<dead, redrive>> => RedriveNow'
         /\ UNCHANGED pub => PubNow'
         /\ UNCHANGED work => WorkNow'
<1>1. Begun \subseteq Begun' /\ Known \subseteq Known'
  BY StillBegun DEF FlowNow
<1>2. UNCHANGED current => CurrentNow'
  BY <1>1 DEF FlowNow, CurrentNow
<1>3. UNCHANGED queue => QueueNow'
  BY <1>1 DEF FlowNow, QueueNow
<1>4. UNCHANGED <<dead, redrive>> => RedriveNow'
  BY <1>1 DEF FlowNow, RedriveNow
<1>5. UNCHANGED pub => PubNow'
  BY <1>1 DEF FlowNow, PubNow
<1>6. UNCHANGED work => WorkNow'
  BY <1>1 DEF FlowNow, WorkNow
<1> QED
  BY <1>2, <1>3, <1>4, <1>5, <1>6

LEMMA NoMoreSpans == SpansNow /\ UNCHANGED spans => SpansNow' /\ Len(spans) <= Len(spans')
                                                    /\ Begun' = Begun /\ Known' = Known
BY DEF SpansNow, Begun, Known

LEMMA FlowNowInit == FlowInit => FlowNow
<1> SUFFICES ASSUME FlowInit
             PROVE  FlowNow
  OBVIOUS
<1>1. spans = << >> /\ Len(spans) = 0 /\ Begun = {0}
  BY DEF FlowInit, Begun
<1>2. SpansNow
  BY <1>1, FlowAssumption DEF SpansNow
<1>3. CountsNow /\ CurrentNow /\ QueueNow
  BY <1>1, FlowAssumption DEF FlowInit, CountsNow, CurrentNow, QueueNow
<1>4. RedriveNow
  BY DEF FlowInit, RedriveNow, AtRest
<1>5. PubNow
  BY <1>1 DEF FlowInit, PubNow, NoPublish
<1>6. WorkNow
  <2>1. 0 \in Tasks
    BY FlowAssumption DEF Tasks
  <2> QED
    BY <1>1, <2>1 DEF FlowInit, WorkNow, Idle, Outcomes
<1> QED
  BY <1>2, <1>3, <1>4, <1>5, <1>6 DEF FlowNow

LEMMA OpenPublishNow ==
  ASSUME FlowNow, NEW t \in Tasks, OpenPublish(t)
  PROVE  FlowNow'
<1>1. /\ Start("producer", current[t], t + 1) /\ current' = [current EXCEPT ![t] = NextSpan]
      /\ t < Hops
      /\ pub' = [pub EXCEPT ![t] = [at |-> "sending", wire |-> Wire(t), saved |-> current[t]]]
      /\ UNCHANGED <<queue, dead, work, redrive, published, resent>>
  BY DEF OpenPublish, SetCurrent
<1>2. current[t] \in Begun /\ t + 1 \in Nat
  BY FlowAssumption DEF FlowNow, CurrentNow, Tasks
<1>3. SpansNow' /\ Len(spans) <= Len(spans') /\ NextSpan \in Begun'
  BY <1>1, <1>2, StartNow DEF FlowNow
<1>4. Begun \subseteq Begun'
  BY <1>3, StillBegun DEF FlowNow
<1>5. CurrentNow'
  BY <1>1, <1>3, <1>4 DEF FlowNow, CurrentNow
<1>6. PubNow'
  <2>1. Wire(t) \in Begun' /\ current[t] \in Begun'
    BY <1>2, <1>3, <1>4 DEF Wire
  <2> QED
    BY <1>1, <1>4, <2>1 DEF FlowNow, PubNow
<1> QED
  BY <1>1, <1>3, <1>5, <1>6, UntouchedNow DEF FlowNow, CountsNow

LEMMA SendNow ==
  ASSUME FlowNow, NEW t \in Tasks, NEW taken \in BOOLEAN, NEW result \in {"none", "other", "cancelled"},
         Send(t, taken, result)
  PROVE  FlowNow'
<1>1. /\ pub[t].at = "sending" /\ UNCHANGED <<spans, dead, work, redrive, resent>>
      /\ current' = [current EXCEPT ![t] = pub[t].saved]
      /\ pub' = [pub EXCEPT ![t] = [NoPublish EXCEPT !.at = "done"]]
      /\ \/ published < MaxMessages /\ published' = published + 1
            /\ queue' = [queue EXCEPT ![t + 1] = @ \union
                            {Outgoing(t, published', Carried(pub[t].wire, Headers))}]
         \/ UNCHANGED <<published, queue>>
  BY DEF Send, SetCurrent
<1>2. SpansNow' /\ Len(spans) <= Len(spans') /\ Begun' = Begun /\ Known' = Known /\ 0 \in Begun
  <2>1. 0 \in Begun
    BY DEF FlowNow, SpansNow, Begun
  <2> QED
    BY <1>1, <2>1, NoMoreSpans DEF FlowNow
<1>3. pub[t].saved \in Begun /\ pub[t].wire \in Begun /\ t < Hops
  BY <1>1 DEF FlowNow, PubNow
<1>4. CurrentNow' /\ PubNow'
  <2> DEFINE over == [NoPublish EXCEPT !.at = "done"]
  <2>1. over \in [at : {"none", "sending", "done"}, wire : Begun, saved : Begun] /\ over.at = "done"
    BY <1>2 DEF NoPublish
  <2> HIDE DEF over
  <2>2. pub' = [pub EXCEPT ![t] = over]
    BY <1>1 DEF over
  <2>3. CurrentNow'
    BY <1>1, <1>2, <1>3 DEF FlowNow, CurrentNow
  <2>4. pub \in [Tasks -> [at : {"none", "sending", "done"}, wire : Begun, saved : Begun]]
    BY DEF FlowNow, PubNow
  <2>5. \A u \in Tasks : pub[u].at = "sending" => u < Hops
    BY DEF FlowNow, PubNow
  <2>6. pub' \in [Tasks -> [at : {"none", "sending", "done"}, wire : Begun, saved : Begun]]
    BY <2>1, <2>2, <2>4
  <2>7. \A u \in Tasks : pub'[u].at = "sending" => u < Hops
    BY <2>1, <2>2, <2>4, <2>5
  <2> QED
    BY <1>2, <2>3, <2>6, <2>7 DEF PubNow
<1>5. CountsNow' /\ QueueNow'
  <2>1. CASE UNCHANGED <<published, queue>>
    BY <1>1, <1>2, <2>1, UntouchedNow DEF FlowNow, CountsNow
  <2>2. CASE /\ published < MaxMessages /\ published' = published + 1
             /\ queue' = [queue EXCEPT ![t + 1] = @ \union
                             {Outgoing(t, published', Carried(pub[t].wire, Headers))}]
    <3>1. t + 1 \in 1..Hops /\ published' \in 1..MaxMessages
      BY <1>3, <2>2, FlowAssumption DEF Tasks, FlowNow, CountsNow
    <3>2. Carried(pub[t].wire, Headers) \in Begun /\ Begun \subseteq 0..MaxSpans
      BY <1>2, <1>3, FlowAssumption DEF Carried, FlowNow, SpansNow, Begun
    <3>3. PICK m : m = Outgoing(t, published', Carried(pub[t].wire, Headers))
      OBVIOUS
    <3>4. m \in Known /\ m.step = t + 1
      <4>1. 0 \in 0..MaxSpans
        BY FlowAssumption
      <4>2. m = [id |-> published', step |-> t + 1, ctx |-> Carried(pub[t].wire, Headers),
                 keyed |-> TRUE, from |-> 0, wraps |-> 0]
        BY <3>3 DEF Outgoing
      <4>3. m \in Message /\ m.step = t + 1 /\ m.ctx = Carried(pub[t].wire, Headers)
        BY <3>1, <3>2, <4>1, <4>2 DEF Message
      <4> QED
        BY <3>2, <4>3 DEF Known
    <3>5. CountsNow'
      BY <1>1, <3>1 DEF FlowNow, CountsNow
    <3>6. QueueNow'
      BY <1>2, <2>2, <3>1, <3>3, <3>4 DEF FlowNow, QueueNow
    <3> QED
      BY <3>5, <3>6
  <2> QED
    BY <1>1, <2>1, <2>2
<1> QED
  BY <1>1, <1>2, <1>4, <1>5, UntouchedNow DEF FlowNow

LEMMA EnterNow ==
  ASSUME FlowNow, NEW t \in 1..Hops, NEW m \in queue[t], Enter(t, m)
  PROVE  FlowNow'
<1> DEFINE begun == [at |-> "handling", msg |-> m, span |-> NextSpan, saved |-> current[t],
                     marked |-> "none"]
<1>1. /\ Start("consumer", m.ctx, t) /\ current' = [current EXCEPT ![t] = NextSpan]
      /\ work' = [work EXCEPT ![t] = begun] /\ pub' = [pub EXCEPT ![t] = NoPublish]
      /\ UNCHANGED <<queue, dead, redrive, published, resent>>
  BY DEF Enter, SetCurrent
<1>2. m \in Known /\ m.ctx \in Begun /\ t \in Tasks /\ t # 0 /\ t \in Nat /\ current[t] \in Begun
  BY FlowAssumption DEF FlowNow, QueueNow, CurrentNow, Known, Tasks
<1>3. SpansNow' /\ Len(spans) <= Len(spans') /\ NextSpan \in Begun'
  BY <1>1, <1>2, StartNow DEF FlowNow
<1>4. Begun \subseteq Begun' /\ Known \subseteq Known' /\ 0 \in Begun'
  BY <1>3, StillBegun DEF FlowNow, SpansNow, Begun
<1>5. CurrentNow'
  BY <1>1, <1>3, <1>4 DEF FlowNow, CurrentNow
<1>6. PubNow'
  BY <1>1, <1>4 DEF FlowNow, PubNow, NoPublish
<1>7. WorkNow'
  <2>1. begun \in [at : {"idle", "handling", "settling"}, msg : (Known \union {NoMessage})',
                   span : Begun', saved : Begun', marked : Outcomes]
        /\ begun.msg \in Known'
    BY <1>2, <1>3, <1>4 DEF Outcomes
  <2> HIDE DEF begun
  <2> QED
    BY <1>1, <1>2, <1>4, <2>1 DEF FlowNow, WorkNow
<1> QED
  BY <1>1, <1>3, <1>5, <1>6, <1>7, UntouchedNow DEF FlowNow, CountsNow

(* A step that changes only what a task is doing.                          *)
LEMMA WorkedNow ==
  ASSUME FlowNow, NEW t \in Tasks, t # 0, NEW w, work' = [work EXCEPT ![t] = w],
         w \in [at : {"idle", "handling", "settling"}, msg : Known \union {NoMessage},
                span : Begun, saved : Begun, marked : Outcomes],
         w.at # "idle" => w.msg \in Known,
         UNCHANGED spans
  PROVE  WorkNow' /\ SpansNow' /\ Len(spans) <= Len(spans') /\ Begun' = Begun /\ Known' = Known
<1>1. SpansNow' /\ Len(spans) <= Len(spans') /\ Begun' = Begun /\ Known' = Known
  BY NoMoreSpans DEF FlowNow
<1> QED
  BY <1>1 DEF FlowNow, WorkNow

LEMMA MarkNow ==
  ASSUME FlowNow, NEW t \in Tasks, NEW s \in Marks, Mark(t, s)
  PROVE  FlowNow'
<1> DEFINE w == [work[t] EXCEPT !.marked = s]
<1>1. /\ t # 0 /\ work' = [work EXCEPT ![t] = w] /\ work[t].at = "handling"
      /\ UNCHANGED <<spans, current, queue, dead, pub, redrive, published, resent>>
  BY DEF Mark
<1>2. /\ w \in [at : {"idle", "handling", "settling"}, msg : Known \union {NoMessage},
                span : Begun, saved : Begun, marked : Outcomes]
      /\ w.at # "idle" => w.msg \in Known
  BY <1>1, FlowAssumption DEF FlowNow, WorkNow, Outcomes
<1> HIDE DEF w
<1>3. WorkNow' /\ SpansNow' /\ Len(spans) <= Len(spans')
  BY <1>1, <1>2, WorkedNow
<1> QED
  BY <1>1, <1>3, UntouchedNow DEF FlowNow, CountsNow

LEMMA ExitNow ==
  ASSUME FlowNow, NEW t \in Tasks, NEW error \in Errors \union {"none"}, NEW emits \in BOOLEAN,
         Exit(t, error, emits)
  PROVE  FlowNow'
<1> DEFINE status == IF emits THEN Resolution(t, error) ELSE "none"
           w == [work[t] EXCEPT !.at = "settling", !.marked = status]
<1>1. /\ t # 0 /\ work[t].at = "handling" /\ current' = [current EXCEPT ![t] = work[t].saved]
      /\ work' = [work EXCEPT ![t].at = "settling", ![t].marked = status]
      /\ UNCHANGED <<spans, queue, dead, pub, redrive, published, resent>>
  BY DEF Exit, SetCurrent
<1>6. work' = [work EXCEPT ![t] = w]
  <2>1. DOMAIN work = Tasks
    BY DEF FlowNow, WorkNow
  <2> HIDE DEF status
  <2> QED
    BY <1>1, <2>1
<1>2. status \in Outcomes
  <2>1. work[t].marked \in Outcomes
    BY DEF FlowNow, WorkNow
  <2>2. \A e : Classify(e) \in Outcomes
    BY DEF Classify, Outcomes
  <2>3. "none" \in Outcomes /\ "success" \in Outcomes
    BY DEF Outcomes
  <2> QED
    BY <2>1, <2>2, <2>3 DEF Resolution
<1>3. /\ w \in [at : {"idle", "handling", "settling"}, msg : Known \union {NoMessage},
                span : Begun, saved : Begun, marked : Outcomes]
      /\ w.at # "idle" => w.msg \in Known
  <2> HIDE DEF status
  <2> QED
    BY <1>1, <1>2 DEF FlowNow, WorkNow
<1> HIDE DEF w, status
<1>4. WorkNow' /\ SpansNow' /\ Len(spans) <= Len(spans') /\ Begun' = Begun
  BY <1>1, <1>3, <1>6, WorkedNow
<1>5. CurrentNow'
  BY <1>1, <1>4 DEF FlowNow, CurrentNow, WorkNow
<1> QED
  BY <1>1, <1>4, <1>5, UntouchedNow DEF FlowNow, CountsNow

LEMMA BuriedIsKnown ==
  ASSUME FlowNow, NEW m \in Known, published < MaxMessages
  PROVE  Buried(m) \in Known
<1> DEFINE own == IF m.from # 0 \/ ~ m.keyed THEN 0 ELSE Headers
           ctx == Carried(m.ctx, SystemAttributes + own)
           keyed == m.keyed /\ SystemAttributes + own <= MaxAttributes
<1>1. Buried(m) = [id |-> published + 1, step |-> m.step, ctx |-> ctx, keyed |-> keyed,
                   from |-> m.from, wraps |-> m.wraps + 1]
  BY DEF Buried
<1>2. m \in Message /\ m.ctx \in Begun /\ 0 \in Begun /\ Begun \subseteq 0..MaxSpans
  BY FlowAssumption DEF Known, FlowNow, SpansNow, Begun
<1>3. ctx \in Begun
  BY <1>2 DEF Carried
<1>4. keyed \in BOOLEAN
  OBVIOUS
<1>5. published + 1 \in 1..MaxMessages
  BY FlowAssumption DEF FlowNow, CountsNow
<1> HIDE DEF own, ctx, keyed
<1>6. Buried(m) \in Message /\ Buried(m).ctx = ctx
  BY <1>1, <1>2, <1>3, <1>4, <1>5 DEF Message
<1> QED
  BY <1>3, <1>6 DEF Known

LEMMA SettleNow ==
  ASSUME FlowNow, NEW t \in Tasks, Settle(t)
  PROVE  FlowNow'
<1>1. /\ work[t].at = "settling" /\ work' = [work EXCEPT ![t] = Idle]
      /\ UNCHANGED <<spans, current, pub, redrive, resent>>
  BY DEF Settle
<1>2. t # 0 /\ work[t].msg \in Known
  BY <1>1 DEF FlowNow, WorkNow
<1>3. 0 \in Begun
  BY DEF FlowNow, SpansNow, Begun
<1>4. WorkNow' /\ SpansNow' /\ Len(spans) <= Len(spans') /\ Known' = Known
  <2>1. /\ Idle \in [at : {"idle", "handling", "settling"}, msg : Known \union {NoMessage},
                     span : Begun, saved : Begun, marked : Outcomes]
        /\ Idle.at = "idle"
    BY <1>3 DEF Idle, Outcomes
  <2> QED
    BY <1>1, <1>2, <2>1, WorkedNow
<1>5. QueueNow'
  <2>1. queue' = queue \/ queue' = [queue EXCEPT ![t] = @ \ {work[t].msg}]
    BY DEF Settle
  <2> QED
    BY <1>4, <2>1 DEF FlowNow, QueueNow
<1>6. CountsNow' /\ RedriveNow'
  <2>1. \/ UNCHANGED <<dead, published>>
        \/ /\ published < MaxMessages /\ published' = published + 1
           /\ dead' = dead \union {Buried(work[t].msg)}
    BY DEF Settle
  <2>2. published < MaxMessages => Buried(work[t].msg) \in Known
    BY <1>2, BuriedIsKnown
  <2>3. CountsNow'
    BY <1>1, <2>1, FlowAssumption DEF FlowNow, CountsNow
  <2>4. dead' \subseteq Known
    BY <2>1, <2>2 DEF FlowNow, RedriveNow
  <2> QED
    BY <1>1, <1>4, <2>3, <2>4 DEF FlowNow, RedriveNow
<1> QED
  BY <1>1, <1>4, <1>5, <1>6, UntouchedNow DEF FlowNow

(* A step of the redriver that sends nothing.                              *)
LEMMA RedrivenNow ==
  ASSUME FlowNow, UNCHANGED <<spans, current, queue, work, pub, published, resent>>,
         dead' \subseteq dead,
         redrive' \in [at : {"rest", "next", "sent"}, batch : SUBSET Known, msg : Known \union {NoMessage}]
  PROVE  FlowNow'
<1>1. SpansNow' /\ Len(spans) <= Len(spans') /\ Known' = Known
  BY NoMoreSpans DEF FlowNow
<1>2. RedriveNow'
  BY <1>1 DEF FlowNow, RedriveNow
<1> QED
  BY <1>1, <1>2, UntouchedNow DEF FlowNow, CountsNow

LEMMA RedriverNow ==
  ASSUME FlowNow, DeleteDead \/ RedriveFails \/ \E letters \in SUBSET dead : ReceiveDead(letters)
  PROVE  FlowNow'
<1> DEFINE R == [at : {"rest", "next", "sent"}, batch : SUBSET Known, msg : Known \union {NoMessage}]
<1>1. dead \subseteq Known /\ redrive \in R /\ AtRest \in R
  BY DEF FlowNow, RedriveNow, AtRest
<1>2. CASE DeleteDead
  <2>1. /\ dead' = dead \ {redrive.msg} /\ UNCHANGED <<spans, current, queue, work, pub, published, resent>>
        /\ \/ redrive' = AtRest
           \/ redrive' = [at |-> "next", batch |-> redrive.batch \ {redrive.msg}, msg |-> NoMessage]
    BY <1>2 DEF DeleteDead
  <2>2. redrive' \in R
    BY <1>1, <2>1
  <2> QED
    BY <2>1, <2>2, RedrivenNow
<1>3. CASE RedriveFails
  BY <1>1, <1>3, RedrivenNow DEF RedriveFails
<1>4. ASSUME NEW letters \in SUBSET dead, ReceiveDead(letters)
      PROVE  FlowNow'
  <2>1. redrive' \in R
    BY <1>1, <1>4 DEF ReceiveDead
  <2> QED
    BY <1>4, <2>1, RedrivenNow DEF ReceiveDead
<1> QED
  BY <1>2, <1>3, <1>4

LEMMA ResendNow ==
  ASSUME FlowNow, NEW m \in redrive.batch, Resend(m)
  PROVE  FlowNow'
<1> DEFINE copy == [id |-> published', step |-> m.step, ctx |-> NextSpan, keyed |-> FALSE,
                    from |-> ReplayedFrom(m), wraps |-> m.wraps]
<1>1. m \in Known /\ m \in Message /\ m.ctx \in Begun /\ m.step \in 1..Hops /\ m.id \in 1..MaxMessages
  BY DEF FlowNow, RedriveNow, Known, Message
<1>2. /\ Start("replay", 0, m.step) /\ published < MaxMessages /\ published' = published + 1
      /\ resent' = resent \union {m.id}
      /\ queue' = [queue EXCEPT ![m.step] = @ \union {copy}]
      /\ redrive' \in {[at |-> "sent", batch |-> redrive.batch, msg |-> m], AtRest}
      /\ UNCHANGED <<current, dead, work, pub>>
  BY DEF Resend, ReplayParent
<1>3. 0 \in Begun /\ m.step \in Nat
  BY <1>1, FlowAssumption DEF FlowNow, SpansNow, Begun
<1>4. SpansNow' /\ Len(spans) <= Len(spans') /\ NextSpan \in Begun' /\ NextSpan \in 1..MaxSpans
  BY <1>2, <1>3, StartNow DEF FlowNow
<1>5. Known \subseteq Known'
  BY <1>4, StillBegun DEF FlowNow
<1>6. CountsNow' /\ published' \in 1..MaxMessages
  <2>1. published < MaxMessages /\ published' = published + 1 /\ resent' = resent \union {m.id}
    BY <1>2
  <2>2. published' \in 1..MaxMessages
    BY <2>1, FlowAssumption DEF FlowNow, CountsNow
  <2>3. published' \in 0..MaxMessages
    BY <2>2, FlowAssumption
  <2>4. resent' \subseteq 1..MaxMessages
    <3>1. m.id \in 1..MaxMessages /\ resent \subseteq 1..MaxMessages
      BY <1>1 DEF FlowNow, CountsNow
    <3> HIDE DEF copy
    <3> QED
      BY <2>1, <3>1, Zenon
  <2> QED
    BY <2>2, <2>3, <2>4 DEF CountsNow
<1>7. copy \in Known' /\ copy.step = m.step
  <2>1. ReplayedFrom(m) \in 0..MaxSpans
    <3>1. m.ctx # 0 => m.ctx \in 1..Len(spans) /\ spans[m.ctx].trace \in 1..m.ctx
      BY <1>1 DEF Begun, FlowNow, SpansNow
    <3>2. Len(spans) \in 0..MaxSpans
      BY DEF FlowNow, SpansNow
    <3> QED
      BY <3>1, <3>2, FlowAssumption DEF ReplayedFrom
  <2>2. copy \in Message /\ copy.ctx = NextSpan /\ copy.step = m.step
    BY <1>1, <1>4, <1>6, <2>1 DEF Message
  <2> HIDE DEF copy
  <2> QED
    BY <1>4, <2>2 DEF Known
<1> HIDE DEF copy
<1>8. QueueNow'
  BY <1>1, <1>2, <1>5, <1>7 DEF FlowNow, QueueNow
<1>9. RedriveNow'
  BY <1>1, <1>2, <1>5 DEF FlowNow, RedriveNow, AtRest
<1> QED
  BY <1>2, <1>4, <1>6, <1>8, <1>9, UntouchedNow DEF FlowNow

LEMMA FlowNowStep == FlowNow /\ [FlowNext]_flowVars => FlowNow'
<1> SUFFICES ASSUME FlowNow, [FlowNext]_flowVars
             PROVE  FlowNow'
  OBVIOUS
<1>1. CASE UNCHANGED flowVars
  <2>1. /\ UNCHANGED spans /\ UNCHANGED current /\ UNCHANGED queue /\ UNCHANGED <<dead, redrive>>
        /\ UNCHANGED pub /\ UNCHANGED work /\ UNCHANGED <<published, resent>>
    BY <1>1 DEF flowVars
  <2>2. SpansNow' /\ Len(spans) <= Len(spans')
    BY <2>1, NoMoreSpans DEF FlowNow
  <2>3. CountsNow'
    BY <2>1 DEF FlowNow, CountsNow
  <2>4. CurrentNow' /\ QueueNow' /\ RedriveNow' /\ PubNow' /\ WorkNow'
    BY <2>1, <2>2, UntouchedNow
  <2> QED
    BY <2>2, <2>3, <2>4 DEF FlowNow
<1>2. ASSUME NEW t \in Tasks, OpenPublish(t) \/ Settle(t)
      PROVE  FlowNow'
  BY <1>2, OpenPublishNow, SettleNow
<1>3. ASSUME NEW t \in Tasks, NEW taken \in BOOLEAN, NEW result \in {"none", "other", "cancelled"},
             Send(t, taken, result)
      PROVE  FlowNow'
  BY <1>3, SendNow
<1>4. ASSUME NEW t \in Tasks, NEW s \in Marks, Mark(t, s)
      PROVE  FlowNow'
  BY <1>4, MarkNow
<1>5. ASSUME NEW t \in Tasks, NEW error \in Errors \union {"none"}, NEW emits \in BOOLEAN,
             Exit(t, error, emits)
      PROVE  FlowNow'
  BY <1>5, ExitNow
<1>6. ASSUME NEW t \in 1..Hops, NEW m \in queue[t], Enter(t, m)
      PROVE  FlowNow'
  BY <1>6, EnterNow
<1>7. ASSUME NEW m \in redrive.batch, Resend(m)
      PROVE  FlowNow'
  BY <1>7, ResendNow
<1> QED
  BY <1>1, <1>2, <1>3, <1>4, <1>5, <1>6, <1>7, RedriverNow DEF FlowNext

(* Spans, messages and tasks are what they are said to be, by whatever     *)
(* transport handlers publish (observer.py:134-245, sqs.py:27-36,          *)
(* redriver.py:60-100).                                                    *)
THEOREM FlowTypeCorrect == FlowSpec => []FlowTypeOK
<1>1. FlowNow => FlowTypeOK
  <2> SUFFICES ASSUME FlowNow
               PROVE  FlowTypeOK
    OBVIOUS
  <2>1. Len(spans) <= MaxSpans /\ DOMAIN spans = 1..Len(spans)
    BY FlowAssumption DEF FlowNow, SpansNow
  <2>2. Known \subseteq Message
    BY DEF Known
  <2>3. current \in [Tasks -> 0..Len(spans)]
    BY DEF FlowNow, CurrentNow, Begun
  <2> QED
    BY <2>1, <2>2, <2>3
       DEF FlowNow, SpansNow, CountsNow, QueueNow, RedriveNow, PubNow, WorkNow, FlowTypeOK
<1> QED
  BY <1>1, FlowNowInit, FlowNowStep, PTL DEF FlowSpec
-------------------------------------------------------------------------------
(* The run of all benches is a behaviour of each part (control.py,         *)
(* kafka_observer.py, observability/).                                     *)
LEMMA BenchesArePlayed == MCSpec => GateSpec /\ KafkaSpec /\ FlowSpec
<1>1. MCInit => GateInit /\ KafkaInit /\ FlowInit
  BY DEF MCInit
<1>2. [MCNext]_benchVars => [GateNext]_gateVars /\ [KafkaNext]_kafkaVars /\ [FlowNext]_flowVars
  BY DEF MCNext, benchVars
<1> QED
  BY <1>1, <1>2, PTL DEF MCSpec, GateSpec, KafkaSpec, FlowSpec

(* Gate, Kafka loop and flow keep their types in the run of all benches    *)
(* (control.py, kafka_observer.py, observability/).                        *)
THEOREM EventsTypeCorrect == MCSpec => []EventsTypeOK
<1>1. EventsTypeOK <=> GateTypeOK /\ KafkaTypeOK /\ FlowTypeOK
  BY DEF EventsTypeOK
<1> QED
  BY <1>1, BenchesArePlayed, GateTypeCorrect, KafkaTypeCorrect, FlowTypeCorrect, PTL
===============================================================================
