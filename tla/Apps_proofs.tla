------------------------------ MODULE Apps_proofs ------------------------------
(***************************************************************************)
(* Proofs about what an application is put together from, for any          *)
(* configuration, clients, keys, TTLs, processes, middlewares and faults:  *)
(* the event bus, the in-memory store, the periodic task, a subscriber     *)
(* with its middleware and the example services.                           *)
(***************************************************************************)
EXTENDS MCApps, FiniteSetTheorems, SequenceTheorems, TLAPS

-------------------------------------------------------------------------------
(***************************************************************************)
(* Producers are closed after the last consumer loop has ended, for any    *)
(* configuration of consumers and producers, any number of starts and      *)
(* stops, and whatever breaks on the way; and the caller of publish() is   *)
(* told what was sent, for any producers and errors.                       *)
(***************************************************************************)

(* What the proof needs of the types. *)
BusTyped ==
  /\ bus = [at |-> bus.at, consumers |-> bus.consumers, producers |-> bus.producers, used |-> bus.used]
  /\ bus.consumers \in Seq(BusNames) /\ bus.producers \in Seq(BusNames)
  /\ lifespan \in [at : {"down", "up", "stopping", "waiting", "closing", "broken"},
                   todo : Seq(BusNames)]
  /\ DOMAIN loopTask = ConsumerNames
  /\ running \subseteq ConsumerNames /\ running \subseteq ToSet(bus.consumers)

(* The consumers stop() has still to come to hold all that runs.           *)
StillToStop ==
  /\ lifespan.at \in {"stopping", "waiting"} => running \subseteq ToSet(lifespan.todo)
  /\ lifespan.at = "waiting" => lifespan.todo # << >> /\ Head(lifespan.todo) \notin running
  /\ lifespan.at = "closing" => lifespan.todo # << >> /\ running = {}

(* A consumer knows the loop that is its own: no loop is there that nobody *)
(* would cancel and wait for.                                              *)
LoopKnown ==
  \A l \in loops : \E c \in ConsumerNames :
    /\ l = <<c, loopTask[c]>>
    /\ \/ c \in running
       \/ lifespan.at = "waiting" /\ c = Head(lifespan.todo)

BusInv == BusTyped /\ StillToStop /\ LoopKnown

(* The first of a sequence, or one of the rest.                            *)
LEMMA HeadOrTail ==
  ASSUME NEW S, NEW s \in Seq(S), s # << >>
  PROVE  /\ Head(s) \in S /\ Tail(s) \in Seq(S)
         /\ Len(s) # 1 => Tail(s) # << >>
         /\ \A x \in ToSet(s) : x = Head(s) \/ x \in ToSet(Tail(s))
<1>1. Head(s) \in S /\ Tail(s) \in Seq(S)
  OBVIOUS
<1>2. ASSUME NEW x \in ToSet(s), x # Head(s)
      PROVE  x \in ToSet(Tail(s))
  <2>1. PICK i \in 1..Len(s) : x = s[i]
    BY <1>2 DEF ToSet
  <2>2. i # 1
    BY <1>2, <2>1
  <2>3. i - 1 \in 1..Len(Tail(s)) /\ Tail(s)[i - 1] = s[i]
    BY <2>1, <2>2
  <2>4. \A j \in 1..Len(Tail(s)) : Tail(s)[j] \in ToSet(Tail(s))
    <3>1. DOMAIN Tail(s) = 1..Len(Tail(s))
      BY <1>1
    <3> QED
      BY <3>1 DEF ToSet
  <2> QED
    BY <2>1, <2>3, <2>4
<1>3. Len(s) # 1 => Tail(s) # << >>
  <2> DEFINE n == Len(Tail(s))
  <2>1. n = Len(s) - 1 /\ Len(s) \in Nat
    OBVIOUS
  <2>2. Tail(s) = << >> => n = Len(<< >>)
    OBVIOUS
  <2>3. Len(<< >>) = 0
    OBVIOUS
  <2> HIDE DEF n
  <2>4. Tail(s) = << >> => n = 0
    BY <2>2, <2>3, Zenon
  <2>5. n = 0 => Len(s) = 1
    BY <2>1
  <2> QED
    BY <2>4, <2>5
<1> QED
  BY <1>1, <1>2, <1>3

LEMMA EmptyHasNone == ToSet(<< >>) = {}
  BY DEF ToSet

LEMMA OrderingsAreSequences ==
  ASSUME NEW names \in SUBSET BusNames
  PROVE  Orderings(names) \subseteq Seq(BusNames)
<1> SUFFICES ASSUME NEW order \in Orderings(names)
             PROVE  order \in Seq(BusNames)
  OBVIOUS
<1>1. PICK s \in SUBSET names : order \in SetToSeqs(s)
  BY DEF Orderings
<1>2. Cardinality(s) \in Nat
  BY BusAssumption, FS_Subset, FS_CardinalityType
<1>3. order \in [1..Cardinality(s) -> s]
  BY <1>1 DEF SetToSeqs
<1> QED
  BY <1>2, <1>3

LEMMA BusInvInit == BusInit => BusInv
<1> SUFFICES ASSUME BusInit
             PROVE  BusInv
  OBVIOUS
<1>1. bus.consumers \in Seq(BusNames) /\ bus.producers \in Seq(BusNames)
  BY OrderingsAreSequences DEF BusInit, ConsumerNames, ProducerNames
<1> QED
  BY <1>1 DEF BusInit, BusInv, BusTyped, StillToStop, LoopKnown

LEMMA StartStep == BusInv /\ StartBus => BusInv'
<1> SUFFICES ASSUME BusInv, StartBus
             PROVE  BusInv'
  OBVIOUS
<1> DEFINE next(c) == Cardinality({l \in started : l[1] = c}) + 1
           new == {<<c, next(c)>> : c \in Idlers}
<1>1. /\ loopTask' = [c \in ConsumerNames |-> IF c \in Idlers THEN next(c) ELSE loopTask[c]]
      /\ loops' = loops \union new /\ running' = running \union Idlers
      /\ lifespan' = [lifespan EXCEPT !.at = "up"] /\ UNCHANGED bus
      /\ lifespan.at \in {"down", "broken"}
  BY DEF StartBus
<1>2. Idlers \subseteq ToSet(bus.consumers) /\ Idlers \subseteq ConsumerNames /\ Idlers \intersect running = {}
  <2>1. ToSet(bus.consumers) \subseteq BusNames
    BY DEF ToSet, BusInv, BusTyped
  <2> QED
    BY <2>1 DEF Idlers, ConsumerNames
<1> HIDE DEF next
<1>3. BusTyped'
  BY <1>1, <1>2 DEF BusInv, BusTyped
<1>4. StillToStop'
  BY <1>1 DEF BusInv, BusTyped, StillToStop
<1>5. LoopKnown'
  <2> SUFFICES ASSUME NEW l \in loops'
               PROVE  \E c \in ConsumerNames : l = <<c, loopTask'[c]>> /\ c \in running'
    BY DEF LoopKnown
  <2>1. CASE l \in loops
    BY <1>1, <1>2, <2>1 DEF BusInv, LoopKnown
  <2>2. CASE l \in new
    BY <1>1, <1>2, <2>2
  <2> QED
    BY <1>1, <2>1, <2>2
<1> QED
  BY <1>3, <1>4, <1>5 DEF BusInv

LEMMA StopStep == BusInv /\ StopConsumer => BusInv'
<1> SUFFICES ASSUME BusInv, StopConsumer
             PROVE  BusInv'
  OBVIOUS
<1> DEFINE c == Head(lifespan.todo)
<1>1. /\ lifespan.at = "stopping" /\ lifespan.todo # << >>
      /\ running' = running \ {c} /\ UNCHANGED <<bus, loops>>
  BY DEF StopConsumer
<1>2. /\ c \in BusNames /\ Tail(lifespan.todo) \in Seq(BusNames)
      /\ \A x \in ToSet(lifespan.todo) : x = c \/ x \in ToSet(Tail(lifespan.todo))
  BY <1>1, HeadOrTail DEF BusInv, BusTyped
<1> HIDE DEF c
<1>3. CASE c \in running /\ Awaits(c)
  <2>1. lifespan' = [lifespan EXCEPT !.at = "waiting"] /\ UNCHANGED loopTask
    BY <1>3 DEF StopConsumer, c
  <2>2. BusTyped' /\ StillToStop'
    BY <1>1, <2>1 DEF BusInv, BusTyped, StillToStop, c
  <2>3. LoopKnown'
    BY <1>1, <2>1 DEF BusInv, BusTyped, LoopKnown, c
  <2> QED
    BY <2>2, <2>3 DEF BusInv
<1>4. CASE ~ (c \in running /\ Awaits(c))
  <2>1. /\ lifespan' = [lifespan EXCEPT !.todo = Tail(@)]
        /\ loopTask' = IF c \in running THEN [loopTask EXCEPT ![c] = 0] ELSE loopTask
    BY <1>4 DEF StopConsumer, c
  <2>2. BusTyped'
    BY <1>1, <1>2, <2>1 DEF BusInv, BusTyped
  <2>3. StillToStop'
    BY <1>1, <1>2, <2>1 DEF BusInv, BusTyped, StillToStop
  <2>4. ASSUME NEW l \in loops'
        PROVE  \E d \in ConsumerNames : l = <<d, loopTask'[d]>> /\ d \in running'
    <3>1. PICK d \in ConsumerNames : l = <<d, loopTask[d]>> /\ d \in running
      BY <1>1, <2>4 DEF BusInv, LoopKnown
    <3>2. d # c
      BY <1>1, <1>4, <2>4, <3>1 DEF Awaits
    <3> QED
      BY <1>1, <2>1, <3>1, <3>2 DEF BusInv, BusTyped
  <2> QED
    BY <2>2, <2>3, <2>4 DEF BusInv, LoopKnown
<1> QED
  BY <1>3, <1>4

LEMMA AwaitedStep == BusInv /\ LoopAwaited => BusInv'
<1> SUFFICES ASSUME BusInv, LoopAwaited
             PROVE  BusInv'
  OBVIOUS
<1> DEFINE c == Head(lifespan.todo)
<1>1. /\ lifespan.at = "waiting" /\ <<c, loopTask[c]>> \notin loops
      /\ loopTask' = [loopTask EXCEPT ![c] = 0]
      /\ lifespan' = [at |-> "stopping", todo |-> Tail(lifespan.todo)]
      /\ UNCHANGED <<bus, running, loops>>
  BY DEF LoopAwaited
<1>2. /\ Tail(lifespan.todo) \in Seq(BusNames) /\ c \notin running
      /\ \A x \in ToSet(lifespan.todo) : x = c \/ x \in ToSet(Tail(lifespan.todo))
  BY <1>1, HeadOrTail DEF BusInv, BusTyped, StillToStop
<1>3. BusTyped' /\ StillToStop'
  BY <1>1, <1>2 DEF BusInv, BusTyped, StillToStop
<1>4. ASSUME NEW l \in loops'
      PROVE  \E d \in ConsumerNames : l = <<d, loopTask'[d]>> /\ d \in running'
  <2>1. PICK d \in ConsumerNames : l = <<d, loopTask[d]>> /\ (d \in running \/ d = c)
    BY <1>1, <1>4 DEF BusInv, LoopKnown
  <2>2. d # c
    BY <1>1, <1>4, <2>1
  <2> QED
    BY <1>1, <2>1, <2>2 DEF BusInv, BusTyped
<1> QED
  BY <1>3, <1>4 DEF BusInv, LoopKnown

LEMMA CloseStep ==
  ASSUME BusInv, NEW fails \in BOOLEAN, CloseProducer(fails)
  PROVE  BusInv' /\ loops = {}
<1>1. /\ lifespan.at = "closing" /\ UNCHANGED <<bus, running, loopTask, loops>>
      /\ lifespan' = CASE fails -> [at |-> "broken", todo |-> << >>]
                       [] Len(lifespan.todo) = 1 -> [at |-> "down", todo |-> << >>]
                       [] OTHER -> [lifespan EXCEPT !.todo = Tail(@)]
  BY DEF CloseProducer
<1>2. loops = {}
  BY <1>1 DEF BusInv, StillToStop, LoopKnown
<1>3. Tail(lifespan.todo) \in Seq(BusNames) /\ (Len(lifespan.todo) # 1 => Tail(lifespan.todo) # << >>)
  <2>1. lifespan.todo \in Seq(BusNames) /\ lifespan.todo # << >>
    BY <1>1 DEF BusInv, BusTyped, StillToStop
  <2> QED
    BY <2>1, HeadOrTail
<1>4. /\ lifespan'.at \in {"broken", "down", "closing"}
      /\ lifespan'.at = "closing" => lifespan'.todo # << >>
      /\ lifespan' \in [at : {"down", "up", "stopping", "waiting", "closing", "broken"},
                        todo : Seq(BusNames)]
  <2>1. CASE fails
    BY <1>1, <2>1
  <2>2. CASE ~ fails /\ Len(lifespan.todo) = 1
    BY <1>1, <2>2
  <2>3. CASE ~ fails /\ Len(lifespan.todo) # 1
    <3>1. lifespan' = [lifespan EXCEPT !.todo = Tail(@)]
      BY <1>1, <2>3
    <3> QED
      BY <1>1, <1>3, <2>3, <3>1 DEF BusInv, BusTyped
  <2> QED
    BY <2>1, <2>2, <2>3
<1> QED
  BY <1>1, <1>2, <1>4 DEF BusInv, BusTyped, StillToStop, LoopKnown

LEMMA BusStep == BusInv /\ [BusNext]_busVars => BusInv'
<1> SUFFICES ASSUME BusInv, [BusNext]_busVars
             PROVE  BusInv'
  OBVIOUS
<1>1. CASE UNCHANGED <<bus, running, loopTask, lifespan>> /\ loops' \subseteq loops
  BY <1>1 DEF BusInv, BusTyped, StillToStop, LoopKnown
<1>2. CASE UNCHANGED busVars \/ \E l \in loops : LoopEnds(l)
  BY <1>1, <1>2 DEF LoopEnds, busVars
<1>3. CASE Build
  <2>1. /\ UNCHANGED <<running, loopTask, loops, lifespan>>
        /\ bus'.consumers = bus.consumers /\ bus'.producers = bus.producers
        /\ bus' = [at |-> bus'.at, consumers |-> bus'.consumers,
                   producers |-> bus'.producers, used |-> bus'.used]
    BY <1>3 DEF Build, BusInv, BusTyped
  <2> QED
    BY <2>1 DEF BusInv, BusTyped, StillToStop, LoopKnown
<1>4. CASE StartBus
  BY <1>4, StartStep
<1>5. CASE StopBus
  BY <1>5 DEF StopBus, BusInv, BusTyped, StillToStop, LoopKnown
<1>6. CASE StopConsumer
  BY <1>6, StopStep
<1>7. CASE LoopAwaited
  BY <1>7, AwaitedStep
<1>8. CASE ConsumersStopped
  <2>1. running = {}
    BY <1>8, EmptyHasNone DEF ConsumersStopped, BusInv, StillToStop
  <2> QED
    BY <1>8, <2>1 DEF ConsumersStopped, BusInv, BusTyped, StillToStop, LoopKnown
<1>9. CASE \E fails \in BOOLEAN : CloseProducer(fails)
  BY <1>9, CloseStep
<1>10. CASE \E h \in BusHandlers, targets \in SUBSET ToSet(bus.consumers) : SubscribeTo(h, targets)
  BY <1>1, <1>10 DEF SubscribeTo
<1>11. CASE \E a \in Publishers :
              \/ \E to \in {bus.producers} \union {<<p>> : p \in ToSet(bus.producers)} : BeginPublish(a, to)
              \/ \E taken, raises \in BOOLEAN : PublishNext(a, taken, raises)
  BY <1>1, <1>11 DEF BeginPublish, PublishNext
<1> QED
  BY <1>2, <1>3, <1>4, <1>5, <1>6, <1>7, <1>8, <1>9, <1>10, <1>11 DEF BusNext

LEMMA OnlyCloseCloses ==
  ASSUME BusInv, [BusNext]_busVars, closed' # closed
  PROVE  loops = {}
<1>1. PICK fails \in BOOLEAN : CloseProducer(fails)
  BY DEF BusNext, busVars, Build, StartBus, StopBus, StopConsumer, LoopAwaited,
         ConsumersStopped, LoopEnds, SubscribeTo, BeginPublish, PublishNext
<1> QED
  BY <1>1, CloseStep

(* CloseAfterLoops (event_bus.py:276-279, pull.py:122-135): when a producer *)
(* is closed no loop is left whose handlers might publish.                 *)
THEOREM CloseAfterLoopsHolds == BusSpec => CloseAfterLoops
<1>1. BusInv /\ [BusNext]_busVars => [closed' # closed => loops = {}]_busVars
  BY OnlyCloseCloses
<1> QED
  BY <1>1, BusInvInit, BusStep, PTL DEF BusSpec, CloseAfterLoops
-------------------------------------------------------------------------------
Publication == [todo : Seq(BusNames), to : Seq(BusNames), sent : SUBSET BusNames,
                result : {"none", "raised", "ok"}]

(* A publication has been sent by the first k of its producers; the others *)
(* are still to do, unless one has raised.                                 *)
SentBy(p, k) ==
  /\ p.sent = ToSet(SubSeq(p.to, 1, k))
  /\ \/ p.todo = SubSeq(p.to, k + 1, Len(p.to))
     \/ p.todo = << >> /\ p.result = "raised"
  /\ p.result = "ok" => k = Len(p.to)

PublishInv ==
  /\ publish \in [Publishers -> Publication]
  /\ \A a \in Publishers : \E k \in 0..Len(publish[a].to) : SentBy(publish[a], k)

LEMMA PrefixHolds ==
  ASSUME NEW S, NEW s \in Seq(S), NEW k \in 0..Len(s)
  PROVE  ToSet(SubSeq(s, 1, k)) = {s[i] : i \in 1..k}
<1>1. /\ SubSeq(s, 1, k) \in Seq(S) /\ Len(SubSeq(s, 1, k)) = k
      /\ \A i \in 1..k : SubSeq(s, 1, k)[i] = s[i]
  <2>1. \A i \in 1..k : s[i] \in S
    OBVIOUS
  <2> QED
    BY <2>1, SubSeqProperties
<1>2. DOMAIN SubSeq(s, 1, k) = 1..k
  BY <1>1
<1> QED
  BY <1>1, <1>2 DEF ToSet

LEMMA PrefixGrows ==
  ASSUME NEW S, NEW s \in Seq(S), NEW k \in 0..Len(s), k < Len(s)
  PROVE  /\ k + 1 \in 1..Len(s)
         /\ ToSet(SubSeq(s, 1, k + 1)) = ToSet(SubSeq(s, 1, k)) \union {s[k + 1]}
<1>1. k + 1 \in 0..Len(s) /\ k + 1 \in 1..Len(s) /\ 1..(k + 1) = (1..k) \union {k + 1}
  OBVIOUS
<1>2. /\ ToSet(SubSeq(s, 1, k + 1)) = {s[i] : i \in 1..(k + 1)}
      /\ ToSet(SubSeq(s, 1, k)) = {s[i] : i \in 1..k}
  BY <1>1, PrefixHolds
<1> QED
  BY <1>1, <1>2

(* What is left to do: nothing at the end, else the next and the rest.     *)
LEMMA RestOf ==
  ASSUME NEW S, NEW s \in Seq(S), NEW k \in 0..Len(s)
  PROVE  /\ SubSeq(s, k + 1, Len(s)) = << >> => k = Len(s)
         /\ k < Len(s) => /\ Head(SubSeq(s, k + 1, Len(s))) = s[k + 1]
                          /\ Tail(SubSeq(s, k + 1, Len(s))) = SubSeq(s, (k + 1) + 1, Len(s))
<1>1. ASSUME k < Len(s)
      PROVE  /\ Head(SubSeq(s, k + 1, Len(s))) = s[k + 1]
             /\ Tail(SubSeq(s, k + 1, Len(s))) = SubSeq(s, (k + 1) + 1, Len(s))
  <2>1. k + 1 \in 1..Len(s) /\ Len(s) \in (k + 1)..Len(s)
    BY <1>1
  <2> QED
    BY <2>1, HeadTailOfSubSeq
<1>2. ASSUME k < Len(s)
      PROVE  SubSeq(s, k + 1, Len(s)) # << >>
  <2> DEFINE n == Len(SubSeq(s, k + 1, Len(s)))
  <2>1. \A i \in (k + 1)..Len(s) : s[i] \in S
    OBVIOUS
  <2>2. n = Len(s) - (k + 1) + 1
    BY <1>2, <2>1, SubSeqProperties
  <2>3. SubSeq(s, k + 1, Len(s)) = << >> => n = Len(<< >>)
    OBVIOUS
  <2>4. Len(<< >>) = 0
    OBVIOUS
  <2> HIDE DEF n
  <2>5. n # 0
    BY <1>2, <2>2
  <2> QED
    BY <2>3, <2>4, <2>5, Zenon
<1> QED
  BY <1>1, <1>2

LEMMA PublishInvInit == BusInit => PublishInv
<1> SUFFICES ASSUME BusInit
             PROVE  PublishInv
  OBVIOUS
<1>1. publish \in [Publishers -> Publication]
  BY DEF BusInit, NoPublication, Publication
<1>2. ASSUME NEW a \in Publishers
      PROVE  \E k \in 0..Len(publish[a].to) : SentBy(publish[a], k)
  <2>1. publish[a] = [todo |-> << >>, to |-> << >>, sent |-> {}, result |-> "none"]
    BY DEF BusInit, NoPublication
  <2>2. Len(<< >>) = 0 /\ SubSeq(<< >>, 1, 0) = << >>
    BY SubSeqEmpty
  <2>3. SentBy([todo |-> << >>, to |-> << >>, sent |-> {}, result |-> "none"], 0)
    <3>1. ToSet(SubSeq(<< >>, 1, 0)) = {}
      BY <2>2, EmptyHasNone
    <3>2. SubSeq(<< >>, 0 + 1, Len(<< >>)) = << >>
      BY <2>2
    <3> QED
      BY <3>1, <3>2 DEF SentBy
  <2>4. SentBy(publish[a], 0)
    BY <2>1, <2>3
  <2> QED
    BY <2>1, <2>2, <2>4
<1> QED
  BY <1>1, <1>2 DEF PublishInv

LEMMA BeginStep ==
  ASSUME BusTyped, PublishInv, NEW a \in Publishers, NEW to \in Seq(BusNames), BeginPublish(a, to)
  PROVE  PublishInv'
<1> DEFINE p == [todo |-> to, to |-> to, sent |-> {}, result |-> "none"]
<1>1. publish' = [publish EXCEPT ![a] = p] /\ p \in Publication
  BY DEF BeginPublish, Publication
<1>2. 0 \in 0..Len(to) /\ SentBy(p, 0)
  <2>1. ToSet(SubSeq(to, 1, 0)) = {}
    <3>1. SubSeq(to, 1, 0) = << >>
      BY SubSeqEmpty
    <3> QED
      BY <3>1, EmptyHasNone
  <2>2. SubSeq(to, 0 + 1, Len(to)) = to
    BY SubSeqFull
  <2> QED
    BY <2>1, <2>2 DEF SentBy
<1> HIDE DEF p
<1>3. p.to = to
  BY DEF p
<1> QED
  BY <1>1, <1>2, <1>3 DEF PublishInv

LEMMA NextStep ==
  ASSUME PublishInv, NEW a \in Publishers, NEW taken \in BOOLEAN, NEW raises \in BOOLEAN,
         PublishNext(a, taken, raises)
  PROVE  PublishInv'
<1> DEFINE p == publish[a]
           left == IF raises THEN << >> ELSE Tail(p.todo)
           q == [todo |-> left, to |-> p.to,
                 sent |-> IF taken THEN p.sent \union {Head(p.todo)} ELSE p.sent,
                 result |-> IF left # << >> THEN "none" ELSE IF raises THEN "raised" ELSE "ok"]
<1>1. p \in Publication /\ p.todo # << >> /\ (raises \/ taken)
  BY DEF PublishInv, PublishNext
<1>2. publish' = [publish EXCEPT ![a] = q]
  BY <1>1 DEF PublishNext, AfterError, Publication
<1>3. PICK k \in 0..Len(p.to) : SentBy(p, k)
  BY DEF PublishInv
<1>4. p.to \in Seq(BusNames) /\ p.todo \in Seq(BusNames) /\ p.sent \subseteq BusNames
  BY <1>1 DEF Publication
<1> HIDE DEF p
<1>5. p.todo = SubSeq(p.to, k + 1, Len(p.to)) /\ p.sent = ToSet(SubSeq(p.to, 1, k))
  BY <1>1, <1>3 DEF SentBy
<1>6. k < Len(p.to)
  <2>1. k = Len(p.to) => SubSeq(p.to, k + 1, Len(p.to)) = << >>
    BY <1>4, SubSeqEmpty
  <2> QED
    BY <1>1, <1>4, <1>5, <2>1
<1>7. /\ Head(p.todo) = p.to[k + 1] /\ Tail(p.todo) = SubSeq(p.to, (k + 1) + 1, Len(p.to))
      /\ k + 1 \in 0..Len(p.to) /\ ToSet(SubSeq(p.to, 1, k + 1)) = p.sent \union {Head(p.todo)}
  <2>1. k + 1 \in 1..Len(p.to) /\ k + 1 \in 0..Len(p.to) /\ p.to[k + 1] \in BusNames
    BY <1>4, <1>6
  <2>2. ToSet(SubSeq(p.to, 1, k + 1)) = ToSet(SubSeq(p.to, 1, k)) \union {p.to[k + 1]}
    BY <1>4, <1>6, PrefixGrows
  <2>3. /\ Head(SubSeq(p.to, k + 1, Len(p.to))) = p.to[k + 1]
        /\ Tail(SubSeq(p.to, k + 1, Len(p.to))) = SubSeq(p.to, (k + 1) + 1, Len(p.to))
    BY <1>4, <1>6, RestOf
  <2>4. Head(p.todo) = p.to[k + 1] /\ Tail(p.todo) = SubSeq(p.to, (k + 1) + 1, Len(p.to))
    BY <1>5, <2>3
  <2> QED
    BY <1>5, <2>1, <2>2, <2>4
<1>8. left \in Seq(BusNames) /\ Head(p.todo) \in BusNames
  BY <1>1, <1>4, HeadOrTail
<1> HIDE DEF left
<1>9. q \in Publication
  BY <1>4, <1>8 DEF Publication
<1>10. \E n \in 0..Len(p.to) : SentBy(q, n)
  <2>1. CASE raises /\ ~ taken
    <3>1. SentBy(q, k)
      BY <1>5, <2>1 DEF SentBy, left
    <3> QED
      BY <3>1
  <2>2. CASE raises /\ taken
    <3>1. SentBy(q, k + 1)
      BY <1>7, <2>2 DEF SentBy, left
    <3> QED
      BY <1>7, <3>1
  <2>3. CASE ~ raises
    <3>1. left = SubSeq(p.to, (k + 1) + 1, Len(p.to)) /\ taken
      BY <1>1, <1>7, <2>3 DEF left
    <3>2. left = << >> => k + 1 = Len(p.to)
      BY <1>4, <1>7, <3>1, RestOf
    <3>3. SentBy(q, k + 1)
      BY <1>7, <2>3, <3>1, <3>2 DEF SentBy
    <3> QED
      BY <1>7, <3>3
  <2> QED
    BY <2>1, <2>2, <2>3
<1>11. q.to = p.to
  OBVIOUS
<1> HIDE DEF q
<1> QED
  BY <1>2, <1>9, <1>10, <1>11 DEF PublishInv

LEMMA PublishStep == BusInv /\ PublishInv /\ [BusNext]_busVars => PublishInv'
<1> SUFFICES ASSUME BusInv, PublishInv, [BusNext]_busVars
             PROVE  PublishInv'
  OBVIOUS
<1>1. CASE UNCHANGED publish
  BY <1>1 DEF PublishInv
<1>2. ASSUME NEW a \in Publishers, NEW to \in {bus.producers} \union {<<p>> : p \in ToSet(bus.producers)},
             BeginPublish(a, to)
      PROVE  PublishInv'
  <2>1. bus.producers \in Seq(BusNames)
    BY DEF BusInv, BusTyped
  <2>2. ToSet(bus.producers) \subseteq BusNames
    BY <2>1 DEF ToSet
  <2>3. to \in Seq(BusNames)
    <3>1. CASE to = bus.producers
      BY <2>1, <3>1
    <3>2. ASSUME NEW p \in BusNames
          PROVE  <<p>> \in Seq(BusNames)
      OBVIOUS
    <3> QED
      BY <2>2, <3>1, <3>2
  <2> QED
    BY <1>2, <2>3, BeginStep DEF BusInv
<1>3. ASSUME NEW a \in Publishers, NEW taken \in BOOLEAN, NEW raises \in BOOLEAN, PublishNext(a, taken, raises)
      PROVE  PublishInv'
  BY <1>3, NextStep
<1> QED
  BY <1>1, <1>2, <1>3
     DEF BusNext, busVars, Build, StartBus, StopBus, StopConsumer, LoopAwaited, ConsumersStopped,
         CloseProducer, LoopEnds, SubscribeTo

LEMMA PublishInvTells == PublishInv => ToldMeansSent
<1> SUFFICES ASSUME PublishInv, NEW a \in Publishers
             PROVE  LET p == publish[a] IN
                    /\ p.result = "ok" => p.sent = ToSet(p.to)
                    /\ \E k \in 0..Len(p.to) : p.sent = ToSet(SubSeq(p.to, 1, k))
  BY DEF ToldMeansSent
<1>1. PICK k \in 0..Len(publish[a].to) : SentBy(publish[a], k)
  BY DEF PublishInv
<1>2. publish[a].to \in Seq(BusNames)
  BY DEF PublishInv, Publication
<1>3. SubSeq(publish[a].to, 1, Len(publish[a].to)) = publish[a].to
  BY <1>2, SubSeqFull
<1> QED
  BY <1>1, <1>3 DEF SentBy

(* ToldMeansSent (event_bus.py:208-209): after success every producer has  *)
(* sent, and after an error those that may have sent are the first ones;   *)
(* for any producers and publishers, whoever raises, and whatever starts   *)
(* and stops meanwhile.                                                    *)
THEOREM ToldMeansSentHolds == BusSpec => []ToldMeansSent
<1>1. BusInv /\ PublishInv /\ [BusNext]_busVars => BusInv' /\ PublishInv'
  BY BusStep, PublishStep
<1> QED
  BY <1>1, BusInvInit, PublishInvInit, PublishInvTells, PTL DEF BusSpec

-------------------------------------------------------------------------------
(***************************************************************************)
(* What rests on keys that expire.  The in-memory store keeps the promise  *)
(* of its interface, and its sweep takes the expired entries and no other, *)
(* for any clients, keys, TTLs and capacity.  Two processes never run the  *)
(* periodic task at once, and the task goes on in time and as often as it  *)
(* was asked for: for any number of processes, any period and TTL, whoever *)
(* dies or raises.                                                         *)
(***************************************************************************)

Expiries == Nat \union {Never}

(* What the proof needs of the types; that the dict is finite counts when  *)
(* the size of a full store is compared.                                   *)
StoreTyped ==
  /\ DOMAIN claims \subseteq Keys /\ IsFiniteSet(DOMAIN claims)
  /\ \A k \in DOMAIN claims : claims[k] \in Expiries
  /\ time \in Nat

Swept == Cardinality(DOMAIN claims) >= MaxEntries

Kept == IF Swept THEN EvictExpired ELSE claims

(* The sweep takes no live entry and changes none. *)
LEMMA KeptIsLive ==
  ASSUME StoreTyped
  PROVE  /\ DOMAIN Kept \subseteq DOMAIN claims /\ LiveKeys \subseteq DOMAIN Kept
         /\ \A k \in DOMAIN Kept : Kept[k] = claims[k]
         /\ Swept => DOMAIN Kept = LiveKeys
         /\ ~ Swept => Kept = claims
BY DEF Kept, EvictExpired, Restrict, LiveKeys, Unexpired, StoreTyped

(* A claim that is granted joins the live entries and disturbs none; with  *)
(* a TTL of zero it is expired at once.                                    *)
LEMMA GrantAdds ==
  ASSUME StoreTyped, NEW c \in Clients, NEW k \in Keys, NEW ttl \in Ttls, ClaimGranted(c, k, ttl)
  PROVE  /\ StoreTyped'
         /\ DOMAIN claims' = DOMAIN Kept \union {k}
         /\ LiveKeys' = IF ttl = 0 THEN LiveKeys ELSE LiveKeys \union {k}
         /\ MortalKeys' = IF ttl \in {0, NoTtl} THEN MortalKeys ELSE MortalKeys \union {k}
<1>1. claims' = [x \in DOMAIN Kept \union {k} |-> IF x = k THEN Expiry(ttl) ELSE Kept[x]]
  BY DEF ClaimGranted, Kept, Swept
<1>2. time' = time /\ k \notin LiveKeys
  BY DEF ClaimGranted, LiveKeys
<1>3. Expiry(ttl) \in Expiries
  BY StoreAssumption DEF Expiry, Expiries, StoreTyped
<1>4. IsFiniteSet(DOMAIN Kept \union {k})
  BY KeptIsLive, FS_Subset, FS_AddElement DEF StoreTyped
<1>5. DOMAIN claims' = DOMAIN Kept \union {k} /\ claims'[k] = Expiry(ttl)
      /\ \A x \in DOMAIN Kept \ {k} : claims'[x] = claims[x]
  BY <1>1, KeptIsLive
<1> HIDE DEF Kept
<1>6. StoreTyped'
  BY <1>2, <1>3, <1>4, <1>5, KeptIsLive DEF StoreTyped
<1>7. ASSUME NEW x \in Keys, x # k
      PROVE  /\ x \in LiveKeys' <=> x \in LiveKeys
             /\ x \in LiveKeys => claims'[x] = claims[x]
  BY <1>2, <1>5, <1>7, KeptIsLive DEF LiveKeys, Unexpired
<1>8. k \in LiveKeys' <=> ttl # 0
  BY <1>2, <1>5, StoreAssumption DEF LiveKeys, Unexpired, Expiry, Never, NoTtl, StoreTyped
<1>9. claims'[k] = Never <=> ttl = NoTtl
  BY <1>5, StoreAssumption DEF Expiry, Never, NoTtl, StoreTyped
<1>10. LiveKeys' = IF ttl = 0 THEN LiveKeys ELSE LiveKeys \union {k}
  BY <1>2, <1>7, <1>8 DEF LiveKeys
<1>11. \A x \in Keys : x \in MortalKeys' <=> x \in LiveKeys' /\ claims'[x] # Never
  BY DEF MortalKeys, LiveKeys
<1>12. \A x \in Keys : x \in MortalKeys <=> x \in LiveKeys /\ claims[x] # Never
  BY DEF MortalKeys, LiveKeys
<1>13. MortalKeys \subseteq Keys /\ MortalKeys' \subseteq Keys
  BY DEF MortalKeys, LiveKeys
<1>14. MortalKeys' = IF ttl \in {0, NoTtl} THEN MortalKeys ELSE MortalKeys \union {k}
  BY <1>2, <1>7, <1>8, <1>9, <1>11, <1>12, <1>13 DEF NoTtl
<1> QED
  BY <1>5, <1>6, <1>10, <1>14

LEMMA ReleaseTakes ==
  ASSUME StoreTyped, NEW c \in Clients, NEW k \in Keys, ReleaseKey(c, k)
  PROVE  StoreTyped' /\ LiveKeys' = LiveKeys \ {k} /\ MortalKeys' = MortalKeys \ {k}
<1>1. /\ claims' = [x \in DOMAIN claims \ {k} |-> claims[x]] /\ time' = time
  BY DEF ReleaseKey, Restrict
<1>2. StoreTyped'
  BY <1>1, FS_Subset DEF StoreTyped
<1> QED
  BY <1>1, <1>2 DEF LiveKeys, MortalKeys, Unexpired

(* Time takes only claims with a TTL. *)
LEMMA TickExpires ==
  ASSUME StoreTyped, StoreTick
  PROVE  /\ StoreTyped' /\ LiveKeys \ LiveKeys' \subseteq MortalKeys
         /\ LiveKeys' = LiveKeys \ (LiveKeys \ LiveKeys')
         /\ MortalKeys' = MortalKeys \ (LiveKeys \ LiveKeys')
BY DEF StoreTyped, StoreTick, LiveKeys, MortalKeys, Unexpired, Expiries, Never

LEMMA StoreTypedInit == StoreInit => StoreTyped
BY FS_EmptySet DEF StoreInit, StoreTyped

LEMMA Still ==
  ASSUME StoreTyped, UNCHANGED <<claims, time>>
  PROVE  StoreTyped' /\ LiveKeys' = LiveKeys /\ MortalKeys' = MortalKeys
BY DEF StoreTyped, LiveKeys, MortalKeys, Unexpired

LEMMA StoreTypedStep == StoreTyped /\ [StoreNext]_storeVars => StoreTyped'
BY GrantAdds, ReleaseTakes, TickExpires, Still DEF StoreNext, ClaimRefused, KeepClaim, storeVars

(* Every step of the dict is a step of the promise or none. *)
LEMMA StepIsPromised == StoreTyped /\ [StoreNext]_storeVars => [Promise!Next]_(Promise!vars)
<1> SUFFICES ASSUME StoreTyped, [StoreNext]_storeVars
             PROVE  [Promise!Next]_(Promise!vars)
  OBVIOUS
<1>1. CASE UNCHANGED storeVars
  BY <1>1, Still DEF storeVars, Promise!vars
<1>2. ASSUME NEW c \in Clients, NEW k \in Keys, NEW ttl \in Ttls, ClaimGranted(c, k, ttl)
      PROVE  Promise!Next
  <2>1. k \notin LiveKeys /\ k \notin MortalKeys /\ <<c, k>> \notin holders
        /\ holders' = holders \union {<<c, k>>}
    BY <1>2 DEF ClaimGranted, LiveKeys, MortalKeys
  <2>2. CASE ttl = 0
    BY <1>2, <2>1, <2>2, GrantAdds DEF Promise!GrantSpent, Promise!Next
  <2>3. CASE ttl # 0
    <3>1. Promise!Grant(c, k)
      <4>1. LiveKeys' = LiveKeys \union {k}
        BY <1>2, <2>3, GrantAdds
      <4>2. MortalKeys' = MortalKeys \ {k} \/ MortalKeys' = MortalKeys \union {k}
        <5>1. MortalKeys = MortalKeys \ {k}
          BY <2>1
        <5> QED
          BY <1>2, <5>1, GrantAdds
      <4> QED
        BY <2>1, <4>1, <4>2 DEF Promise!Grant
    <3> QED
      BY <3>1 DEF Promise!Next
  <2> QED
    BY <2>2, <2>3
<1>3. ASSUME NEW c \in Clients, NEW k \in Keys, ClaimRefused(c, k)
      PROVE  [Promise!Next]_(Promise!vars)
  BY <1>3, Still DEF ClaimRefused, storeVars, Promise!vars
<1>4. ASSUME NEW c \in Clients, NEW k \in Keys, ReleaseKey(c, k)
      PROVE  Promise!Next
  <2>1. Promise!Release(c, k)
    BY <1>4, ReleaseTakes DEF ReleaseKey, Promise!Release
  <2> QED
    BY <2>1 DEF Promise!Next
<1>5. ASSUME NEW c \in Clients, NEW k \in Keys, KeepClaim(c, k)
      PROVE  Promise!Next
  <2>1. Promise!Keep(c, k)
    BY <1>5, Still DEF KeepClaim, Promise!Keep
  <2> QED
    BY <2>1 DEF Promise!Next
<1>6. CASE StoreTick
  <2>1. LiveKeys \ LiveKeys' \in SUBSET MortalKeys /\ holders' = holders
    BY <1>6, TickExpires DEF StoreTick
  <2>2. Promise!Expire
    BY <1>6, <2>1, TickExpires DEF Promise!Expire
  <2> QED
    BY <2>2 DEF Promise!Next
<1> QED
  BY <1>1, <1>2, <1>3, <1>4, <1>5, <1>6 DEF StoreNext

(* ImplementsClaimStore (store.py:18-72): the dict with lazy eviction does *)
(* what the interface of the idempotency store promises.                   *)
THEOREM ImplementsClaimStoreHolds == StoreSpec => ImplementsClaimStore
<1>1. StoreInit => Promise!Init
  BY DEF StoreInit, Promise!Init, LiveKeys, MortalKeys, Unexpired
<1> QED
  BY <1>1, StoreTypedInit, StoreTypedStep, StepIsPromised, PTL DEF StoreSpec, ImplementsClaimStore, Promise!Spec
-------------------------------------------------------------------------------
LEMMA LiveLeaveInTime ==
  ASSUME StoreTyped, [StoreNext]_storeVars, NEW k \in LiveKeys \ LiveKeys'
  PROVE  time' > time \/ \E c \in Clients : <<c, k>> \in holders \ holders'
<1>1. CASE UNCHANGED storeVars \/ \E c \in Clients, x \in Keys : ClaimRefused(c, x) \/ KeepClaim(c, x)
  BY <1>1, Still DEF storeVars, ClaimRefused, KeepClaim
<1>2. CASE \E c \in Clients, x \in Keys, ttl \in Ttls : ClaimGranted(c, x, ttl)
  BY <1>2, GrantAdds
<1>3. ASSUME NEW c \in Clients, NEW x \in Keys, ReleaseKey(c, x)
      PROVE  <<c, k>> \in holders \ holders'
  BY <1>3, ReleaseTakes DEF ReleaseKey
<1>4. CASE StoreTick
  BY <1>4 DEF StoreTick, StoreTyped
<1> QED
  BY <1>1, <1>2, <1>3, <1>4 DEF StoreNext

LEMMA OverfullIsLive ==
  ASSUME StoreTyped, [StoreNext]_storeVars, NEW k \in DOMAIN claims' \ DOMAIN claims,
         Cardinality(DOMAIN claims') > MaxEntries
  PROVE  DOMAIN claims' \ {k} \subseteq LiveKeys'
<1>1. PICK c \in Clients, x \in Keys, ttl \in Ttls : ClaimGranted(c, x, ttl)
  BY DEF StoreNext, storeVars, ClaimRefused, KeepClaim, StoreTick, ReleaseKey, Restrict
<1>2. DOMAIN claims' = DOMAIN Kept \union {x} /\ LiveKeys \subseteq LiveKeys'
  BY <1>1, GrantAdds
<1>3. k = x
  BY <1>2, KeptIsLive
<1>4. CASE Swept
  BY <1>2, <1>3, <1>4, KeptIsLive
<1>5. CASE ~ Swept
  <2>1. DOMAIN claims' = DOMAIN claims \union {x}
    BY <1>2, <1>5, KeptIsLive
  <2>2. /\ Cardinality(DOMAIN claims) \in Nat
        /\ Cardinality(DOMAIN claims') = Cardinality(DOMAIN claims) + 1
    BY <1>3, <2>1, FS_AddElement, FS_CardinalityType DEF StoreTyped
  <2> QED
    BY <1>5, <2>2, StoreAssumption DEF Swept
<1> QED
  BY <1>4, <1>5

(* SweepIsExact (store.py:61-72): no live claim is lost to the sweep, and  *)
(* a store over its limit holds live claims only.                          *)
THEOREM SweepIsExactHolds == StoreSpec => SweepIsExact
<1>1. StoreTyped /\ [StoreNext]_storeVars =>
        [\A k \in LiveKeys \ LiveKeys' :
           \/ time' > time
           \/ \E c \in Clients : <<c, k>> \in holders \ holders']_storeVars
  BY LiveLeaveInTime
<1>2. StoreTyped /\ [StoreNext]_storeVars =>
        [\A k \in DOMAIN claims' \ DOMAIN claims :
           Cardinality(DOMAIN claims') > MaxEntries
             => DOMAIN claims' \ {k} \subseteq LiveKeys']_storeVars
  BY OverfullIsLive
<1> QED
  BY <1>1, <1>2, StoreTypedInit, StoreTypedStep, PTL
     DEF StoreSpec, SweepIsExact, SweepSparesLive, OverfullOnlyWithLive
-------------------------------------------------------------------------------
Loop == [Workers -> {"sleep", "run", "done", "raised", "dead"}]

TaskTyped == tick \in Nat /\ expiry \in Nat /\ loopAt \in Loop /\ due \in [Workers -> Nat]

(* A run ends in time: the key its process has set outlives it, also when  *)
(* the event loop is late.  This is what keeps the others from the lock.   *)
RunsWithinKey ==
  \A w \in Workers : loopAt[w] = "run" => tick <= due[w] + Lag /\ due[w] + Lag < expiry

OneRun == \A v, w \in Workers : loopAt[v] = "run" /\ loopAt[w] = "run" => v = w

TaskInv == TaskTyped /\ RunsWithinKey /\ OneRun

(* The runs have a longest one, and it is shorter than the TTL.            *)
Short ==
  /\ \E d \in RunTimes : \A e \in RunTimes : e <= d
  /\ Longest + Lag < Ttl

LEMMA TtlIsNat == Ttl \in Nat
<1>1. LockTtl * TicksPerSecond \in Nat
  BY PeriodicAssumption
<1>2. Period \div TicksPerSecond \in Nat
  BY PeriodicAssumption
<1>3. (Period \div TicksPerSecond) * TicksPerSecond \in Nat
  BY <1>2, PeriodicAssumption
<1> QED
  BY <1>1, <1>3 DEF Ttl

LEMMA LongestIsLongest ==
  ASSUME \E d \in RunTimes : \A e \in RunTimes : e <= d
  PROVE  Longest \in Nat /\ \A e \in RunTimes : e <= Longest
<1>1. Longest \in RunTimes /\ \A e \in RunTimes : e <= Longest
  BY DEF Longest
<1> QED
  BY <1>1, PeriodicAssumption

LEMMA TaskInvInit == TaskInit => TaskInv
<1> SUFFICES ASSUME TaskInit
             PROVE  TaskInv
  OBVIOUS
<1>1. due \in [Workers -> Nat]
  <2>1. CASE WaitFirst
    BY <2>1, PeriodicAssumption DEF TaskInit
  <2>2. CASE ~ WaitFirst
    BY <2>2, PeriodicAssumption DEF TaskInit
  <2> QED
    BY <2>1, <2>2
<1> QED
  BY <1>1 DEF TaskInit, TaskInv, TaskTyped, RunsWithinKey, OneRun, Loop

(* A step that starts no run and leaves the key alone, or found it expired. *)
LEMMA NoNewRun ==
  ASSUME TaskInv, NEW w \in Workers, tick' = tick, expiry' \in Nat,
         expiry' = expiry \/ expiry <= tick,
         loopAt' \in Loop, due' \in [Workers -> Nat], loopAt'[w] # "run",
         \A v \in Workers \ {w} : loopAt'[v] = loopAt[v] /\ due'[v] = due[v]
  PROVE  TaskInv'
<1>1. TaskTyped'
  BY DEF TaskInv, TaskTyped, Loop
<1>2. ASSUME NEW v \in Workers, loopAt'[v] = "run"
      PROVE  v # w /\ loopAt[v] = "run" /\ due'[v] = due[v] /\ expiry' = expiry
  <2>1. v # w /\ loopAt[v] = "run" /\ due'[v] = due[v]
    BY <1>2
  <2>2. tick < expiry
    BY <2>1, PeriodicAssumption DEF TaskInv, TaskTyped, RunsWithinKey
  <2> QED
    BY <2>1, <2>2 DEF TaskInv, TaskTyped
<1>3. RunsWithinKey'
  BY <1>2 DEF TaskInv, RunsWithinKey
<1>4. OneRun'
  BY <1>2 DEF TaskInv, OneRun
<1> QED
  BY <1>1, <1>3, <1>4 DEF TaskInv

LEMMA SleepMoves ==
  ASSUME TaskTyped, NEW w \in Workers, SleepPeriod(w)
  PROVE  /\ loopAt' \in Loop /\ due' \in [Workers -> Nat] /\ loopAt'[w] = "sleep"
         /\ \A v \in Workers \ {w} : loopAt'[v] = loopAt[v] /\ due'[v] = due[v]
<1>1. tick + Period \in Nat
  BY PeriodicAssumption DEF TaskTyped
<1> QED
  BY <1>1 DEF SleepPeriod, TaskTyped, Loop

LEMMA TaskStep == Short /\ TaskInv /\ [TaskNext]_taskVars => TaskInv'
<1> SUFFICES ASSUME Short, TaskInv, [TaskNext]_taskVars
             PROVE  TaskInv'
  OBVIOUS
<1>1. CASE UNCHANGED taskVars
  BY <1>1 DEF taskVars, TaskInv, TaskTyped, RunsWithinKey, OneRun
<1>2. CASE TaskTick
  BY <1>2, PeriodicAssumption DEF TaskTick, TaskInv, TaskTyped, RunsWithinKey, OneRun, Loop
<1>3. ASSUME NEW w \in Workers, Acquire(w)
      PROVE  TaskInv'
  <2>1. \A v \in Workers : loopAt[v] # "run"
    BY <1>3, PeriodicAssumption DEF Acquire, TaskInv, TaskTyped, RunsWithinKey
  <2>2. PICK d \in RunTimes : due' = [due EXCEPT ![w] = tick + d]
    BY <1>3 DEF Acquire
  <2>3. d \in Nat /\ d + Lag < Ttl
    BY LongestIsLongest, TtlIsNat, PeriodicAssumption DEF Short
  <2>4. /\ tick' = tick /\ expiry' = tick + Ttl
        /\ loopAt' = [loopAt EXCEPT ![w] = "run"]
    BY <1>3 DEF Acquire
  <2>5. TaskTyped'
    BY <2>2, <2>3, <2>4, TtlIsNat DEF TaskInv, TaskTyped, Loop
  <2>6. \A v \in Workers : loopAt'[v] = "run" => v = w
    BY <2>1, <2>4 DEF TaskInv, TaskTyped, Loop
  <2>7. due'[w] = tick + d
    BY <2>2 DEF TaskInv, TaskTyped
  <2>8. RunsWithinKey'
    BY <2>3, <2>4, <2>6, <2>7, TtlIsNat, PeriodicAssumption DEF TaskInv, TaskTyped, RunsWithinKey
  <2> QED
    BY <2>5, <2>6, <2>8 DEF TaskInv, OneRun
<1>4. ASSUME NEW w \in Workers, Skip(w)
      PROVE  TaskInv'
  BY <1>4, SleepMoves, NoNewRun DEF Skip, TaskInv, TaskTyped
<1>5. ASSUME NEW w \in Workers, Finish(w)
      PROVE  TaskInv'
  BY <1>5, SleepMoves, NoNewRun DEF Finish, TaskInv, TaskTyped
<1>6. ASSUME NEW w \in Workers, Fails(w)
      PROVE  TaskInv'
  <2>1. tick' = tick
    BY <1>6 DEF Fails
  <2>2. tick + Ttl \in Nat
    BY TtlIsNat DEF TaskInv, TaskTyped
  <2>3. expiry' \in Nat /\ (expiry' = expiry \/ expiry <= tick)
    BY <1>6, <2>2 DEF Fails, TaskInv, TaskTyped
  <2>4. /\ loopAt' \in Loop /\ due' \in [Workers -> Nat] /\ loopAt'[w] # "run"
        /\ \A v \in Workers \ {w} : loopAt'[v] = loopAt[v] /\ due'[v] = due[v]
    <3>1. CASE RaiseExceptions
      BY <1>6, <3>1 DEF Fails, Logged, TaskInv, TaskTyped, Loop
    <3>2. CASE ~ RaiseExceptions
      BY <1>6, <3>2, SleepMoves DEF Fails, Logged, TaskInv
    <3> QED
      BY <3>1, <3>2
  <2> QED
    BY <2>1, <2>3, <2>4, NoNewRun
<1>7. ASSUME NEW w \in Workers, Ends(w) \/ Dies(w)
      PROVE  TaskInv'
  <2>1. /\ tick' = tick /\ expiry' = expiry /\ due' = due
        /\ \E s \in {"done", "dead"} : loopAt' = [loopAt EXCEPT ![w] = s]
    BY <1>7 DEF Ends, Dies
  <2> QED
    BY <2>1, NoNewRun DEF TaskInv, TaskTyped, Loop
<1> QED
  BY <1>1, <1>2, <1>3, <1>4, <1>5, <1>6, <1>7 DEF TaskNext

(* At most one loop runs means that the set of those that do has at most   *)
(* one member.                                                             *)
LEMMA OneRunCounted == OneRun => Cardinality({w \in Workers : loopAt[w] = "run"}) <= 1
<1> DEFINE R == {w \in Workers : loopAt[w] = "run"}
<1> SUFFICES ASSUME OneRun
             PROVE  Cardinality(R) <= 1
  OBVIOUS
<1>1. CASE R = {}
  BY <1>1, FS_EmptySet
<1>2. CASE R # {}
  <2>1. PICK w \in R : TRUE
    BY <1>2
  <2>2. R = {w}
    BY <2>1 DEF OneRun
  <2>3. Cardinality({w}) = 1
    BY FS_Singleton
  <2> QED
    BY <2>2, <2>3
<1> QED
  BY <1>1, <1>2

(* NoOverlap (repeat.py:24): a run that ends within the TTL of the lock is *)
(* alone, for any number of processes and any TTL.  Assumed is only that   *)
(* the task has a longest run, as one with a timeout has.                  *)
THEOREM NoOverlapHolds ==
  ASSUME \E d \in RunTimes : \A e \in RunTimes : e <= d
  PROVE  TaskSpec => []NoOverlap
<1>1. CASE Short
  <2>1. TaskInv /\ [TaskNext]_taskVars => TaskInv'
    BY <1>1, TaskStep
  <2>2. TaskInv => NoOverlap
    BY OneRunCounted DEF TaskInv, NoOverlap
  <2> QED
    BY TaskInvInit, <2>1, <2>2, PTL DEF TaskSpec
<1>2. CASE ~ Short
  <2>1. ~ (Longest + Lag < Ttl)
    BY <1>2 DEF Short
  <2>2. NoOverlap
    BY <2>1 DEF NoOverlap
  <2>3. NoOverlap'
    BY <2>1 DEF NoOverlap
  <2> QED
    BY <2>2, <2>3, PTL DEF TaskSpec
<1> QED
  BY <1>1, <1>2
-------------------------------------------------------------------------------
Counted ==
  /\ TaskTyped /\ starts \in Nat /\ lastStart \in Nat
  /\ repetitions \in [Workers -> 0..MaxRepetitions]

(* Every repetition a loop has counted is a run of somebody's.  A loop with*)
(* no run to spare wakes up only when the key is gone, so its next one is  *)
(* either its own run or has been another's.                               *)
RepetitionsRun ==
  /\ expiry <= tick + Ttl
  /\ \A w \in Workers :
       /\ repetitions[w] <= starts
       /\ loopAt[w] = "sleep" /\ repetitions[w] = starts => expiry <= due[w]
       /\ loopAt[w] = "done" => repetitions[w] = MaxRepetitions

(* No loop oversleeps; before the first run nobody holds the lock, and     *)
(* after it a sleeping loop's time comes within a TTL and a period.        *)
GapKept ==
  /\ expiry <= lastStart + Ttl /\ lastStart <= tick
  /\ starts = 0 => expiry = 0
  /\ \A w \in Workers :
       /\ loopAt[w] \in {"sleep", "run"} => tick <= due[w] + Lag
       /\ loopAt[w] = "run" => starts > 0 /\ due[w] <= lastStart + Longest
       /\ loopAt[w] = "sleep" /\ starts = 0
            => IF WaitFirst THEN due[w] \in Period .. 2 * Period ELSE due[w] <= Period
       /\ loopAt[w] = "sleep" /\ starts > 0 => due[w] < lastStart + Ttl + Period

(* While the lock holds, only the task itself fails.                       *)
LEMMA OnlyRunsFail ==
  ASSUME Holds, NEW w \in Workers, Fails(w)
  PROVE  /\ loopAt[w] = "run" /\ Logged(w)
         /\ UNCHANGED <<tick, expiry, repetitions, starts, lastStart>>
BY TtlIsNat DEF Holds, Fails

LEMMA CountedInit == TaskInit => Counted
<1> SUFFICES ASSUME TaskInit
             PROVE  Counted
  OBVIOUS
<1>1. TaskTyped
  BY TaskInvInit DEF TaskInv
<1>2. 0 \in 0..MaxRepetitions
  BY PeriodicAssumption
<1> QED
  BY <1>1, <1>2 DEF TaskInit, Counted

LEMMA CountedStep == Counted /\ [TaskNext]_taskVars => Counted'
<1> SUFFICES ASSUME Counted, [TaskNext]_taskVars
             PROVE  Counted'
  OBVIOUS
<1> USE PeriodicAssumption, TtlIsNat DEF Counted, TaskTyped, Loop
<1>1. CASE UNCHANGED taskVars
  BY <1>1 DEF taskVars
<1>2. CASE TaskTick
  BY <1>2 DEF TaskTick
<1>3. ASSUME NEW w \in Workers, Repeats(w)
      PROVE  repetitions' \in [Workers -> 0..MaxRepetitions]
  <2>1. repetitions[w] + 1 \in 0..MaxRepetitions
    BY <1>3 DEF Repeats
  <2> QED
    BY <1>3, <2>1 DEF Repeats
<1>4. ASSUME NEW w \in Workers, Acquire(w)
      PROVE  Counted'
  <2>1. PICK d \in RunTimes : due' = [due EXCEPT ![w] = tick + d]
    BY <1>4 DEF Acquire
  <2>2. tick + d \in Nat
    OBVIOUS
  <2>3. repetitions' \in [Workers -> 0..MaxRepetitions]
    BY <1>3, <1>4 DEF Acquire
  <2>4. loopAt' \in Loop
    BY <1>4 DEF Acquire
  <2>5. tick' \in Nat /\ expiry' \in Nat /\ starts' \in Nat /\ lastStart' \in Nat
    BY <1>4 DEF Acquire
  <2> QED
    BY <2>1, <2>2, <2>3, <2>4, <2>5
<1>5. ASSUME NEW w \in Workers, Skip(w)
      PROVE  Counted'
  <2>1. repetitions' \in [Workers -> 0..MaxRepetitions]
    BY <1>3, <1>5 DEF Skip
  <2> QED
    BY <1>5, <2>1, SleepMoves DEF Skip
<1>6. ASSUME NEW w \in Workers, Finish(w)
      PROVE  Counted'
  BY <1>6 DEF Finish, SleepPeriod
<1>7. ASSUME NEW w \in Workers, Fails(w)
      PROVE  Counted'
  <2>1. repetitions' \in [Workers -> 0..MaxRepetitions]
    BY <1>3, <1>7 DEF Fails
  <2>2. expiry' \in Nat /\ tick' = tick /\ starts' = starts /\ lastStart' = lastStart
    BY <1>7 DEF Fails
  <2>3. loopAt' \in Loop /\ due' \in [Workers -> Nat]
    BY <1>7 DEF Fails, Logged, SleepPeriod
  <2> QED
    BY <2>1, <2>2, <2>3
<1>8. ASSUME NEW w \in Workers, Ends(w) \/ Dies(w)
      PROVE  Counted'
  BY <1>8 DEF Ends, Dies
<1> QED
  BY <1>1, <1>2, <1>4, <1>5, <1>6, <1>7, <1>8 DEF TaskNext

LEMMA RepetitionsStep ==
  Holds /\ Counted /\ RepetitionsRun /\ [TaskNext]_taskVars => RepetitionsRun'
<1> SUFFICES ASSUME Holds, Counted, RepetitionsRun, [TaskNext]_taskVars
             PROVE  RepetitionsRun'
  OBVIOUS
<1> USE PeriodicAssumption, TtlIsNat DEF Counted, TaskTyped, Loop, RepetitionsRun
<1>1. CASE UNCHANGED taskVars
  BY <1>1 DEF taskVars
<1>2. CASE TaskTick
  BY <1>2 DEF TaskTick
<1>3. ASSUME NEW w \in Workers, Acquire(w)
      PROVE  RepetitionsRun'
  BY <1>3 DEF Acquire, Repeats
<1>4. ASSUME NEW w \in Workers, Skip(w)
      PROVE  RepetitionsRun'
  <2>1. repetitions[w] < starts
    BY <1>4 DEF Skip, Repeats, Due
  <2> QED
    BY <1>4, <2>1 DEF Skip, Repeats, SleepPeriod, Holds
<1>5. ASSUME NEW w \in Workers, SleepPeriod(w), UNCHANGED <<tick, expiry, repetitions, starts>>
      PROVE  RepetitionsRun'
  BY <1>5 DEF SleepPeriod, Holds
<1>6. ASSUME NEW w \in Workers, Finish(w)
      PROVE  RepetitionsRun'
  BY <1>5, <1>6 DEF Finish
<1>7. ASSUME NEW w \in Workers, Fails(w)
      PROVE  RepetitionsRun'
  <2>1. CASE RaiseExceptions
    BY <1>7, <2>1, OnlyRunsFail DEF Logged
  <2>2. CASE ~ RaiseExceptions
    BY <1>5, <1>7, <2>2, OnlyRunsFail DEF Logged
  <2> QED
    BY <2>1, <2>2
<1>8. ASSUME NEW w \in Workers, Ends(w) \/ Dies(w)
      PROVE  RepetitionsRun'
  BY <1>8 DEF Ends, Dies
<1> QED
  BY <1>1, <1>2, <1>3, <1>4, <1>6, <1>7, <1>8 DEF TaskNext

LEMMA GapStep ==
  Short /\ Holds /\ Counted /\ GapKept /\ [TaskNext]_taskVars => GapKept'
<1> SUFFICES ASSUME Short, Holds, Counted, GapKept, [TaskNext]_taskVars
             PROVE  GapKept'
  OBVIOUS
<1> USE PeriodicAssumption, TtlIsNat DEF Counted, TaskTyped, Loop, GapKept
<1>0. Longest \in Nat /\ Longest + Lag < Ttl /\ \A d \in RunTimes : d <= Longest
  BY LongestIsLongest DEF Short
<1>1. CASE UNCHANGED taskVars
  BY <1>1 DEF taskVars
<1>2. CASE TaskTick
  BY <1>2 DEF TaskTick
<1>3. ASSUME NEW w \in Workers, Acquire(w)
      PROVE  GapKept'
  <2>1. PICK d \in RunTimes : due' = [due EXCEPT ![w] = tick + d]
    BY <1>3 DEF Acquire
  <2>2. d \in Nat /\ d <= Longest
    BY <1>0
  <2>3. /\ tick' = tick /\ expiry' = tick + Ttl /\ starts' = starts + 1 /\ lastStart' = tick
        /\ loopAt[w] = "sleep" /\ tick >= due[w] /\ loopAt' = [loopAt EXCEPT ![w] = "run"]
    BY <1>3 DEF Acquire, Repeats, Due
  <2>4. \A v \in Workers \ {w} : loopAt'[v] = loopAt[v] /\ due'[v] = due[v]
    BY <2>1, <2>3
  <2>5. loopAt'[w] = "run" /\ due'[w] = tick + d
    BY <2>1, <2>3
  <2>6. ASSUME NEW v \in Workers \ {w}, loopAt[v] = "sleep"
        PROVE  due[v] < tick + Ttl + Period
    <3>1. CASE starts > 0
      BY <2>6, <3>1
    <3>2. CASE starts = 0 /\ WaitFirst
      BY <2>3, <2>6, <3>2 DEF Holds
    <3>3. CASE starts = 0 /\ ~ WaitFirst
      BY <2>3, <2>6, <3>3 DEF Holds
    <3> QED
      BY <3>1, <3>2, <3>3
  <2>7. ASSUME NEW v \in Workers \ {w}, loopAt[v] = "run"
        PROVE  due[v] <= tick + Longest
    BY <1>0, <2>7
  <2> QED
    BY <1>0, <2>2, <2>3, <2>4, <2>5, <2>6, <2>7
<1>5. ASSUME NEW w \in Workers, SleepPeriod(w), tick < lastStart + Ttl, starts > 0,
             UNCHANGED <<tick, expiry, starts, lastStart>>
      PROVE  GapKept'
  BY <1>5 DEF SleepPeriod
<1>4. ASSUME NEW w \in Workers, Skip(w)
      PROVE  GapKept'
  BY <1>4, <1>5 DEF Skip
<1>6. ASSUME NEW w \in Workers, loopAt[w] = "run"
      PROVE  tick < lastStart + Ttl /\ starts > 0
  BY <1>0, <1>6
<1>7. ASSUME NEW w \in Workers, Finish(w)
      PROVE  GapKept'
  BY <1>5, <1>6, <1>7 DEF Finish
<1>8. ASSUME NEW w \in Workers, Fails(w)
      PROVE  GapKept'
  <2>1. CASE RaiseExceptions
    BY <1>8, <2>1, OnlyRunsFail DEF Logged
  <2>2. CASE ~ RaiseExceptions
    BY <1>5, <1>6, <1>8, <2>2, OnlyRunsFail DEF Logged
  <2> QED
    BY <2>1, <2>2
<1>9. ASSUME NEW w \in Workers, Ends(w) \/ Dies(w)
      PROVE  GapKept'
  BY <1>9 DEF Ends, Dies
<1> QED
  BY <1>1, <1>2, <1>3, <1>4, <1>7, <1>8, <1>9 DEF TaskNext

LEMMA RepetitionsGivesKept == Counted /\ RepetitionsRun => RepetitionsKept
BY PeriodicAssumption DEF Counted, RepetitionsRun, RepetitionsKept

LEMMA GapGivesBounded == Short /\ Counted /\ GapKept => GapBounded
BY PeriodicAssumption, TtlIsNat DEF Counted, TaskTyped, GapKept, GapBounded

(* TaskGoesOn (repeat.py:84-107): skipped repetitions are made up for by   *)
(* another process's runs, and a loop with repetitions left starts the task*)
(* within a TTL and a period of its last start, for any number of          *)
(* processes, whoever dies or raises.  Assumed is only that the task has a *)
(* longest run, as one with a timeout has.                                 *)
THEOREM TaskGoesOnHolds ==
  ASSUME \E d \in RunTimes : \A e \in RunTimes : e <= d
  PROVE  TaskSpec => []TaskGoesOn
<1>1. TaskSpec => []Counted
  BY CountedInit, CountedStep, PTL DEF TaskSpec
<1>2. TaskSpec => []RepetitionsKept
  <2>1. CASE Holds
    <3>1. TaskInit => RepetitionsRun
      BY <2>1, CountedInit, TtlIsNat DEF TaskInit, Counted, TaskTyped, RepetitionsRun
    <3>2. Counted /\ RepetitionsRun /\ [TaskNext]_taskVars => RepetitionsRun'
      BY <2>1, RepetitionsStep
    <3> QED
      BY <1>1, <3>1, <3>2, RepetitionsGivesKept, PTL DEF TaskSpec
  <2>2. CASE ~ Holds
    <3>1. RepetitionsKept /\ RepetitionsKept'
      BY <2>2 DEF RepetitionsKept, Holds, Ttl
    <3> QED
      BY <3>1, PTL
  <2> QED
    BY <2>1, <2>2
<1>3. TaskSpec => []GapBounded
  <2>1. CASE Short /\ Holds
    <3>1. TaskInit => GapKept
      BY <2>1, CountedInit, TtlIsNat, PeriodicAssumption DEF TaskInit, Counted, TaskTyped, GapKept
    <3>2. Counted /\ GapKept /\ [TaskNext]_taskVars => GapKept'
      BY <2>1, GapStep
    <3>3. Counted /\ GapKept => GapBounded
      BY <2>1, GapGivesBounded
    <3> QED
      BY <1>1, <3>1, <3>2, <3>3, PTL DEF TaskSpec
  <2>2. CASE ~ (Short /\ Holds)
    <3>1. GapBounded /\ GapBounded'
      BY <2>2 DEF GapBounded, Short
    <3> QED
      BY <3>1, PTL
  <2> QED
    BY <2>1, <2>2
<1> QED
  BY <1>2, <1>3, PTL DEF TaskGoesOn

-------------------------------------------------------------------------------
(***************************************************************************)
(* What a call of a subscriber tells the lifecycle is true, and its layers *)
(* of retries run the handler no more often than they allow and not after  *)
(* the call is over: for any members, attempts, errors and cancellations.  *)
(* The example services lose no event between them, and handle one again   *)
(* only after a fault of their own: for any orders, branches and faults.   *)
(***************************************************************************)

Places == {"filter", "authorize", "handle", "pause", "draining", "on_error", "on_success", "over"}

Calls == [at : Places, error : HandlerErrors \union HookErrors \union {"none"},
          end : {"none", "skipped", "ok", "raised", "cancelled"}]

Branch == [at : {"off", "ok", "failed"} \union InProgress,
           attempt : 0..InnerAttempts, error : HandlerErrors \union {"none"}]

ChainTyped ==
  /\ chain.kind \in {"plain", "fast", "all"} /\ chain.members \subseteq Members
  /\ call \in Calls
  /\ attempt \in 0..OuterAttempts
  /\ branch \in [chain.members -> Branch]
  /\ strays \in Nat /\ runs \in Nat

(* A member is at work only while the call handles, or waits for it to get *)
(* through with its cancellation; it pauses only with an attempt left.     *)
BranchesKept ==
  \A m \in chain.members :
    /\ branch[m].at \in {"running", "pause"} => call.at = "handle"
    /\ branch[m].at = "cancelling" => call.at = "draining"
    /\ branch[m].at = "pause" => branch[m].attempt < InnerAttempts
    /\ branch[m].at = "failed" => branch[m].error \in HandlerErrors

(* A hook is told once, at the end, and of what the last attempt was.      *)
CallKept ==
  /\ call.at \in {"filter", "authorize", "pause"} => attempt < OuterAttempts
  /\ call.at = "handle" => attempt > 0
  /\ call.at = "over" <=> call.end # "none"
  /\ call.at # "over" => notified = {}
  /\ call.at = "on_success" => (chain.kind # "all" => Failed = {})
  /\ call.at = "on_error" => call.error \in HandlerErrors
  /\ chain.kind # "fast" => strays = 0

ChainInv == ChainTyped /\ BranchesKept /\ CallKept /\ OutcomeIsTrue

LEMMA WorkingIsFinite ==
  ASSUME ChainTyped
  PROVE  /\ IsFiniteSet(chain.members) /\ IsFiniteSet(Working)
         /\ Cardinality(chain.members) \in Nat /\ Cardinality(Working) \in Nat
<1>1. IsFiniteSet(chain.members)
  BY FS_Subset, ChainAssumption DEF ChainTyped
<1>2. IsFiniteSet(Working)
  BY <1>1, FS_Subset DEF Working
<1> QED
  BY <1>1, <1>2, FS_CardinalityType

LEMMA NobodyWorks ==
  ASSUME BranchesKept, call.at \notin {"handle", "draining"}
  PROVE  Working = {}
BY DEF BranchesKept, Working, InProgress

(* The call goes to another place, or fails there with an error at hand.   *)
LEMMA Goes ==
  ASSUME call \in Calls, NEW place \in Places
  PROVE  LET c == [call EXCEPT !.at = place] IN
         c \in Calls /\ c.at = place /\ c.error = call.error /\ c.end = call.end
BY DEF Calls

LEMMA CallFails ==
  ASSUME call \in Calls, NEW error \in HandlerErrors, Failing(error)
  PROVE  call' \in Calls /\ call'.at = "on_error" /\ call'.error = error /\ call'.end = call.end
BY DEF Failing, Calls, Places

LEMMA ChainInvInit == ChainInit => ChainInv
<1> SUFFICES ASSUME ChainInit
             PROVE  ChainInv
  OBVIOUS
<1>1. PICK k \in ChainKinds : chain = [kind |-> k, members |-> IF k = "plain" THEN {CHOOSE m \in Members : TRUE} ELSE Members]
  BY DEF ChainInit
<1>2. chain.kind \in {"plain", "fast", "all"} /\ chain.members \subseteq Members
  BY <1>1, ChainAssumption
<1>3. ChainTyped
  BY <1>2, ChainAssumption DEF ChainInit, ChainTyped, Places, Calls, Branch, Off, InProgress
<1>4. BranchesKept /\ CallKept
  BY ChainAssumption DEF ChainInit, BranchesKept, CallKept, Off
<1> QED
  BY <1>3, <1>4 DEF ChainInv, ChainInit, OutcomeIsTrue, ReturnMeansHandled, ErrorReachesDispatch

(* The steps of a member leave the call as it is, and no member fails or   *)
(* works that the call does not wait for.                                  *)
LEMMA MemberKeeps ==
  ASSUME ChainInv, NEW m \in chain.members, NEW b \in Branch,
         branch[m].at \in InProgress, branch' = [branch EXCEPT ![m] = b],
         b.at \in {"running", "pause"} => call.at = "handle",
         b.at # "cancelling",
         b.at = "pause" => b.attempt < InnerAttempts,
         b.at = "failed" => b.error \in HandlerErrors,
         runs' \in Nat, UNCHANGED <<chain, call, attempt, strays, notified>>
  PROVE  ChainInv'
<1>1. branch' \in [chain.members -> Branch]
  BY DEF ChainInv, ChainTyped
<1>2. \A n \in chain.members : branch'[n] = IF n = m THEN b ELSE branch[n]
  BY DEF ChainInv, ChainTyped
<1>3. call.at \in {"handle", "draining"}
  BY DEF ChainInv, BranchesKept, InProgress
<1>4. ChainTyped'
  BY <1>1 DEF ChainInv, ChainTyped
<1>5. BranchesKept'
  BY <1>2 DEF ChainInv, BranchesKept
<1>6. CallKept' /\ OutcomeIsTrue'
  BY <1>3 DEF ChainInv, CallKept, OutcomeIsTrue, ReturnMeansHandled, ErrorReachesDispatch
<1> QED
  BY <1>4, <1>5, <1>6 DEF ChainInv

LEMMA MemberSteps ==
  ASSUME ChainInv, NEW m \in chain.members,
         \/ InnerRetry(m) \/ CancelledEnds(m)
         \/ \E error \in HandlerErrors \union {"none"} : HandlerEnds(m, error)
  PROVE  ChainInv'
<1>0. branch[m] \in Branch
  BY DEF ChainInv, ChainTyped
<1>1. CASE InnerRetry(m)
  <2> DEFINE b == [branch[m] EXCEPT !.at = "running", !.attempt = @ + 1]
  <2>1. branch' = [branch EXCEPT ![m] = b] /\ call.at = "handle" /\ runs' = runs + 1
    BY <1>1 DEF InnerRetry, ChainInv, ChainTyped, BranchesKept
  <2>2. branch[m].attempt + 1 \in 0..InnerAttempts
    BY <1>0, <1>1, ChainAssumption DEF InnerRetry, ChainInv, BranchesKept, Branch
  <2>3. b \in Branch /\ b.at = "running"
    BY <1>0, <2>2 DEF Branch, InProgress
  <2>4. branch[m].at \in InProgress /\ runs' \in Nat
    BY <1>1, <2>1 DEF InnerRetry, InProgress, ChainInv, ChainTyped
  <2> HIDE DEF b
  <2> QED
    BY <1>1, <2>1, <2>3, <2>4, MemberKeeps DEF InnerRetry
<1>2. CASE CancelledEnds(m)
  <2>1. Off \in Branch
    BY ChainAssumption DEF Off, Branch
  <2> QED
    BY <1>2, <2>1, MemberKeeps DEF CancelledEnds, InProgress, Off, ChainInv, ChainTyped
<1>3. ASSUME NEW error \in HandlerErrors \union {"none"}, HandlerEnds(m, error)
      PROVE  ChainInv'
  <2> DEFINE at == IF error = "none" THEN "ok" ELSE IF GivesUp(branch[m].attempt, InnerAttempts) THEN "failed" ELSE "pause"
             b == [branch[m] EXCEPT !.error = error, !.at = at]
  <2>1. branch' = [branch EXCEPT ![m] = b] /\ call.at = "handle" /\ branch[m].at = "running"
    BY <1>3 DEF HandlerEnds, ChainInv, ChainTyped, BranchesKept
  <2>2. /\ at \in {"ok", "failed", "pause"} /\ (at = "failed" => error \in HandlerErrors)
        /\ at = "pause" => branch[m].attempt < InnerAttempts
    BY <1>0, ChainAssumption DEF GivesUp, Branch
  <2>3. /\ b \in Branch /\ b.at \in {"ok", "failed", "pause"}
        /\ b.at = "failed" => b.error \in HandlerErrors
        /\ b.at = "pause" => b.attempt < InnerAttempts
    <3> HIDE DEF at
    <3> QED
      BY <1>0, <2>2 DEF Branch, InProgress
  <2> HIDE DEF b
  <2> QED
    BY <1>3, <2>1, <2>3, MemberKeeps DEF HandlerEnds, InProgress, ChainInv, ChainTyped
<1> QED
  BY <1>1, <1>2, <1>3

(* The call moves on while no member is at work; the members stay as they  *)
(* are.                                                                    *)
LEMMA CallMoves ==
  ASSUME ChainInv, call.at \notin {"handle", "draining", "over"},
         call' \in Calls,
         UNCHANGED <<chain, attempt, branch, strays, runs>>
  PROVE  ChainTyped' /\ BranchesKept' /\ Working' = {} /\ Failed' = Failed
<1>1. ChainTyped' /\ Failed' = Failed
  BY DEF ChainInv, ChainTyped, Failed
<1>2. \A m \in chain.members : branch[m].at \notin InProgress
  BY DEF ChainInv, BranchesKept, InProgress
<1>3. BranchesKept' /\ Working' = {}
  BY <1>2 DEF ChainInv, BranchesKept, Working, InProgress
<1> QED
  BY <1>1, <1>3

LEMMA CheckMoves ==
  ASSUME ChainInv, NEW answer \in {"yes", "no"} \union HandlerErrors, Check(answer)
  PROVE  /\ call' \in Calls
         /\ \/ call'.at = "over" /\ call'.end = "skipped"
            \/ call'.at \in {"authorize", "pause"} /\ call'.end = call.end
            \/ call'.at = "on_error" /\ call'.error \in HandlerErrors /\ call'.end = call.end
<1>0. call \in Calls /\ call.at \in {"filter", "authorize"}
  BY DEF Check, ChainInv, ChainTyped
<1>1. CASE Over("skipped", "none")
  BY <1>1 DEF Over, Calls, Places
<1>2. ASSUME NEW place \in {"authorize", "pause"}, call' = [call EXCEPT !.at = place]
      PROVE  call' \in Calls /\ call'.at = place /\ call'.end = call.end
  BY <1>0, <1>2, Goes DEF Places
<1>3. CASE answer \in HandlerErrors /\ Failing(answer)
  BY <1>0, <1>3, CallFails
<1> QED
  BY <1>1, <1>2, <1>3 DEF Check

LEMMA CheckStep ==
  ASSUME ChainInv, NEW answer \in {"yes", "no"} \union HandlerErrors, Check(answer)
  PROVE  ChainInv'
<1>0. call.at \in {"filter", "authorize"}
  BY DEF Check
<1>1. /\ call' \in Calls
      /\ \/ call'.at = "over" /\ call'.end = "skipped"
         \/ call'.at \in {"authorize", "pause"} /\ call'.end = call.end
         \/ call'.at = "on_error" /\ call'.error \in HandlerErrors /\ call'.end = call.end
  BY CheckMoves
<1>2. ChainTyped' /\ BranchesKept' /\ Working' = {} /\ Failed' = Failed
  BY <1>0, <1>1, CallMoves DEF Check
<1>3. CallKept' /\ OutcomeIsTrue'
  BY <1>0, <1>1, <1>2
     DEF Check, ChainInv, CallKept, OutcomeIsTrue, ReturnMeansHandled, ErrorReachesDispatch
<1> QED
  BY <1>2, <1>3 DEF ChainInv

LEMMA HookStep ==
  ASSUME ChainInv, NEW error \in HookErrors \union {"none"}, HookEnds(error)
  PROVE  ChainInv'
<1>1. ChainTyped' /\ BranchesKept' /\ Working' = {} /\ Failed' = Failed
  <2>1. call' \in Calls
    BY DEF HookEnds, HookRaises, Over, Places, Calls, ChainInv, ChainTyped
  <2> QED
    BY <2>1, CallMoves DEF HookEnds
<1>2. CallKept' /\ OutcomeIsTrue'
  BY <1>1, ChainAssumption
     DEF HookEnds, HookRaises, Over, Calls, ChainInv, ChainTyped, CallKept, OutcomeIsTrue,
         ReturnMeansHandled, ErrorReachesDispatch
<1> QED
  BY <1>1, <1>2 DEF ChainInv

LEMMA AttemptStep ==
  ASSUME ChainInv, Attempt
  PROVE  ChainInv'
<1> DEFINE b == [at |-> "running", attempt |-> 1, error |-> "none"]
<1>1. b \in Branch
  BY ChainAssumption DEF Branch, InProgress
<1>2. call' \in Calls /\ call'.at = "handle" /\ call'.end = call.end /\ call.at = "pause"
  BY Goes DEF Attempt, ChainInv, ChainTyped, Places
<1>3. attempt' \in 0..OuterAttempts /\ attempt' > 0
  BY <1>2, ChainAssumption DEF Attempt, ChainInv, ChainTyped, CallKept
<1>4. ChainTyped'
  BY <1>1, <1>2, <1>3, WorkingIsFinite DEF Attempt, ChainInv, ChainTyped
<1>5. BranchesKept'
  BY <1>2 DEF Attempt, BranchesKept
<1>6. CallKept' /\ OutcomeIsTrue'
  BY <1>2, <1>3
     DEF Attempt, ChainInv, CallKept, OutcomeIsTrue, ReturnMeansHandled, ErrorReachesDispatch
<1> QED
  BY <1>4, <1>5, <1>6 DEF ChainInv

LEMMA GroupMoves ==
  ASSUME ChainInv, NEW error \in HandlerErrors \union {"none"}, GroupReturns(error)
  PROVE  /\ call' \in Calls /\ call'.end = call.end /\ call.at = "handle"
         /\ \/ call'.at = "on_success" /\ error = "none"
            \/ call'.at = "pause" /\ attempt < OuterAttempts
            \/ call'.at = "on_error" /\ call'.error \in HandlerErrors
<1>1. call \in Calls /\ call.at = "handle"
  BY DEF GroupReturns, ChainInv, ChainTyped
<1>2. ASSUME NEW place \in {"on_success", "pause"}, call' = [call EXCEPT !.at = place]
      PROVE  call' \in Calls /\ call'.at = place /\ call'.end = call.end
  BY <1>1, <1>2, Goes DEF Places
<1>3. CASE error = "none" /\ call' = [call EXCEPT !.at = "on_success"]
  BY <1>1, <1>2, <1>3
<1>4. CASE error # "none" /\ ~ GivesUp(attempt, OuterAttempts) /\ call' = [call EXCEPT !.at = "pause"]
  <2>1. attempt < OuterAttempts
    BY <1>4, ChainAssumption DEF GivesUp, ChainInv, ChainTyped
  <2> QED
    BY <1>1, <1>2, <1>4, <2>1
<1>5. CASE error # "none" /\ Failing(error)
  BY <1>1, <1>5, CallFails
<1> QED
  BY <1>3, <1>4, <1>5 DEF GroupReturns

LEMMA GroupStep ==
  ASSUME ChainInv, NEW error \in HandlerErrors \union {"none"}, GroupReturns(error)
  PROVE  ChainInv'
<1>1. \A m \in chain.members : branch'[m] = IF branch[m].at \in InProgress THEN Off ELSE branch[m]
  BY DEF GroupReturns, Working
<1>2. Working' = {} /\ Failed' = Failed
  BY <1>1 DEF GroupReturns, Working, Failed, InProgress, Off
<1>3. /\ call' \in Calls /\ call'.end = call.end /\ call.at = "handle"
      /\ \/ call'.at = "on_success" /\ error = "none"
         \/ call'.at = "pause" /\ attempt < OuterAttempts
         \/ call'.at = "on_error" /\ call'.error \in HandlerErrors
  BY GroupMoves
<1>4. ChainTyped'
  <2>1. branch' \in [chain.members -> Branch]
    BY ChainAssumption DEF GroupReturns, Off, Branch, ChainInv, ChainTyped
  <2> QED
    BY <1>3, <2>1, WorkingIsFinite DEF GroupReturns, ChainInv, ChainTyped
<1>5. BranchesKept'
  BY <1>1 DEF GroupReturns, ChainInv, BranchesKept, InProgress, Off
<1>6. error = "none" => (chain.kind # "all" => Failed = {})
  BY ChainAssumption DEF GroupReturns, Verdicts, Failed, ChainInv, BranchesKept
<1>7. chain.kind # "fast" => strays' = 0
  BY FS_EmptySet DEF GroupReturns, ChainInv, CallKept
<1>8. chain' = chain /\ attempt' = attempt /\ notified' = notified
  BY DEF GroupReturns
<1>9. CallKept' /\ OutcomeIsTrue'
  BY <1>2, <1>3, <1>6, <1>7, <1>8
     DEF ChainInv, CallKept, OutcomeIsTrue, ReturnMeansHandled, ErrorReachesDispatch
<1> QED
  BY <1>4, <1>5, <1>9 DEF ChainInv

LEMMA CancelStep ==
  ASSUME ChainInv, CancelCall
  PROVE  ChainInv'
<1>0. Off \in Branch
  BY ChainAssumption DEF Off, Branch
<1>1. CASE call.at # "handle" \/ Working = {} \/ LeavesBehind
  <2>1. /\ call' = [at |-> "over", error |-> "none", end |-> "cancelled"]
        /\ branch' = [m \in chain.members |-> Off]
        /\ strays' = strays + (IF call.at = "handle" THEN Cardinality(Working) ELSE 0)
        /\ UNCHANGED <<chain, attempt, runs, notified>>
    BY <1>1 DEF CancelCall, Over
  <2>2. ChainTyped'
    BY <1>0, <2>1, WorkingIsFinite DEF ChainInv, ChainTyped, Calls, Places
  <2>3. BranchesKept'
    BY <2>1 DEF BranchesKept, Off
  <2>4. chain.kind # "fast" => strays' = 0
    <3>1. Cardinality({}) = 0
      BY FS_EmptySet
    <3>2. ASSUME chain.kind # "fast", call.at = "handle"
          PROVE  Cardinality(Working) = 0
      BY <1>1, <3>1, <3>2 DEF LeavesBehind
    <3> QED
      BY <2>1, <3>2 DEF ChainInv, CallKept
  <2> QED
    BY <2>1, <2>2, <2>3, <2>4
       DEF ChainInv, CallKept, OutcomeIsTrue, ReturnMeansHandled, ErrorReachesDispatch
<1>2. CASE ~ (call.at # "handle" \/ Working = {} \/ LeavesBehind)
  <2>1. /\ call' = [call EXCEPT !.at = "draining"] /\ call.at = "handle" /\ UNCHANGED strays
        /\ branch' = [m \in chain.members |->
                        IF m \in Working THEN [branch[m] EXCEPT !.at = "cancelling"] ELSE Off]
        /\ UNCHANGED <<chain, attempt, runs, notified>>
    BY <1>2 DEF CancelCall
  <2>2. ASSUME NEW m \in chain.members
        PROVE  branch'[m] \in Branch /\ branch'[m].at \in {"cancelling", "off"}
    <3>1. branch[m] \in Branch
      BY DEF ChainInv, ChainTyped
    <3> QED
      BY <1>0, <2>1, <3>1 DEF Branch, InProgress, Off
  <2>3. call' \in Calls /\ call'.at = "draining" /\ call'.end = call.end
    BY <2>1, Goes DEF ChainInv, ChainTyped, Places
  <2>4. branch' \in [chain.members -> Branch]
    BY <2>1, <2>2
  <2>5. ChainTyped'
    BY <2>1, <2>3, <2>4 DEF ChainInv, ChainTyped
  <2>6. BranchesKept'
    BY <2>1, <2>2, <2>3 DEF BranchesKept
  <2>7. CallKept' /\ OutcomeIsTrue'
    BY <2>1, <2>3
       DEF ChainInv, CallKept, OutcomeIsTrue, ReturnMeansHandled, ErrorReachesDispatch
  <2> QED
    BY <2>5, <2>6, <2>7 DEF ChainInv
<1> QED
  BY <1>1, <1>2

LEMMA ChainInvStep == ChainInv /\ [ChainNext]_chainVars => ChainInv'
<1> SUFFICES ASSUME ChainInv, [ChainNext]_chainVars
             PROVE  ChainInv'
  OBVIOUS
<1>1. CASE UNCHANGED chainVars
  BY <1>1
     DEF chainVars, ChainInv, ChainTyped, BranchesKept, CallKept, OutcomeIsTrue, ReturnMeansHandled,
         ErrorReachesDispatch, Working, Failed
<1>2. CASE StrayEnds
  BY <1>2
     DEF StrayEnds, ChainInv, ChainTyped, BranchesKept, CallKept, OutcomeIsTrue, ReturnMeansHandled,
         ErrorReachesDispatch, Working, Failed
<1>3. CASE Drained
  BY <1>3
     DEF Drained, Over, ChainInv, ChainTyped, Calls, Places, BranchesKept, CallKept, OutcomeIsTrue,
         ReturnMeansHandled, ErrorReachesDispatch, Working, Failed, InProgress
<1> QED
  BY <1>1, <1>2, <1>3, CheckStep, HookStep, AttemptStep, GroupStep, CancelStep, MemberSteps DEF ChainNext

(* OutcomeIsTrue (base.py:67-95, middleware.py:39-98): a call that returns *)
(* as handled was handled in every member of its last attempt, and the     *)
(* error the lifecycle gets is the handler's, of which on_error was told,  *)
(* or a hook's own; for any middlewares, attempts, errors and moments of   *)
(* cancellation.                                                           *)
THEOREM OutcomeIsTrueHolds == ChainSpec => []OutcomeIsTrue
<1>1. ChainInv => OutcomeIsTrue
  BY DEF ChainInv
<1> QED
  BY <1>1, ChainInvInit, ChainInvStep, PTL DEF ChainSpec
-------------------------------------------------------------------------------
(* The attempts the members have made in this round, and all they may make.*)
Made == {p \in chain.members \X (1..InnerAttempts) : p[2] <= branch[p[1]].attempt}

PerRound == InnerAttempts * Cardinality(chain.members)

(* Every run so far was one of an earlier round or is one of this one's.   *)
RunsKept ==
  IF call.at = "handle" THEN runs <= (attempt - 1) * PerRound + Cardinality(Made)
                        ELSE runs <= attempt * PerRound

LEMMA MadeIsBounded ==
  ASSUME ChainTyped
  PROVE  /\ IsFiniteSet(Made) /\ Cardinality(Made) \in Nat
         /\ PerRound \in Nat /\ Cardinality(Made) <= PerRound
<1> DEFINE All == chain.members \X (1..InnerAttempts)
<1>1. IsFiniteSet(1..InnerAttempts) /\ Cardinality(1..InnerAttempts) = InnerAttempts
  BY FS_Interval, ChainAssumption
<1>2. IsFiniteSet(All) /\ Cardinality(All) = Cardinality(chain.members) * InnerAttempts
  BY <1>1, FS_Product, WorkingIsFinite
<1>3. Made \in SUBSET All
  BY DEF Made
<1>4. IsFiniteSet(Made) /\ Cardinality(Made) <= Cardinality(All)
  <2> HIDE DEF All
  <2> QED
    BY <1>2, <1>3, FS_Subset
<1>5. Cardinality(Made) \in Nat
  BY <1>4, FS_CardinalityType
<1> QED
  BY <1>2, <1>4, <1>5, WorkingIsFinite, ChainAssumption DEF PerRound

LEMMA NextRound ==
  ASSUME NEW a \in Nat, NEW n \in Nat
  PROVE  (a - 1) * n + n = a * n /\ ((a + 1) - 1) * n = a * n /\ a * n \in Nat /\ (a - 1) * n \in Int
OBVIOUS

LEMMA MoreRounds ==
  ASSUME NEW a \in Nat, NEW b \in Nat, NEW n \in Nat, a <= b
  PROVE  a * n <= b * n
<1>1. b - a \in Nat
  OBVIOUS
<1>2. (b - a) * n \in Nat
  BY <1>1
<1>3. b * n = a * n + (b - a) * n
  OBVIOUS
<1> QED
  BY <1>2, <1>3

(* Whatever the round has made, it fits into the rounds made so far.       *)
LEMMA RunsInRounds ==
  ASSUME ChainTyped, RunsKept
  PROVE  runs <= attempt * PerRound
<1>1. attempt \in Nat /\ runs \in Nat
  BY ChainAssumption DEF ChainTyped
<1>2. /\ (attempt - 1) * PerRound + PerRound = attempt * PerRound
      /\ attempt * PerRound \in Nat /\ (attempt - 1) * PerRound \in Int
  BY <1>1, NextRound, MadeIsBounded
<1> QED
  BY <1>1, <1>2, MadeIsBounded DEF RunsKept

LEMMA RunsInit == ChainInit => RunsKept
<1> SUFFICES ASSUME ChainInit
             PROVE  RunsKept
  OBVIOUS
<1>1. PerRound \in Nat
  BY ChainInvInit, MadeIsBounded DEF ChainInv
<1> QED
  BY <1>1 DEF ChainInit, RunsKept

LEMMA RunsStep == ChainInv /\ RunsKept /\ [ChainNext]_chainVars => RunsKept'
<1> SUFFICES ASSUME ChainInv, RunsKept, [ChainNext]_chainVars
             PROVE  RunsKept'
  OBVIOUS
<1>1. ChainInv'
  BY ChainInvStep
<1>2. /\ attempt \in Nat /\ runs \in Nat /\ attempt' \in Nat
      /\ PerRound \in Nat /\ runs <= attempt * PerRound /\ attempt * PerRound \in Nat
  BY <1>1, MadeIsBounded, RunsInRounds, NextRound, ChainAssumption DEF ChainInv, ChainTyped
<1>3. ASSUME UNCHANGED <<chain, attempt, runs>>, call'.at # "handle"
      PROVE  RunsKept'
  BY <1>2, <1>3 DEF RunsKept, PerRound
<1>4. ASSUME UNCHANGED <<chain, call, attempt, runs>>,
             \A m \in chain.members : branch'[m].attempt = branch[m].attempt
      PROVE  RunsKept'
  <2>1. Made' = Made /\ PerRound' = PerRound
    BY <1>4 DEF Made, PerRound
  <2> QED
    BY <1>4, <2>1 DEF RunsKept
<1>5. CASE UNCHANGED chainVars
  BY <1>4, <1>5 DEF chainVars
<1>6. CASE StrayEnds \/ Drained
  BY <1>3, <1>4, <1>6 DEF StrayEnds, Drained, Over
<1>7. CASE CancelCall
  <2>1. call \in Calls
    BY DEF ChainInv, ChainTyped
  <2>2. call'.at # "handle"
    <3>1. CASE Over("cancelled", "none")
      BY <3>1 DEF Over
    <3>2. CASE call' = [call EXCEPT !.at = "draining"]
      BY <2>1, <3>2, Goes DEF Places
    <3> QED
      BY <1>7, <3>1, <3>2 DEF CancelCall
  <2> QED
    BY <1>3, <1>7, <2>2 DEF CancelCall
<1>8. ASSUME NEW answer \in {"yes", "no"} \union HandlerErrors, Check(answer)
      PROVE  RunsKept'
  BY <1>3, <1>8, CheckMoves DEF Check
<1>9. ASSUME NEW error \in HandlerErrors \union {"none"}, GroupReturns(error)
      PROVE  RunsKept'
  BY <1>3, <1>9, GroupMoves DEF GroupReturns
<1>10. ASSUME NEW error \in HookErrors \union {"none"}, HookEnds(error)
       PROVE  RunsKept'
  BY <1>3, <1>10 DEF HookEnds, HookRaises, Over
<1>11. CASE Attempt
  <2>1. /\ attempt' = attempt + 1 /\ chain' = chain /\ runs' = runs + Cardinality(chain.members)
        /\ \A m \in chain.members : branch'[m].attempt = 1
    BY <1>11 DEF Attempt
  <2>2. Made' = chain.members \X {1}
    BY <2>1, ChainAssumption DEF Made
  <2>3. Cardinality(Made') = Cardinality(chain.members) /\ Cardinality(chain.members) \in Nat
    <3>1. IsFiniteSet({1}) /\ Cardinality({1}) = 1
      BY FS_Singleton
    <3>2. Cardinality(chain.members \X {1}) = Cardinality(chain.members) * 1
      BY <3>1, FS_Product, WorkingIsFinite DEF ChainInv
    <3> QED
      BY <2>2, <3>2, WorkingIsFinite DEF ChainInv
  <2>4. (attempt' - 1) * PerRound' = attempt * PerRound
    BY <1>2, <2>1, NextRound DEF PerRound
  <2>5. call'.at = "handle"
    BY <1>11, Goes DEF Attempt, ChainInv, ChainTyped, Places
  <2> QED
    BY <1>2, <2>1, <2>3, <2>4, <2>5 DEF RunsKept
<1>12. ASSUME NEW m \in chain.members, InnerRetry(m)
       PROVE  RunsKept'
  <2>1. /\ branch[m] \in Branch /\ branch[m].at = "pause" /\ branch[m].attempt < InnerAttempts
        /\ call.at = "handle"
    BY <1>12 DEF InnerRetry, ChainInv, ChainTyped, BranchesKept
  <2> DEFINE new == <<m, branch[m].attempt + 1>>
  <2>2. /\ branch'[m].attempt = branch[m].attempt + 1
        /\ \A n \in chain.members : n # m => branch'[n] = branch[n]
    BY <1>12, <2>1 DEF InnerRetry, ChainInv, ChainTyped, Branch
  <2>3. branch[m].attempt \in Nat /\ branch[m].attempt + 1 \in 1..InnerAttempts
    BY <2>1, ChainAssumption DEF Branch
  <2>4. /\ chain' = chain /\ call' = call /\ attempt' = attempt /\ runs' = runs + 1
    BY <1>12 DEF InnerRetry
  <2>5. Made' = Made \union {new}
    <3>1. ASSUME NEW n \in chain.members, NEW i \in 1..InnerAttempts
          PROVE  i <= branch'[n].attempt <=> i <= branch[n].attempt \/ <<n, i>> = new
      BY <2>2, <2>3
    <3> QED
      BY <2>3, <2>4, <3>1 DEF Made
  <2>6. new \notin Made
    BY <2>3 DEF Made
  <2>7. Cardinality(Made') = Cardinality(Made) + 1
    <3> HIDE DEF new
    <3> QED
      BY <2>5, <2>6, FS_AddElement, MadeIsBounded DEF ChainInv
  <2>8. (attempt - 1) * PerRound \in Int /\ Cardinality(Made) \in Nat
    BY <1>2, NextRound, MadeIsBounded DEF ChainInv
  <2> QED
    BY <1>2, <2>1, <2>4, <2>7, <2>8 DEF RunsKept, PerRound
<1>13. ASSUME NEW m \in chain.members, CancelledEnds(m)
       PROVE  RunsKept'
  BY <1>3, <1>13 DEF CancelledEnds, ChainInv, BranchesKept
<1>14. ASSUME NEW m \in chain.members, NEW error \in HandlerErrors \union {"none"}, HandlerEnds(m, error)
       PROVE  RunsKept'
  <2>1. \A n \in chain.members : branch'[n].attempt = branch[n].attempt
    BY <1>14 DEF HandlerEnds, ChainInv, ChainTyped, Branch
  <2> QED
    BY <1>4, <1>14, <2>1 DEF HandlerEnds
<1> QED
  BY <1>5, <1>6, <1>7, <1>8, <1>9, <1>10, <1>11, <1>12, <1>13, <1>14 DEF ChainNext

LEMMA KeptMeansAccounted == ChainInv /\ RunsKept => RunsAccounted
<1> SUFFICES ASSUME ChainInv, RunsKept
             PROVE  RunsAccounted
  OBVIOUS
<1>1. NothingRunsOn
  BY NobodyWorks DEF ChainInv, CallKept, NothingRunsOn
<1>2. RunsBounded
  <2>1. /\ attempt \in Nat /\ attempt <= OuterAttempts /\ runs \in Nat /\ PerRound \in Nat
        /\ Cardinality(chain.members) \in Nat
    BY MadeIsBounded, WorkingIsFinite, ChainAssumption DEF ChainInv, ChainTyped
  <2>2. runs <= attempt * PerRound
    BY RunsInRounds DEF ChainInv
  <2>3. attempt * PerRound <= OuterAttempts * PerRound /\ attempt * PerRound \in Nat
    BY <2>1, MoreRounds, NextRound, ChainAssumption
  <2>4. OuterAttempts * PerRound = OuterAttempts * InnerAttempts * Cardinality(chain.members)
    BY <2>1, ChainAssumption DEF PerRound
  <2>5. OuterAttempts * PerRound \in Nat
    BY <2>1, NextRound, ChainAssumption
  <2> QED
    BY <2>1, <2>2, <2>3, <2>4, <2>5 DEF RunsBounded
<1> QED
  BY <1>1, <1>2 DEF RunsAccounted

(* RunsAccounted (middleware.py:39-64, retry.py:67-82): the two layers of  *)
(* retries never run the handler more often than their product for each    *)
(* member, and when the call is over no run goes on but those a group with *)
(* fail_fast left behind.                                                  *)
THEOREM RunsAccountedHolds == ChainSpec => []RunsAccounted
<1>1. ChainInv /\ RunsKept /\ [ChainNext]_chainVars => ChainInv' /\ RunsKept'
  BY ChainInvStep, RunsStep
<1> QED
  BY <1>1, ChainInvInit, RunsInit, KeptMeansAccounted, PTL DEF ChainSpec
-------------------------------------------------------------------------------
Messages == [service : Services, order : Orders, copy : Nat, receives : Nat]

Counts == [Services -> [Orders -> Nat]]

FanTyped ==
  /\ demo \in {"fanout", "saga"}
  /\ queues \subseteq Messages /\ busy \subseteq [msg : Messages, done : Nat]
  /\ copies \in Counts /\ successes \in Counts /\ faults \in [Services -> Nat]

(* Two deliveries are of the same event for the same service.              *)
Same(v, w) == v.msg.service = w.msg.service /\ v.msg.order = w.msg.order

(* What a service is at work on waits in its queue, is claimed, and only   *)
(* once; the branches it counts as done have been sent the order.          *)
BusyKept ==
  /\ \A w \in busy :
       /\ w.msg \in queues /\ <<w.msg.service, w.msg.order>> \in held
       /\ w.done <= Len(NextServices(w.msg.service))
       /\ \A i \in 1..w.done : copies[NextServices(w.msg.service)[i]][w.msg.order] > 0
  /\ \A v, w \in busy : Same(v, w) => v = w

(* A claim stands for a success or for somebody at work.                   *)
HeldKept ==
  \A s \in Services, o \in Orders :
    <<s, o>> \in held => \/ successes[s][o] > 0
                         \/ \E w \in busy : w.msg.service = s /\ w.msg.order = o

(* A service whose faults do not allow for one more success holds the claim*)
(* and is not at work.                                                     *)
BudgetKept ==
  \A s \in Services, o \in Orders :
    /\ successes[s][o] <= 1 + faults[s]
    /\ successes[s][o] = 1 + faults[s] =>
         /\ <<s, o>> \in held
         /\ \A w \in busy : ~ (w.msg.service = s /\ w.msg.order = o)

FanInv == FanTyped /\ BusyKept /\ HeldKept /\ EveryBranchReached /\ BudgetKept

LEMMA NextAreServices == \A s : NextServices(s) \in Seq(Services)
<1> SUFFICES ASSUME NEW s
             PROVE  NextServices(s) \in Seq(Services)
  OBVIOUS
<1>1. Branches \in Seq(Services)
  <2>1. Len(Branches) \in Nat /\ Branches \in [1..Len(Branches) -> {Branches[i] : i \in DOMAIN Branches}]
    BY FanOutAssumption
  <2>2. {Branches[i] : i \in DOMAIN Branches} \subseteq Services
    BY DEF Services
  <2> QED
    BY <2>1, <2>2
<1>2. \A i \in 1..4 : Chain[i] \in Services
  BY DEF Chain, Services
<1>3. CASE s \in {Chain[1], Chain[2], Chain[3]}
  <2> DEFINE i == CHOOSE n \in 1..3 : Chain[n] = s
  <2>1. i \in 1..3
    BY <1>3
  <2>2. Chain[1 + i] \in Services
    <3> HIDE DEF i
    <3> QED
      BY <1>2, <2>1
  <2>3. NextServices(s) = Branches \/ NextServices(s) = <<Chain[1 + i]>>
    BY <1>3 DEF NextServices
  <2>4. <<Chain[1 + i]>> \in Seq(Services)
    <3> HIDE DEF i
    <3> QED
      BY <2>2
  <2> QED
    BY <1>1, <2>3, <2>4
<1>4. CASE s \notin {Chain[1], Chain[2], Chain[3]}
  BY <1>1, <1>4 DEF NextServices
<1> QED
  BY <1>3, <1>4

LEMMA NextIsService ==
  ASSUME NEW s
  PROVE  /\ Len(NextServices(s)) \in Nat /\ DOMAIN NextServices(s) = 1..Len(NextServices(s))
         /\ \A i \in 1..Len(NextServices(s)) : NextServices(s)[i] \in Services
BY NextAreServices

LEMMA SourceIsService == demo \in {"fanout", "saga"} => Source \in Services
BY DEF Source, Services, Chain

(* Sending counts a copy and puts a message into the queue.                *)
LEMMA SendCounts ==
  ASSUME FanTyped, NEW s \in Services, NEW o \in Orders, SendTo(s, o)
  PROVE  /\ copies' \in Counts /\ copies'[s][o] > 0
         /\ \A t \in Services, p \in Orders :
              /\ copies'[t][p] >= copies[t][p]
              /\ copies'[t][p] > 0 => copies[t][p] > 0 \/ (t = s /\ p = o)
         /\ Carry(s, o) \in Messages /\ Carry(s, o).service = s /\ Carry(s, o).order = o
BY DEF FanTyped, SendTo, Counts, Carry, Messages

LEMMA BusyIsTyped ==
  ASSUME FanTyped, BusyKept, NEW w \in busy
  PROVE  /\ w.msg \in Messages /\ w.msg.service \in Services /\ w.msg.order \in Orders
         /\ w.done \in 0..Len(NextServices(w.msg.service))
         /\ \A i \in 1..w.done : NextServices(w.msg.service)[i] \in Services
<1>1. w.msg \in Messages /\ w.done \in Nat
  BY DEF FanTyped
<1>2. w.done \in 0..Len(NextServices(w.msg.service))
  <2>1. Len(NextServices(w.msg.service)) \in Nat
    BY NextIsService
  <2>2. w.done <= Len(NextServices(w.msg.service))
    BY DEF BusyKept
  <2> QED
    BY <1>1, <2>1, <2>2
<1>3. \A i \in 1..w.done : NextServices(w.msg.service)[i] \in Services
  BY <1>2, NextIsService
<1> QED
  BY <1>1, <1>2, <1>3 DEF Messages

LEMMA FanInvInit == FanOutInit => FanInv
<1> SUFFICES ASSUME FanOutInit
             PROVE  FanInv
  OBVIOUS
<1>1. FanTyped
  BY DEF FanOutInit, FanTyped, Counts
<1> QED
  BY <1>1 DEF FanOutInit, FanInv, BusyKept, HeldKept, EveryBranchReached, BudgetKept

LEMMA FaultCounts ==
  ASSUME FanTyped, NEW s \in Services, NEW fails \in BOOLEAN, Faulty(s, fails)
  PROVE  /\ faults' \in [Services -> Nat]
         /\ \A t \in Services : faults'[t] = IF t = s /\ fails THEN faults[t] + 1 ELSE faults[t]
BY DEF FanTyped, Faulty

(* Copies are only ever sent, and what a step takes out of a queue without *)
(* a success or a dead letter still waits there in another message.        *)
LEMMA StillReached ==
  ASSUME EveryBranchReached, copies \in Counts, copies' \in Counts,
         \A t \in Services, p \in Orders :
           /\ copies'[t][p] >= copies[t][p]
           /\ copies'[t][p] > 0 => copies[t][p] > 0 \/ Waits(t, p)'
           /\ successes[t][p] > 0 => successes'[t][p] > 0
           /\ Waits(t, p) => \/ Waits(t, p)' \/ successes'[t][p] > 0
                             \/ \E d \in deadLetters' : d[1] = t /\ d[2] = p
           /\ successes'[t][p] > 0 => \/ successes[t][p] > 0
                                      \/ \A i \in DOMAIN NextServices(t) : copies[NextServices(t)[i]][p] > 0,
         deadLetters \subseteq deadLetters'
  PROVE  EveryBranchReached'
<1>1. ASSUME NEW t \in Services, NEW p \in Orders, copies'[t][p] > 0
      PROVE  Waits(t, p)' \/ successes'[t][p] > 0 \/ \E d \in deadLetters' : d[1] = t /\ d[2] = p
  <2>1. CASE copies[t][p] > 0
    BY <2>1 DEF EveryBranchReached
  <2> QED
    BY <1>1, <2>1
<1>2. ASSUME NEW t \in Services, NEW p \in Orders, successes'[t][p] > 0, NEW i \in DOMAIN NextServices(t)
      PROVE  copies'[NextServices(t)[i]][p] > 0
  <2>1. copies[NextServices(t)[i]][p] > 0
    BY <1>2 DEF EveryBranchReached
  <2>2. NextServices(t)[i] \in Services
    BY NextIsService
  <2> QED
    BY <2>1, <2>2 DEF Counts
<1> QED
  BY <1>1, <1>2 DEF EveryBranchReached

(* A service that is through with an event has given up its claim or has   *)
(* handled it; the others go on as before.                                 *)
LEMMA LeaveKeeps ==
  ASSUME FanTyped, BusyKept, HeldKept, NEW w \in busy, busy' = Left(w),
         queues \ {w.msg} \subseteq queues',
         copies' \in Counts, \A t \in Services, p \in Orders : copies'[t][p] >= copies[t][p],
         \A t \in Services, p \in Orders : successes[t][p] > 0 => successes'[t][p] > 0,
         \/ held' = Released(w)
         \/ held' = held /\ successes'[w.msg.service][w.msg.order] > 0
  PROVE  BusyKept' /\ HeldKept'
<1>1. \A v \in busy' : v \in busy /\ ~ Same(v, w)
  BY DEF Left, BusyKept
<1>2. ASSUME NEW v \in busy'
      PROVE  v.msg \in queues' /\ <<v.msg.service, v.msg.order>> \in held'
  <2>1. v.msg # w.msg /\ v.msg \in queues /\ <<v.msg.service, v.msg.order>> \in held
    BY <1>1 DEF Same, BusyKept
  <2>2. <<v.msg.service, v.msg.order>> # <<w.msg.service, w.msg.order>>
    BY <1>1 DEF Same
  <2> QED
    BY <2>1, <2>2 DEF Released, KeyOf
<1>3. ASSUME NEW v \in busy', NEW i \in 1..v.done
      PROVE  copies'[NextServices(v.msg.service)[i]][v.msg.order] > 0
  <2>1. v \in busy
    BY <1>1
  <2>2. NextServices(v.msg.service)[i] \in Services /\ v.msg.order \in Orders
    BY <2>1, BusyIsTyped
  <2>3. copies[NextServices(v.msg.service)[i]][v.msg.order] > 0
    BY <2>1 DEF BusyKept
  <2> QED
    BY <2>2, <2>3 DEF FanTyped, Counts
<1>4. BusyKept'
  BY <1>1, <1>2, <1>3 DEF BusyKept
<1>5. ASSUME NEW s \in Services, NEW o \in Orders, <<s, o>> \in held'
      PROVE  successes'[s][o] > 0 \/ \E v \in busy' : v.msg.service = s /\ v.msg.order = o
  <2>1. CASE s = w.msg.service /\ o = w.msg.order
    BY <1>5, <2>1 DEF Released, KeyOf
  <2>2. CASE ~ (s = w.msg.service /\ o = w.msg.order)
    <3>1. <<s, o>> \in held
      BY <1>5 DEF Released
    <3>2. CASE successes[s][o] > 0
      BY <3>2
    <3>3. ASSUME NEW v \in busy, v.msg.service = s, v.msg.order = o
          PROVE  v \in busy'
      BY <2>2, <3>3 DEF Left
    <3> QED
      BY <3>1, <3>2, <3>3 DEF HeldKept
  <2> QED
    BY <2>1, <2>2
<1> QED
  BY <1>4, <1>5 DEF HeldKept

LEMMA EmitKeeps ==
  ASSUME FanInv, NEW o \in Orders, Emit(o)
  PROVE  FanInv'
<1>1. PICK s \in Services : s = Source
  BY SourceIsService DEF FanInv, FanTyped
<1>2. /\ copies' \in Counts
      /\ \A t \in Services, p \in Orders :
           /\ copies'[t][p] >= copies[t][p]
           /\ copies'[t][p] > 0 => copies[t][p] > 0 \/ (t = s /\ p = o)
      /\ Carry(s, o) \in Messages /\ Carry(s, o).service = s /\ Carry(s, o).order = o
  BY <1>1, SendCounts DEF Emit, FanInv
<1>3. /\ queues' = queues \union {Carry(s, o)}
      /\ UNCHANGED <<demo, busy, held, successes, deadLetters, faults>>
  BY <1>1 DEF Emit
<1>4. FanTyped'
  BY <1>2, <1>3 DEF FanInv, FanTyped
<1>5. BusyKept'
  <2>1. ASSUME NEW w \in busy, NEW i \in 1..w.done
        PROVE  copies'[NextServices(w.msg.service)[i]][w.msg.order] > 0
    <3>1. NextServices(w.msg.service)[i] \in Services /\ w.msg.order \in Orders
      BY BusyIsTyped DEF FanInv
    <3>2. copies[NextServices(w.msg.service)[i]][w.msg.order] > 0
      BY DEF FanInv, BusyKept
    <3> QED
      BY <1>2, <3>1, <3>2 DEF FanInv, FanTyped, Counts
  <2> QED
    BY <1>3, <2>1 DEF FanInv, BusyKept
<1>6. HeldKept' /\ BudgetKept'
  BY <1>3 DEF FanInv, HeldKept, BudgetKept
<1>7. EveryBranchReached'
  <2>1. \A t \in Services, p \in Orders : Waits(t, p) => Waits(t, p)'
    BY <1>3 DEF Waits
  <2>2. Waits(s, o)'
    BY <1>2, <1>3 DEF Waits
  <2> QED
    BY <1>2, <1>3, <2>1, <2>2, StillReached DEF FanInv, FanTyped
<1> QED
  BY <1>4, <1>5, <1>6, <1>7 DEF FanInv

LEMMA ReceiveKeeps ==
  ASSUME FanInv, NEW m \in queues, NEW fails \in BOOLEAN, Receive(m, fails)
  PROVE  FanInv'
<1> DEFINE got == [m EXCEPT !.receives = @ + 1]
<1>1. /\ m \in Messages /\ m.service \in Services /\ m.order \in Orders
      /\ got \in Messages /\ got.service = m.service /\ got.order = m.order
  BY DEF FanInv, FanTyped, Messages
<1>2. /\ \A w \in busy : w.msg # m
      /\ UNCHANGED <<demo, copies, successes, deadLetters>>
  BY DEF Receive
<1>3. CASE <<m.service, m.order>> \in held
  <2>1. /\ queues' = (queues \ {m}) \union (IF fails THEN {got} ELSE {})
        /\ Faulty(m.service, fails) /\ UNCHANGED <<held, busy>>
    BY <1>3 DEF Receive, KeyOf
  <2>2. /\ faults' \in [Services -> Nat]
        /\ \A t \in Services : faults'[t] = IF t = m.service /\ fails THEN faults[t] + 1 ELSE faults[t]
    BY <1>1, <2>1, FaultCounts DEF FanInv
  <2> HIDE DEF got
  <2>3. FanTyped'
    BY <1>1, <1>2, <2>1, <2>2 DEF FanInv, FanTyped
  <2>4. BusyKept' /\ HeldKept'
    BY <1>2, <2>1 DEF FanInv, BusyKept, HeldKept
  <2>5. BudgetKept'
    <3>1. ASSUME NEW t \in Services, NEW o \in Orders
          PROVE  /\ successes'[t][o] <= 1 + faults'[t]
                 /\ successes'[t][o] = 1 + faults'[t] => successes[t][o] = 1 + faults[t]
      <4>1. successes[t][o] \in Nat /\ faults[t] \in Nat /\ faults'[t] \in {faults[t], faults[t] + 1}
        BY <2>2 DEF FanInv, FanTyped, Counts
      <4>2. successes[t][o] <= 1 + faults[t]
        BY DEF FanInv, BudgetKept
      <4> QED
        BY <1>2, <4>1, <4>2
    <3> QED
      BY <1>2, <2>1, <3>1 DEF FanInv, BudgetKept
  <2>6. ASSUME NEW t \in Services, NEW p \in Orders, Waits(t, p)
        PROVE  Waits(t, p)' \/ successes[t][p] > 0
    <3>1. PICK n \in queues : n.service = t /\ n.order = p
      BY <2>6 DEF Waits
    <3>2. CASE n = m /\ ~ (successes[t][p] > 0)
      <4>1. PICK w \in busy : w.msg.service = t /\ w.msg.order = p
        BY <1>3, <3>1, <3>2 DEF FanInv, HeldKept
      <4>2. w.msg \in queues'
        BY <1>2, <2>1 DEF FanInv, BusyKept
      <4> QED
        BY <4>1, <4>2 DEF Waits
    <3>3. CASE n # m
      BY <2>1, <3>1, <3>3 DEF Waits
    <3> QED
      BY <3>2, <3>3
  <2>7. EveryBranchReached'
    BY <1>2, <2>6, StillReached DEF FanInv, FanTyped, Counts
  <2> QED
    BY <2>3, <2>4, <2>5, <2>7 DEF FanInv
<1>4. CASE <<m.service, m.order>> \notin held
  <2> DEFINE new == [msg |-> got, done |-> 0]
  <2>1. /\ held' = held \union {<<m.service, m.order>>}
        /\ queues' = (queues \ {m}) \union {got}
        /\ busy' = busy \union {new} /\ UNCHANGED faults
    BY <1>4 DEF Receive, KeyOf
  <2>2. new.msg = got /\ new.done = 0 /\ new \in [msg : Messages, done : Nat]
    BY <1>1
  <2>3. \A w \in busy : ~ Same(w, new)
    BY <1>1, <1>4, <2>2 DEF FanInv, BusyKept, Same
  <2> HIDE DEF got, new
  <2>4. FanTyped'
    BY <1>1, <1>2, <2>1, <2>2 DEF FanInv, FanTyped
  <2>5. BusyKept'
    <3>1. \A w \in busy : w.msg \in queues' /\ <<w.msg.service, w.msg.order>> \in held'
      BY <1>2, <2>1 DEF FanInv, BusyKept
    <3>2. new.msg \in queues' /\ <<new.msg.service, new.msg.order>> \in held'
      BY <1>1, <2>1, <2>2
    <3>3. new.done <= Len(NextServices(new.msg.service)) /\ 1..new.done = {}
      BY <2>2, NextIsService
    <3>4. \A v, w \in busy' : Same(v, w) => v = w
      BY <2>1, <2>3 DEF FanInv, BusyKept, Same
    <3> QED
      BY <1>2, <2>1, <3>1, <3>2, <3>3, <3>4 DEF FanInv, BusyKept
  <2>6. HeldKept'
    BY <1>1, <1>2, <2>1, <2>2 DEF FanInv, HeldKept
  <2>7. BudgetKept'
    <3>1. UNCHANGED <<faults, successes>> /\ held \subseteq held' /\ busy' = busy \union {new}
      BY <1>2, <2>1
    <3>2. new.msg.service = m.service /\ new.msg.order = m.order
      BY <1>1, <2>2
    <3>3. ASSUME NEW s \in Services, NEW o \in Orders, successes[s][o] = 1 + faults[s]
          PROVE  /\ <<s, o>> \in held'
                 /\ \A w \in busy' : ~ (w.msg.service = s /\ w.msg.order = o)
      <4>1. /\ <<s, o>> \in held
            /\ \A w \in busy : ~ (w.msg.service = s /\ w.msg.order = o)
        BY <3>3 DEF FanInv, BudgetKept
      <4>2. ~ (m.service = s /\ m.order = o)
        BY <1>4, <4>1
      <4> QED
        BY <3>1, <3>2, <4>1, <4>2
    <3> QED
      BY <3>1, <3>3 DEF FanInv, BudgetKept
  <2>8. \A t \in Services, p \in Orders : Waits(t, p) => Waits(t, p)'
    BY <1>1, <2>1 DEF Waits
  <2>9. EveryBranchReached'
    BY <1>2, <2>8, StillReached DEF FanInv, FanTyped, Counts
  <2> QED
    BY <2>4, <2>5, <2>6, <2>7, <2>9 DEF FanInv
<1> QED
  BY <1>3, <1>4

(* A service at work has a fault to spare for a success; it uses it up only*)
(* when it keeps the claim.                                                *)
LEMMA LeaveBudgets ==
  ASSUME FanInv, NEW w \in busy, busy' = Left(w),
         faults' \in [Services -> Nat], \A t \in Services : faults'[t] >= faults[t],
         NEW handled \in BOOLEAN,
         \A t \in Services, p \in Orders :
           successes'[t][p] = IF handled /\ t = w.msg.service /\ p = w.msg.order
                              THEN successes[t][p] + 1 ELSE successes[t][p],
         \/ held' = Released(w) /\ (handled => faults'[w.msg.service] > faults[w.msg.service])
         \/ held' = held /\ handled
  PROVE  BudgetKept'
<1> SUFFICES ASSUME NEW t \in Services, NEW p \in Orders
             PROVE  /\ successes'[t][p] <= 1 + faults'[t]
                    /\ successes'[t][p] = 1 + faults'[t] =>
                         /\ <<t, p>> \in held'
                         /\ \A v \in busy' : ~ (v.msg.service = t /\ v.msg.order = p)
  BY DEF BudgetKept
<1>1. /\ successes[t][p] \in Nat /\ faults[t] \in Nat /\ faults'[t] \in Nat
      /\ faults'[t] >= faults[t] /\ successes[t][p] <= 1 + faults[t]
  BY DEF FanInv, FanTyped, Counts, BudgetKept
<1>2. \A v \in busy' : v \in busy /\ ~ Same(v, w)
  BY DEF Left, FanInv, BusyKept
<1>3. CASE t = w.msg.service /\ p = w.msg.order
  <2>1. successes[t][p] < 1 + faults[t]
    <3>1. successes[t][p] # 1 + faults[t]
      BY <1>3 DEF FanInv, BudgetKept
    <3> QED
      BY <1>1, <3>1
  <2>2. \A v \in busy' : ~ (v.msg.service = t /\ v.msg.order = p)
    BY <1>2, <1>3 DEF Same
  <2>3. CASE ~ handled
    <3>1. successes'[t][p] = successes[t][p]
      BY <2>3
    <3> QED
      BY <1>1, <2>1, <3>1
  <2>4. CASE handled /\ faults'[t] > faults[t]
    <3>1. successes'[t][p] = successes[t][p] + 1
      BY <1>3, <2>4
    <3> QED
      BY <1>1, <2>1, <2>4, <3>1
  <2>5. CASE handled /\ held' = held
    <3>1. <<t, p>> \in held
      BY <1>3 DEF FanInv, BusyKept
    <3>2. successes'[t][p] = successes[t][p] + 1
      BY <1>3, <2>5
    <3> QED
      BY <1>1, <2>1, <2>2, <2>5, <3>1, <3>2
  <2> QED
    BY <1>3, <2>3, <2>4, <2>5
<1>4. CASE ~ (t = w.msg.service /\ p = w.msg.order)
  <2>1. successes'[t][p] = successes[t][p]
    BY <1>4
  <2>2. successes'[t][p] <= 1 + faults'[t]
    BY <1>1, <2>1
  <2>3. ASSUME successes'[t][p] = 1 + faults'[t]
        PROVE  /\ <<t, p>> \in held'
               /\ \A v \in busy' : ~ (v.msg.service = t /\ v.msg.order = p)
    <3>1. successes[t][p] = 1 + faults[t]
      BY <1>1, <2>1, <2>3
    <3>2. <<t, p>> \in held /\ \A v \in busy : ~ (v.msg.service = t /\ v.msg.order = p)
      BY <3>1 DEF FanInv, BudgetKept
    <3>3. <<t, p>> # <<w.msg.service, w.msg.order>>
      BY <1>4
    <3> QED
      BY <1>2, <3>2, <3>3 DEF Released, KeyOf
  <2> QED
    BY <2>2, <2>3
<1> QED
  BY <1>3, <1>4

LEMMA PublishKeeps ==
  ASSUME FanInv, NEW w \in busy, PublishBranch(w)
  PROVE  FanInv'
<1> DEFINE new == [w EXCEPT !.done = @ + 1]
<1>1. /\ w.done < Len(NextServices(w.msg.service))
      /\ UNCHANGED <<demo, held, successes, deadLetters, faults>>
  BY DEF PublishBranch
<1>2. /\ w.msg \in Messages /\ w.msg.service \in Services /\ w.msg.order \in Orders
      /\ w.done \in Nat /\ w \in [msg : Messages, done : Nat]
  BY BusyIsTyped DEF FanInv, FanTyped
<1>3. new \in [msg : Messages, done : Nat] /\ new.msg = w.msg /\ new.done = w.done + 1
  BY <1>2
<1>4. PICK to \in Services : to = NextServices(w.msg.service)[w.done + 1]
  BY <1>1, <1>2, NextIsService
<1> HIDE DEF new
<1>5. /\ SendTo(to, w.msg.order) /\ busy' = Left(w) \union {new}
      /\ queues' = queues \union {Carry(to, w.msg.order)}
  BY <1>4 DEF PublishBranch, new
<1>6. /\ copies' \in Counts /\ copies'[to][w.msg.order] > 0
      /\ \A t \in Services, p \in Orders :
           /\ copies'[t][p] >= copies[t][p]
           /\ copies'[t][p] > 0 => copies[t][p] > 0 \/ (t = to /\ p = w.msg.order)
      /\ Carry(to, w.msg.order) \in Messages
      /\ Carry(to, w.msg.order).service = to /\ Carry(to, w.msg.order).order = w.msg.order
  BY <1>2, <1>5, SendCounts DEF FanInv
<1>7. FanTyped'
  BY <1>1, <1>3, <1>5, <1>6 DEF FanInv, FanTyped, Left
<1>8. BusyKept'
  <2>1. ASSUME NEW v \in busy, NEW i \in 1..v.done
        PROVE  copies'[NextServices(v.msg.service)[i]][v.msg.order] > 0
    <3>1. NextServices(v.msg.service)[i] \in Services /\ v.msg.order \in Orders
      BY BusyIsTyped DEF FanInv
    <3>2. copies[NextServices(v.msg.service)[i]][v.msg.order] > 0
      BY DEF FanInv, BusyKept
    <3> QED
      BY <1>6, <3>1, <3>2 DEF FanInv, FanTyped, Counts
  <2>2. ASSUME NEW i \in 1..new.done
        PROVE  copies'[NextServices(new.msg.service)[i]][new.msg.order] > 0
    <3>1. CASE i \in 1..w.done
      BY <1>3, <2>1, <3>1
    <3>2. CASE i = w.done + 1
      BY <1>3, <1>4, <1>6, <3>2
    <3> QED
      BY <1>2, <1>3, <3>1, <3>2
  <2>3. /\ \A v \in busy : v.msg \in queues' /\ <<v.msg.service, v.msg.order>> \in held'
        /\ \A v \in busy : v.done <= Len(NextServices(v.msg.service))
    BY <1>1, <1>5 DEF FanInv, BusyKept
  <2>4. new.done <= Len(NextServices(new.msg.service))
    BY <1>1, <1>2, <1>3, NextIsService
  <2>5. \A u, v \in busy' : Same(u, v) => u = v
    BY <1>3, <1>5 DEF FanInv, BusyKept, Same, Left
  <2>6. \A v \in busy' : v \in busy \/ v = new
    BY <1>5 DEF Left
  <2>7. new.msg \in queues' /\ <<new.msg.service, new.msg.order>> \in held'
    BY <1>3, <2>3
  <2> QED
    BY <2>1, <2>2, <2>3, <2>4, <2>5, <2>6, <2>7 DEF BusyKept
<1>9. HeldKept'
  <2>1. ASSUME NEW v \in busy
        PROVE  \E u \in busy' : u.msg = v.msg
    BY <1>3, <1>5 DEF Left
  <2> QED
    BY <1>1, <2>1 DEF FanInv, HeldKept
<1>10. BudgetKept'
  <2>1. \A v \in busy' : v \in busy \/ v = new
    BY <1>5 DEF Left
  <2>2. \A v \in busy' : v.msg \in {u.msg : u \in busy}
    BY <1>3, <2>1
  <2>3. UNCHANGED <<held, successes, faults>>
    BY <1>1
  <2>4. ASSUME NEW t \in Services, NEW p \in Orders, successes[t][p] = 1 + faults[t]
        PROVE  \A v \in busy' : ~ (v.msg.service = t /\ v.msg.order = p)
    <3>1. \A u \in busy : ~ (u.msg.service = t /\ u.msg.order = p)
      BY <2>4 DEF FanInv, BudgetKept
    <3> QED
      BY <2>2, <3>1
  <2> QED
    BY <2>3, <2>4 DEF FanInv, BudgetKept
<1>11. EveryBranchReached'
  <2>1. \A t \in Services, p \in Orders : Waits(t, p) => Waits(t, p)'
    BY <1>5 DEF Waits
  <2>2. Waits(to, w.msg.order)'
    BY <1>5, <1>6 DEF Waits
  <2>3. \A t \in Services, p \in Orders :
          /\ copies'[t][p] >= copies[t][p]
          /\ copies'[t][p] > 0 => copies[t][p] > 0 \/ Waits(t, p)'
    BY <1>6, <2>2 DEF Waits
  <2> QED
    BY <1>1, <1>6, <2>1, <2>3, StillReached DEF FanInv, FanTyped
<1> QED
  BY <1>7, <1>8, <1>9, <1>10, <1>11 DEF FanInv

LEMMA RaisesKeeps ==
  ASSUME FanInv, NEW w \in busy, NEW taken \in BOOLEAN, PublishRaises(w, taken)
  PROVE  FanInv'
<1>1. /\ busy' = Left(w) /\ held' = Released(w) /\ UNCHANGED <<demo, successes, deadLetters>>
      /\ w.done < Len(NextServices(w.msg.service))
  BY DEF PublishRaises
<1>2. w.msg.service \in Services /\ w.msg.order \in Orders /\ w.done \in Nat
  BY BusyIsTyped DEF FanInv
<1>3. PICK to \in Services : to = NextServices(w.msg.service)[w.done + 1]
  BY <1>1, <1>2, NextIsService
<1>4. /\ copies' \in Counts /\ queues \subseteq queues' /\ queues' \subseteq Messages
      /\ \A t \in Services, p \in Orders :
           /\ copies'[t][p] >= copies[t][p]
           /\ copies'[t][p] > 0 => copies[t][p] > 0 \/ \E m \in queues' : m.service = t /\ m.order = p
  <2>1. CASE taken
    <3>1. SendTo(to, w.msg.order) /\ queues' = queues \union {Carry(to, w.msg.order)}
      BY <1>3, <2>1 DEF PublishRaises
    <3> QED
      BY <1>2, <3>1, SendCounts DEF FanInv, FanTyped
  <2>2. CASE ~ taken
    BY <2>2 DEF PublishRaises, FanInv, FanTyped, Counts
  <2> QED
    BY <2>1, <2>2
<1>5. /\ faults' \in [Services -> Nat]
      /\ \A t \in Services : faults'[t] = IF t = w.msg.service THEN faults[t] + 1 ELSE faults[t]
  BY <1>2, FaultCounts DEF PublishRaises, FanInv
<1>6. FanTyped'
  BY <1>1, <1>4, <1>5 DEF FanInv, FanTyped, Left
<1>7. BusyKept' /\ HeldKept'
  BY <1>1, <1>4, LeaveKeeps DEF FanInv
<1>8. BudgetKept'
  <2>1. \A t \in Services : faults'[t] >= faults[t]
    BY <1>5 DEF FanInv, FanTyped
  <2> QED
    BY <1>1, <1>5, <2>1, LeaveBudgets
<1>9. EveryBranchReached'
  <2>1. \A t \in Services, p \in Orders : Waits(t, p) => Waits(t, p)'
    BY <1>4 DEF Waits
  <2>2. \A t \in Services, p \in Orders :
          /\ copies'[t][p] >= copies[t][p]
          /\ copies'[t][p] > 0 => copies[t][p] > 0 \/ Waits(t, p)'
    BY <1>4 DEF Waits
  <2> QED
    BY <1>1, <1>4, <2>1, <2>2, StillReached DEF FanInv, FanTyped
<1> QED
  BY <1>6, <1>7, <1>8, <1>9 DEF FanInv

LEMMA HandledKeeps ==
  ASSUME FanInv, NEW w \in busy, NEW fails \in BOOLEAN, Handled(w, fails)
  PROVE  FanInv'
<1>1. /\ busy' = Left(w) /\ UNCHANGED <<demo, copies, deadLetters>>
      /\ w.done = Len(NextServices(w.msg.service))
  BY DEF Handled, Succeeds
<1>2. w.msg \in Messages /\ w.msg.service \in Services /\ w.msg.order \in Orders
  BY BusyIsTyped DEF FanInv
<1>3. /\ successes' \in Counts
      /\ \A t \in Services, p \in Orders :
           successes'[t][p] = IF t = w.msg.service /\ p = w.msg.order
                              THEN successes[t][p] + 1 ELSE successes[t][p]
  BY <1>2 DEF Handled, FanInv, FanTyped, Counts
<1>4. /\ queues \ {w.msg} \subseteq queues' /\ queues' \subseteq queues
      /\ \/ fails /\ held' = Released(w)
         \/ ~ fails /\ held' = held
  BY DEF Handled
<1>5. /\ faults' \in [Services -> Nat]
      /\ \A t \in Services : faults'[t] = IF t = w.msg.service /\ fails THEN faults[t] + 1 ELSE faults[t]
  BY <1>2, FaultCounts DEF Handled, FanInv
<1>6. FanTyped'
  BY <1>1, <1>3, <1>4, <1>5 DEF FanInv, FanTyped, Left
<1>7. \A t \in Services, p \in Orders :
        /\ copies'[t][p] >= copies[t][p]
        /\ successes[t][p] > 0 => successes'[t][p] > 0
        /\ t = w.msg.service /\ p = w.msg.order => successes'[t][p] > 0
  BY <1>1, <1>3 DEF FanInv, FanTyped, Counts
<1>8. BusyKept' /\ HeldKept'
  BY <1>1, <1>2, <1>4, <1>6, <1>7, LeaveKeeps DEF FanInv, FanTyped
<1>9. BudgetKept'
  <2>1. \A t \in Services : faults'[t] >= faults[t]
    BY <1>5 DEF FanInv, FanTyped
  <2>2. fails => faults'[w.msg.service] > faults[w.msg.service]
    BY <1>2, <1>5 DEF FanInv, FanTyped
  <2> QED
    <3>1. \A t \in Services, p \in Orders :
            successes'[t][p] = IF TRUE /\ t = w.msg.service /\ p = w.msg.order
                               THEN successes[t][p] + 1 ELSE successes[t][p]
      BY <1>3
    <3>2. \/ held' = Released(w) /\ (TRUE => faults'[w.msg.service] > faults[w.msg.service])
          \/ held' = held /\ TRUE
      BY <1>4, <2>2
    <3> QED
      BY <1>1, <1>5, <2>1, <3>1, <3>2, LeaveBudgets
<1>10. EveryBranchReached'
  <2>1. ASSUME NEW t \in Services, NEW p \in Orders, Waits(t, p)
        PROVE  Waits(t, p)' \/ successes'[t][p] > 0
    <3>1. PICK m \in queues : m.service = t /\ m.order = p
      BY <2>1 DEF Waits
    <3>2. CASE m = w.msg
      BY <1>7, <3>1, <3>2
    <3>3. CASE m # w.msg
      BY <1>4, <3>1, <3>3 DEF Waits
    <3> QED
      BY <3>2, <3>3
  <2>2. ASSUME NEW t \in Services, NEW p \in Orders, successes'[t][p] > 0, ~ (successes[t][p] > 0)
        PROVE  \A i \in DOMAIN NextServices(t) : copies[NextServices(t)[i]][p] > 0
    <3>1. t = w.msg.service /\ p = w.msg.order
      BY <1>3, <2>2
    <3>2. DOMAIN NextServices(t) = 1..w.done
      BY <1>1, <3>1, NextIsService
    <3> QED
      BY <3>1, <3>2 DEF FanInv, BusyKept
  <2>3. \A t \in Services, p \in Orders : copies'[t][p] > 0 => copies[t][p] > 0
    BY <1>1
  <2> QED
    BY <1>1, <1>6, <1>7, <2>1, <2>2, <2>3, StillReached DEF FanInv, FanTyped
<1> QED
  BY <1>6, <1>8, <1>9, <1>10 DEF FanInv

LEMMA RefusedKeeps ==
  ASSUME FanInv, NEW w \in busy, NEW sent \in BOOLEAN, NEW removed \in BOOLEAN,
         Refused(w, sent, removed)
  PROVE  FanInv'
<1>1. /\ busy' = Left(w) /\ held' = Released(w) /\ UNCHANGED <<demo, copies, successes>>
  BY DEF Refused
<1>2. w.msg \in Messages /\ w.msg.service \in Services /\ w.msg.order \in Orders
  BY BusyIsTyped DEF FanInv
<1>3. /\ deadLetters \subseteq deadLetters'
      /\ \/ queues' = queues
         \/ queues' = queues \ {w.msg} /\ <<w.msg.service, w.msg.order, w.msg.receives>> \in deadLetters'
  BY DEF Refused
<1>4. faults' \in [Services -> Nat] /\ \A t \in Services : faults'[t] >= faults[t]
  <2>1. CASE GivesUpNow(w)
    <3>1. faults' = faults \/ faults' = [faults EXCEPT ![w.msg.service] = @ + 1]
      BY <2>1 DEF Refused, Faulty
    <3> QED
      BY <1>2, <3>1 DEF FanInv, FanTyped
  <2>2. CASE ~ GivesUpNow(w)
    BY <2>2 DEF Refused, FanInv, FanTyped
  <2> QED
    BY <2>1, <2>2
<1>5. FanTyped'
  BY <1>1, <1>3, <1>4 DEF FanInv, FanTyped, Left
<1>6. BusyKept' /\ HeldKept'
  BY <1>1, <1>3, <1>5, LeaveKeeps DEF FanInv, FanTyped, Counts
<1>7. BudgetKept'
  BY <1>1, <1>4, LeaveBudgets
<1>8. EveryBranchReached'
  <2>1. ASSUME NEW t \in Services, NEW p \in Orders, Waits(t, p)
        PROVE  Waits(t, p)' \/ \E d \in deadLetters' : d[1] = t /\ d[2] = p
    <3>1. PICK m \in queues : m.service = t /\ m.order = p
      BY <2>1 DEF Waits
    <3>2. CASE m \in queues'
      BY <3>1, <3>2 DEF Waits
    <3>3. CASE m \notin queues'
      <4>1. m = w.msg /\ <<w.msg.service, w.msg.order, w.msg.receives>> \in deadLetters'
        BY <1>3, <3>3
      <4> QED
        BY <3>1, <4>1
    <3> QED
      BY <3>2, <3>3
  <2> QED
    BY <1>1, <1>3, <2>1, StillReached DEF FanInv, FanTyped, Counts
<1> QED
  BY <1>5, <1>6, <1>7, <1>8 DEF FanInv

LEMMA RestartKeeps ==
  ASSUME FanInv, NEW s \in Services, RestartService(s)
  PROVE  FanInv'
<1>1. /\ busy' = {w \in busy : w.msg.service # s} /\ held' = {h \in held : h[1] # s}
      /\ UNCHANGED <<demo, queues, copies, successes, deadLetters>>
  BY DEF RestartService
<1>2. /\ faults' \in [Services -> Nat]
      /\ \A t \in Services : faults'[t] = IF t = s THEN faults[t] + 1 ELSE faults[t]
  BY FaultCounts DEF RestartService, FanInv
<1>3. FanTyped'
  BY <1>1, <1>2 DEF FanInv, FanTyped
<1>4. BusyKept'
  BY <1>1 DEF FanInv, BusyKept
<1>5. HeldKept'
  BY <1>1 DEF FanInv, HeldKept
<1>6. BudgetKept'
  <2>1. ASSUME NEW t \in Services, NEW o \in Orders
        PROVE  /\ successes[t][o] <= 1 + faults'[t]
               /\ successes[t][o] = 1 + faults'[t] => t # s /\ successes[t][o] = 1 + faults[t]
    <3>1. successes[t][o] \in Nat /\ faults[t] \in Nat /\ successes[t][o] <= 1 + faults[t]
      BY DEF FanInv, FanTyped, Counts, BudgetKept
    <3> QED
      BY <1>2, <3>1
  <2>2. ASSUME NEW t \in Services, NEW o \in Orders, t # s, successes[t][o] = 1 + faults[t]
        PROVE  <<t, o>> \in held' /\ \A w \in busy' : ~ (w.msg.service = t /\ w.msg.order = o)
    <3>1. <<t, o>> \in held /\ \A w \in busy : ~ (w.msg.service = t /\ w.msg.order = o)
      BY <2>2 DEF FanInv, BudgetKept
    <3> QED
      BY <1>1, <2>2, <3>1
  <2> QED
    BY <1>1, <2>1, <2>2 DEF BudgetKept
<1>7. EveryBranchReached'
  BY <1>1 DEF FanInv, EveryBranchReached, Waits
<1> QED
  BY <1>3, <1>4, <1>5, <1>6, <1>7 DEF FanInv

LEMMA FanInvStep == FanInv /\ [FanOutNext]_fanVars => FanInv'
<1> SUFFICES ASSUME FanInv, [FanOutNext]_fanVars
             PROVE  FanInv'
  OBVIOUS
<1>1. CASE UNCHANGED fanVars
  BY <1>1
     DEF fanVars, FanInv, FanTyped, BusyKept, HeldKept, BudgetKept, EveryBranchReached, Waits
<1> QED
  BY <1>1, EmitKeeps, ReceiveKeeps, PublishKeeps, RaisesKeeps, HandledKeeps, RefusedKeeps, RestartKeeps
     DEF FanOutNext

(* EveryBranchReached (subscribers.py:53-64, sqs_localstack_saga.py:111-137):*)
(* no event gets lost between the services, and one that a service handled *)
(* was sent to every next service; for any orders, branches, copies, faults*)
(* and restarts.                                                           *)
THEOREM EveryBranchReachedHolds == FanOutSpec => []EveryBranchReached
<1>1. FanInv => EveryBranchReached
  BY DEF FanInv
<1> QED
  BY <1>1, FanInvInit, FanInvStep, PTL DEF FanOutSpec

(* RepeatsNeedOwnFault (sqs_localstack_saga.py:221): a service handles an  *)
(* order again only after a fault of its own, however many copies of it    *)
(* the services before it have sent.                                       *)
THEOREM RepeatsNeedOwnFaultHolds == FanOutSpec => []RepeatsNeedOwnFault
<1>1. FanInv => RepeatsNeedOwnFault
  BY DEF FanInv, BudgetKept, RepeatsNeedOwnFault
<1> QED
  BY <1>1, FanInvInit, FanInvStep, PTL DEF FanOutSpec
-------------------------------------------------------------------------------
(* The clock of the store's run stops at its bound, and only clients hold  *)
(* keys.                                                                   *)
HoldersNow == time \in 0..StoreMaxTime /\ holders \subseteq Clients \X Keys

LEMMA HoldersNowStep == HoldersNow /\ [StoreNext]_storeVars => HoldersNow'
<1> SUFFICES ASSUME HoldersNow, [StoreNext]_storeVars
             PROVE  HoldersNow'
  OBVIOUS
<1>1. CASE UNCHANGED storeVars
  BY <1>1 DEF storeVars, HoldersNow
<1>2. ASSUME NEW c \in Clients, NEW k \in Keys, NEW ttl \in Ttls, ClaimGranted(c, k, ttl)
      PROVE  HoldersNow'
  BY <1>2 DEF ClaimGranted, HoldersNow
<1>3. ASSUME NEW c \in Clients, NEW k \in Keys, ClaimRefused(c, k) \/ ReleaseKey(c, k) \/ KeepClaim(c, k)
      PROVE  HoldersNow'
  BY <1>3 DEF ClaimRefused, ReleaseKey, KeepClaim, storeVars, HoldersNow
<1>4. CASE StoreTick
  BY <1>4, StoreAssumption DEF StoreTick, HoldersNow
<1> QED
  BY <1>1, <1>2, <1>3, <1>4 DEF StoreNext

(* The dict maps keys to expiries, for any clients, TTLs and capacity      *)
(* (store.py:39-72).                                                       *)
THEOREM StoreTypeCorrect == StoreSpec => []StoreTypeOK
<1>1. StoreInit => HoldersNow
  BY StoreAssumption DEF StoreInit, HoldersNow
<1>2. StoreTyped /\ HoldersNow => StoreTypeOK
  BY DEF StoreTyped, HoldersNow, StoreTypeOK, Expiries
<1> QED
  BY <1>1, <1>2, StoreTypedInit, StoreTypedStep, HoldersNowStep, PTL DEF StoreSpec

TickNow == tick \in 0..TaskMaxTime

LEMMA TickNowStep == TickNow /\ [TaskNext]_taskVars => TickNow'
<1> SUFFICES ASSUME TickNow, [TaskNext]_taskVars
             PROVE  TickNow'
  OBVIOUS
<1>1. CASE TaskTick
  BY <1>1, PeriodicAssumption DEF TaskTick, TickNow
<1>2. CASE tick' = tick
  BY <1>2 DEF TickNow
<1> QED
  BY <1>1, <1>2 DEF TaskNext, taskVars, Acquire, Skip, Finish, Fails, Ends, Dies

(* No loop counts beyond max_repetitions, whoever dies, raises or skips    *)
(* (repeat.py:66-120).                                                     *)
THEOREM TaskTypeCorrect == TaskSpec => []TaskTypeOK
<1>1. TaskInit => TickNow
  BY PeriodicAssumption DEF TaskInit, TickNow
<1>2. Counted /\ TickNow => TaskTypeOK
  BY DEF Counted, TickNow, TaskTyped, Loop, TaskTypeOK
<1> QED
  BY <1>1, <1>2, CountedInit, CountedStep, TickNowStep, PTL DEF TaskSpec
-------------------------------------------------------------------------------
(* Runs that nobody waits for are of rounds that are over: of each, at most*)
(* one per member.                                                         *)
StraysKept ==
  /\ strays <= (IF call.at = "handle" THEN attempt - 1 ELSE attempt) * Cardinality(chain.members)
  /\ call.at # "over" => notified = {}
  /\ notified \in {{}, {"on_success"}, {"on_error"}}

LEMMA WorkersAreMembers ==
  ASSUME ChainTyped
  PROVE  Cardinality(Working) <= Cardinality(chain.members)
<1>1. Working \in SUBSET chain.members
  BY DEF Working
<1> QED
  BY <1>1, FS_Subset, WorkingIsFinite

LEMMA StraysInit == ChainInit => StraysKept
<1> SUFFICES ASSUME ChainInit
             PROVE  StraysKept
  OBVIOUS
<1>1. Cardinality(chain.members) \in Nat
  BY ChainInvInit, WorkingIsFinite DEF ChainInv
<1> QED
  BY <1>1 DEF ChainInit, StraysKept

LEMMA StraysStep == ChainInv /\ StraysKept /\ [ChainNext]_chainVars => StraysKept'
<1> SUFFICES ASSUME ChainInv, StraysKept, [ChainNext]_chainVars
             PROVE  StraysKept'
  OBVIOUS
<1> DEFINE n == Cardinality(chain.members)
<1>1. /\ attempt \in Nat /\ n \in Nat /\ strays \in Nat /\ call \in Calls
      /\ Cardinality(Working) \in Nat /\ Cardinality(Working) <= n
  BY WorkingIsFinite, WorkersAreMembers, ChainAssumption DEF ChainInv, ChainTyped
<1>2. ChainInv'
  BY ChainInvStep
<1>3. /\ (attempt - 1) * n + n = attempt * n /\ ((attempt + 1) - 1) * n = attempt * n
      /\ attempt * n \in Nat /\ (attempt - 1) * n \in Int
  <2> HIDE DEF n
  <2> QED
    BY <1>1, NextRound
<1>4. call'.at # "over" => notified' = {}
  BY <1>2 DEF ChainInv, CallKept
<1>5. notified' \in {{}, {"on_success"}, {"on_error"}}
  <2>1. CASE notified' = notified
    BY <2>1 DEF StraysKept
  <2>2. ASSUME NEW error \in HookErrors \union {"none"}, HookEnds(error)
        PROVE  notified' \in {{"on_success"}, {"on_error"}}
    <3>1. notified = {} /\ notified' = notified \union {call.at} /\ call.at \in {"on_success", "on_error"}
      BY <2>2 DEF HookEnds, StraysKept
    <3> QED
      BY <3>1
  <2> QED
    BY <2>1, <2>2
       DEF ChainNext, chainVars, Attempt, StrayEnds, CancelCall, Drained, Check, GroupReturns,
           InnerRetry, CancelledEnds, HandlerEnds
<1> SUFFICES strays' <= (IF call'.at = "handle" THEN attempt' - 1 ELSE attempt') * Cardinality(chain'.members)
  BY <1>4, <1>5 DEF StraysKept
<1>6. strays <= attempt * n
  <2>1. n \in Nat /\ (attempt - 1) * n <= attempt * n
    <3> HIDE DEF n
    <3> QED
      BY <1>1, <1>3
  <2> HIDE DEF n
  <2>2. strays <= (attempt - 1) * n \/ strays <= attempt * n
    BY DEF StraysKept, n
  <2> QED
    BY <1>1, <1>3, <2>1, <2>2
<1>7. ASSUME UNCHANGED <<chain, attempt>>, strays' <= strays, strays' \in Nat, call'.at = "handle" => call.at = "handle"
      PROVE  strays' <= (IF call'.at = "handle" THEN attempt' - 1 ELSE attempt') * Cardinality(chain'.members)
  <2>1. CASE call'.at = "handle"
    <3>1. strays <= (attempt - 1) * n
      BY <1>7, <2>1 DEF StraysKept
    <3> HIDE DEF n
    <3>2. strays' <= (attempt - 1) * n
      BY <1>1, <1>3, <1>7, <3>1
    <3> QED
      BY <1>7, <2>1, <3>2 DEF n
  <2>2. CASE call'.at # "handle"
    <3> HIDE DEF n
    <3>1. strays' <= attempt * n
      BY <1>1, <1>3, <1>6, <1>7
    <3> QED
      BY <1>7, <2>2, <3>1 DEF n
  <2> QED
    BY <2>1, <2>2
<1>8. ASSUME UNCHANGED <<chain, attempt>>, call.at = "handle", call'.at # "handle",
             strays' = strays + Cardinality(Working)
      PROVE  strays' <= (IF call'.at = "handle" THEN attempt' - 1 ELSE attempt') * Cardinality(chain'.members)
  <2>1. strays <= (attempt - 1) * n
    BY <1>8 DEF StraysKept
  <2> HIDE DEF n
  <2>2. strays' <= attempt * n
    BY <1>1, <1>3, <1>8, <2>1
  <2> QED
    BY <1>8, <2>2 DEF n
<1> HIDE DEF n
<1>9. CASE UNCHANGED chainVars
  BY <1>1, <1>7, <1>9 DEF chainVars
<1>10. CASE StrayEnds
  <2>1. strays' = strays - 1 /\ strays > 0 /\ UNCHANGED <<chain, attempt>> /\ call' = call
    BY <1>10 DEF StrayEnds
  <2> QED
    BY <1>1, <1>7, <2>1
<1>11. CASE Drained
  BY <1>1, <1>7, <1>11 DEF Drained, Over
<1>12. CASE CancelCall
  <2>1. call'.at # "handle"
    <3>1. CASE Over("cancelled", "none")
      BY <3>1 DEF Over
    <3>2. CASE call' = [call EXCEPT !.at = "draining"]
      BY <1>1, <3>2, Goes DEF Places
    <3> QED
      BY <1>12, <3>1, <3>2 DEF CancelCall
  <2>2. CASE strays' = strays
    BY <1>1, <1>7, <1>12, <2>1, <2>2 DEF CancelCall
  <2>3. CASE strays' = strays + Cardinality(Working) /\ call.at = "handle"
    BY <1>8, <1>12, <2>1, <2>3 DEF CancelCall
  <2>4. CASE strays' = strays + 0
    BY <1>1, <2>2, <2>4
  <2> QED
    BY <1>12, <2>2, <2>3, <2>4 DEF CancelCall
<1>13. ASSUME NEW answer \in {"yes", "no"} \union HandlerErrors, Check(answer)
       PROVE  strays' <= (IF call'.at = "handle" THEN attempt' - 1 ELSE attempt') * Cardinality(chain'.members)
  BY <1>1, <1>7, <1>13, CheckMoves DEF Check
<1>14. ASSUME NEW error \in HandlerErrors \union {"none"}, GroupReturns(error)
       PROVE  strays' <= (IF call'.at = "handle" THEN attempt' - 1 ELSE attempt') * Cardinality(chain'.members)
  BY <1>8, <1>14, GroupMoves DEF GroupReturns
<1>15. ASSUME NEW error \in HookErrors \union {"none"}, HookEnds(error)
       PROVE  strays' <= (IF call'.at = "handle" THEN attempt' - 1 ELSE attempt') * Cardinality(chain'.members)
  BY <1>1, <1>7, <1>15 DEF HookEnds, HookRaises, Over
<1>16. CASE Attempt
  <2>1. attempt' = attempt + 1 /\ chain' = chain /\ strays' = strays
    BY <1>16 DEF Attempt
  <2>2. call'.at = "handle"
    BY <1>1, <1>16, Goes DEF Attempt, Places
  <2>3. strays' <= (attempt' - 1) * n
    BY <1>3, <1>6, <2>1
  <2> QED
    BY <2>1, <2>2, <2>3 DEF n
<1>17. ASSUME NEW m \in chain.members,
              \/ InnerRetry(m) \/ CancelledEnds(m)
              \/ \E error \in HandlerErrors \union {"none"} : HandlerEnds(m, error)
       PROVE  strays' <= (IF call'.at = "handle" THEN attempt' - 1 ELSE attempt') * Cardinality(chain'.members)
  <2>1. UNCHANGED <<chain, attempt>> /\ strays' = strays /\ call' = call
    BY <1>17 DEF InnerRetry, CancelledEnds, HandlerEnds
  <2> QED
    BY <1>1, <1>7, <2>1
<1> QED
  BY <1>9, <1>10, <1>11, <1>12, <1>13, <1>14, <1>15, <1>16, <1>17 DEF ChainNext

(* The call, its attempts and what a group leaves behind stay within their *)
(* bounds, for any members and attempts (base.py:67-95, retry.py:67-82).   *)
THEOREM ChainTypeCorrect == ChainSpec => []ChainTypeOK
<1>1. ChainInv /\ StraysKept => ChainTypeOK
  <2> SUFFICES ASSUME ChainInv, StraysKept
               PROVE  ChainTypeOK
    OBVIOUS
  <2>1. /\ attempt \in Nat /\ attempt <= OuterAttempts /\ strays \in Nat
        /\ Cardinality(chain.members) \in Nat
    BY WorkingIsFinite, ChainAssumption DEF ChainInv, ChainTyped
  <2>2. Cardinality(Members) \in Nat /\ Cardinality(chain.members) <= Cardinality(Members)
    <3>1. chain.members \in SUBSET Members
      BY DEF ChainInv, ChainTyped
    <3> QED
      BY <3>1, FS_Subset, FS_CardinalityType, ChainAssumption
  <2>3. strays <= attempt * Cardinality(chain.members)
    <3>1. (attempt - 1) * Cardinality(chain.members) + Cardinality(chain.members) = attempt * Cardinality(chain.members)
          /\ attempt * Cardinality(chain.members) \in Nat /\ (attempt - 1) * Cardinality(chain.members) \in Int
      BY <2>1, NextRound
    <3>2. \/ strays <= (attempt - 1) * Cardinality(chain.members)
          \/ strays <= attempt * Cardinality(chain.members)
      BY DEF StraysKept
    <3> QED
      BY <2>1, <3>1, <3>2
  <2>4. /\ attempt * Cardinality(chain.members) <= OuterAttempts * Cardinality(chain.members)
        /\ Cardinality(chain.members) * OuterAttempts <= Cardinality(Members) * OuterAttempts
    BY <2>1, <2>2, MoreRounds, ChainAssumption
  <2>5. strays \in 0..(OuterAttempts * Cardinality(Members))
    <3>1. OuterAttempts * Cardinality(chain.members) = Cardinality(chain.members) * OuterAttempts
          /\ OuterAttempts * Cardinality(Members) = Cardinality(Members) * OuterAttempts
      BY <2>1, <2>2, ChainAssumption
    <3>2. /\ attempt * Cardinality(chain.members) \in Nat /\ OuterAttempts * Cardinality(chain.members) \in Nat
          /\ OuterAttempts * Cardinality(Members) \in Nat
      BY <2>1, <2>2, NextRound, ChainAssumption
    <3> QED
      BY <2>1, <2>3, <2>4, <3>1, <3>2
  <2>6. \A m \in chain.members : /\ branch[m].at \in {"off", "ok", "failed"} \union InProgress
                                 /\ branch[m].attempt \in Nat
    BY ChainAssumption DEF ChainInv, ChainTyped, Branch
  <2> QED
    BY <2>1, <2>5, <2>6 DEF ChainInv, ChainTyped, Calls, Places, StraysKept, ChainTypeOK
<1>2. ChainInv /\ StraysKept /\ [ChainNext]_chainVars => ChainInv' /\ StraysKept'
  BY ChainInvStep, StraysStep
<1> QED
  BY <1>1, <1>2, ChainInvInit, StraysInit, PTL DEF ChainSpec
-------------------------------------------------------------------------------
(* Only pull consumers run, each under the number of a loop that was       *)
(* started; and only producers are closed, for none but they are listed to *)
(* be.                                                                     *)
BusNow ==
  /\ bus.at \in {"settings", "ready", "failed"} /\ bus.producers \in Seq(ProducerNames)
  /\ running \subseteq {c \in ConsumerNames : BusKinds[c] = "pull"}
  /\ loopTask \in [ConsumerNames -> 0..MaxLoops]
  /\ loops \subseteq started /\ started \subseteq ConsumerNames \X (1..MaxLoops)
  /\ wired \in [ConsumerNames -> SUBSET BusHandlers]
  /\ closed \subseteq ProducerNames
  /\ lifespan.at = "closing" => lifespan.todo \in Seq(ProducerNames)

LEMMA BusNowInit == BusInit => BusNow
<1> SUFFICES ASSUME BusInit
             PROVE  BusNow
  OBVIOUS
<1>1. bus.producers \in Seq(ProducerNames)
  <2>1. PICK s \in SUBSET ProducerNames : bus.producers \in SetToSeqs(s)
    BY DEF BusInit, Orderings
  <2>2. Cardinality(s) \in Nat
    BY BusAssumption, FS_Subset, FS_CardinalityType DEF ProducerNames
  <2>3. bus.producers \in [1..Cardinality(s) -> s]
    BY <2>1 DEF SetToSeqs
  <2> QED
    BY <2>2, <2>3
<1> QED
  BY <1>1, BusAssumption DEF BusInit, BusNow

LEMMA StartNow ==
  ASSUME BusInv, BusNow, StartBus
  PROVE  BusNow'
<1> DEFINE next(c) == Cardinality({l \in started : l[1] = c}) + 1
           new == {<<c, next(c)>> : c \in Idlers}
<1>1. /\ \A l \in new : l[2] <= MaxLoops
      /\ loopTask' = [c \in ConsumerNames |-> IF c \in Idlers THEN next(c) ELSE loopTask[c]]
      /\ started' = started \union new /\ loops' = loops \union new
      /\ running' = running \union Idlers
      /\ lifespan' = [lifespan EXCEPT !.at = "up"]
      /\ UNCHANGED <<bus, wired, closed>>
  BY DEF StartBus
<1>2. Idlers \subseteq {c \in ConsumerNames : BusKinds[c] = "pull"}
  <2>1. ToSet(bus.consumers) \subseteq BusNames
    BY DEF ToSet, BusInv, BusTyped
  <2> QED
    BY <2>1 DEF Idlers, ConsumerNames
<1>3. ASSUME NEW c \in ConsumerNames
      PROVE  next(c) \in Nat \ {0}
  <2>1. IsFiniteSet(ConsumerNames \X (1..MaxLoops))
    <3>1. IsFiniteSet(ConsumerNames) /\ IsFiniteSet(1..MaxLoops)
      BY BusAssumption, FS_Subset, FS_Interval DEF ConsumerNames
    <3> QED
      BY <3>1, FS_Product
  <2>2. Cardinality({l \in started : l[1] = c}) \in Nat
    <3>1. {l \in started : l[1] = c} \in SUBSET (ConsumerNames \X (1..MaxLoops))
      BY DEF BusNow
    <3> QED
      BY <2>1, <3>1, FS_Subset, FS_CardinalityType
  <2> QED
    BY <2>2
<1> HIDE DEF next
<1>4. \A c \in Idlers : next(c) \in 1..MaxLoops
  <2> SUFFICES ASSUME NEW c \in Idlers
               PROVE  next(c) \in 1..MaxLoops
    OBVIOUS
  <2>1. <<c, next(c)>> \in new
    OBVIOUS
  <2>2. next(c) <= MaxLoops
    BY <1>1, <2>1
  <2> QED
    BY <1>2, <1>3, <2>2, BusAssumption
<1>5. new \subseteq ConsumerNames \X (1..MaxLoops)
  BY <1>2, <1>4
<1>6. loopTask' \in [ConsumerNames -> 0..MaxLoops]
  BY <1>1, <1>4 DEF BusNow
<1>7. lifespan'.at = "up"
  BY <1>1 DEF BusInv, BusTyped
<1> HIDE DEF new
<1> QED
  BY <1>1, <1>2, <1>5, <1>6, <1>7 DEF BusNow

LEMMA StopNow ==
  ASSUME BusInv, BusNow, StopConsumer
  PROVE  BusNow'
<1> DEFINE c == Head(lifespan.todo)
<1>1. /\ running' \subseteq running /\ UNCHANGED <<bus, loops, started, closed>>
      /\ wired' = wired \/ wired' = [wired EXCEPT ![c] = {}]
      /\ loopTask' = loopTask \/ loopTask' = [loopTask EXCEPT ![c] = 0]
      /\ \/ lifespan' = [lifespan EXCEPT !.at = "waiting"]
         \/ lifespan' = [lifespan EXCEPT !.todo = Tail(@)]
      /\ lifespan.at = "stopping"
  BY DEF StopConsumer
<1>2. lifespan'.at # "closing"
  BY <1>1 DEF BusInv, BusTyped
<1>3. 0 \in 0..MaxLoops
  BY BusAssumption
<1> HIDE DEF c
<1>4. wired' \in [ConsumerNames -> SUBSET BusHandlers] /\ loopTask' \in [ConsumerNames -> 0..MaxLoops]
  BY <1>1, <1>3 DEF BusNow
<1> QED
  BY <1>1, <1>2, <1>4 DEF BusNow

LEMMA CloseNow ==
  ASSUME BusInv, BusNow, NEW fails \in BOOLEAN, CloseProducer(fails)
  PROVE  BusNow'
<1> DEFINE p == Head(lifespan.todo)
<1>1. /\ lifespan.at = "closing" /\ UNCHANGED <<bus, running, loopTask, loops, started, wired>>
      /\ closed' \subseteq closed \union {p}
      /\ \/ lifespan' = [at |-> "broken", todo |-> << >>]
         \/ lifespan' = [at |-> "down", todo |-> << >>]
         \/ lifespan' = [lifespan EXCEPT !.todo = Tail(@)]
  BY DEF CloseProducer
<1>2. lifespan.todo \in Seq(ProducerNames) /\ lifespan.todo # << >>
  BY <1>1 DEF BusNow, BusInv, StillToStop
<1>3. p \in ProducerNames /\ Tail(lifespan.todo) \in Seq(ProducerNames)
  BY <1>2, HeadOrTail
<1> HIDE DEF p
<1>4. lifespan'.at = "closing" => lifespan'.todo \in Seq(ProducerNames)
  <2>1. CASE lifespan'.at \in {"broken", "down"}
    BY <2>1
  <2>2. CASE lifespan' = [lifespan EXCEPT !.todo = Tail(@)]
    <3>1. lifespan'.todo = Tail(lifespan.todo)
      BY <2>2 DEF BusInv, BusTyped
    <3> QED
      BY <1>3, <3>1
  <2> QED
    BY <1>1, <2>1, <2>2
<1> QED
  BY <1>1, <1>3, <1>4 DEF BusNow

LEMMA BusNowStep == BusInv /\ BusNow /\ [BusNext]_busVars => BusNow'
<1> SUFFICES ASSUME BusInv, BusNow, [BusNext]_busVars
             PROVE  BusNow'
  OBVIOUS
<1>1. ASSUME UNCHANGED <<bus, running, loopTask, started, wired, closed>>, loops' \subseteq loops,
             lifespan'.at = "closing" => lifespan'.todo \in Seq(ProducerNames)
      PROVE  BusNow'
  BY <1>1 DEF BusNow
<1>2. CASE UNCHANGED busVars
  <2>1. UNCHANGED <<bus, running, loopTask, started, wired, closed>> /\ loops' = loops /\ lifespan' = lifespan
    BY <1>2 DEF busVars
  <2> QED
    BY <1>1, <2>1 DEF BusNow
<1>3. CASE \E l \in loops : LoopEnds(l)
  <2>1. UNCHANGED <<bus, running, loopTask, started, wired, closed>> /\ loops' \subseteq loops /\ lifespan' = lifespan
    BY <1>3 DEF LoopEnds
  <2> QED
    BY <1>1, <2>1 DEF BusNow
<1>4. CASE Build
  <2>1. /\ UNCHANGED <<running, loopTask, loops, started, wired, closed, lifespan>>
        /\ bus'.producers = bus.producers /\ bus'.at \in {"ready", "failed"}
    BY <1>4 DEF Build, BusInv, BusTyped
  <2> QED
    BY <2>1 DEF BusNow
<1>5. CASE StartBus
  BY <1>5, StartNow
<1>6. CASE StopBus
  <2>1. lifespan' = [at |-> "stopping", todo |-> bus.consumers]
        /\ UNCHANGED <<bus, running, loopTask, loops, started, wired, closed>>
    BY <1>6 DEF StopBus
  <2> QED
    BY <2>1 DEF BusNow
<1>7. CASE StopConsumer
  BY <1>7, StopNow
<1>8. CASE LoopAwaited
  <2> DEFINE c == Head(lifespan.todo)
  <2>1. /\ lifespan' = [at |-> "stopping", todo |-> Tail(lifespan.todo)]
        /\ loopTask' = [loopTask EXCEPT ![c] = 0]
        /\ UNCHANGED <<bus, running, loops, started, wired, closed>>
    BY <1>8 DEF LoopAwaited
  <2>2. 0 \in 0..MaxLoops
    BY BusAssumption
  <2> HIDE DEF c
  <2>3. loopTask' \in [ConsumerNames -> 0..MaxLoops]
    BY <2>1, <2>2 DEF BusNow
  <2>4. lifespan'.at = "stopping"
    BY <2>1
  <2> QED
    BY <2>1, <2>3, <2>4 DEF BusNow
<1>9. CASE ConsumersStopped
  <2>1. /\ \/ lifespan' = [at |-> "down", todo |-> << >>]
           \/ lifespan' = [at |-> "closing", todo |-> bus.producers]
        /\ UNCHANGED <<bus, running, loopTask, loops, started, wired, closed>>
    BY <1>9 DEF ConsumersStopped
  <2> QED
    BY <2>1 DEF BusNow
<1>10. CASE \E fails \in BOOLEAN : CloseProducer(fails)
  BY <1>10, CloseNow
<1>11. ASSUME NEW h \in BusHandlers, NEW targets \in SUBSET ToSet(bus.consumers), SubscribeTo(h, targets)
       PROVE  BusNow'
  <2>1. wired' \in [ConsumerNames -> SUBSET BusHandlers]
    BY <1>11 DEF SubscribeTo, BusNow
  <2>2. UNCHANGED <<bus, running, loopTask, loops, started, closed, lifespan>>
    BY <1>11 DEF SubscribeTo
  <2> QED
    BY <2>1, <2>2 DEF BusNow
<1>12. ASSUME NEW a \in Publishers,
              \/ \E to \in {bus.producers} \union {<<p>> : p \in ToSet(bus.producers)} : BeginPublish(a, to)
              \/ \E taken, raises \in BOOLEAN : PublishNext(a, taken, raises)
       PROVE  BusNow'
  <2>1. UNCHANGED <<bus, running, loopTask, started, wired, closed>> /\ loops' = loops /\ lifespan' = lifespan
    BY <1>12 DEF BeginPublish, PublishNext
  <2> QED
    BY <1>1, <2>1 DEF BusNow
<1> QED
  BY <1>2, <1>3, <1>4, <1>5, <1>6, <1>7, <1>8, <1>9, <1>10, <1>11, <1>12 DEF BusNext

(* Only pull consumers get loops, only producers are closed, and the       *)
(* lifespan is somewhere, for any configuration and errors                 *)
(* (event_bus.py:196-279, pull.py:60-135).                                 *)
THEOREM BusTypeCorrect == BusSpec => []BusTypeOK
<1>1. BusInv /\ PublishInv /\ BusNow => BusTypeOK
  <2> SUFFICES ASSUME BusInv, PublishInv, BusNow
               PROVE  BusTypeOK
    OBVIOUS
  <2>1. lifespan.at \in {"down", "up", "stopping", "waiting", "closing", "broken"}
    BY DEF BusInv, BusTyped
  <2>2. \A a \in Publishers : publish[a].result \in {"none", "raised", "ok"}
    BY DEF PublishInv, Publication
  <2> QED
    BY <2>1, <2>2 DEF BusNow, BusTypeOK
<1>2. BusInv /\ PublishInv /\ BusNow /\ [BusNext]_busVars => BusInv' /\ PublishInv' /\ BusNow'
  BY BusStep, PublishStep, BusNowStep
<1> QED
  BY <1>1, <1>2, BusInvInit, PublishInvInit, BusNowInit, PTL DEF BusSpec
-------------------------------------------------------------------------------
(* Faults, copies and receives stay within their bounds: a message comes   *)
(* back without a fault of its service only while the handler has not      *)
(* given up on it, and one that is being handled has been received once    *)
(* more than that.                                                         *)
Busied(m) == \E w \in busy : w.msg = m

FitsBounds(m) ==
  /\ m.copy \in 1..copies[m.service][m.order]
  /\ m.receives <= GiveUp(m.service) + faults[m.service] - (IF Busied(m) THEN 0 ELSE 1)

FanNow ==
  /\ cursed \in [Flaky -> SUBSET Orders]
  /\ \A s \in Services : faults[s] <= MaxFaults
  /\ copies \in [Services -> [Orders -> 0..MaxCopies]]
  /\ \A m \in queues : FitsBounds(m)
  /\ \A d \in deadLetters : d[1] \in Flaky /\ d[3] >= GiveUp(d[1])

LEMMA FourAreFinite == \A a, b, c, d : IsFiniteSet({a, b, c, d})
<1> TAKE a, b, c, d
<1>1. IsFiniteSet({a} \union {b}) /\ IsFiniteSet({c} \union {d})
  BY FS_Singleton, FS_Union
<1>2. IsFiniteSet(({a} \union {b}) \union ({c} \union {d}))
  BY <1>1, FS_Union
<1>3. ({a} \union {b}) \union ({c} \union {d}) = {a, b, c, d}
  OBVIOUS
<1> QED
  BY <1>2, <1>3

LEMMA ServicesAreFinite == IsFiniteSet(Services)
<1> DEFINE B == {"shipping-svc", "billing-svc", "loyalty-svc", "receipt-svc"}
           C == {"booking-svc", "payment-svc", "shipment-svc", "email-worker"}
<1>1. {Branches[i] : i \in DOMAIN Branches} \subseteq B
  BY FanOutAssumption
<1>2. {Chain[i] : i \in DOMAIN Chain} \subseteq C
  BY DEF Chain
<1>3. IsFiniteSet(B) /\ IsFiniteSet(C) /\ IsFiniteSet({"order-svc"})
  BY FourAreFinite, FS_Singleton
<1> HIDE DEF B, C
<1>4. IsFiniteSet(({"order-svc"} \union B) \union C)
  BY <1>3, FS_Union
<1>5. Services \in SUBSET (({"order-svc"} \union B) \union C)
  BY <1>1, <1>2 DEF Services
<1> QED
  BY <1>4, <1>5, FS_Subset

(* The faults of one service are some of the faults there are.             *)
LEMMA FaultsToSpare ==
  ASSUME FanTyped, NEW s \in Services, TotalFaults < MaxFaults
  PROVE  faults[s] < MaxFaults
<1> DEFINE All == {f \in Services \X (1..MaxFaults) : f[2] <= faults[f[1]]}
           Own == {s} \X (1..MaxFaults)
<1>1. faults[s] \in Nat /\ MaxFaults \in Nat
  BY FanOutAssumption DEF FanTyped
<1>2. IsFiniteSet(1..MaxFaults) /\ Cardinality(1..MaxFaults) = MaxFaults
  BY <1>1, FS_Interval
<1>3. IsFiniteSet(All)
  <2>1. IsFiniteSet(Services \X (1..MaxFaults))
    BY <1>2, ServicesAreFinite, FS_Product
  <2>2. All \in SUBSET (Services \X (1..MaxFaults))
    OBVIOUS
  <2> QED
    BY <2>1, <2>2, FS_Subset
<1>4. Cardinality(Own) = MaxFaults
  <2>1. IsFiniteSet({s}) /\ Cardinality({s}) = 1
    BY FS_Singleton
  <2>2. Cardinality({s} \X (1..MaxFaults)) = Cardinality({s}) * Cardinality(1..MaxFaults)
    BY ONLY <1>2, <2>1, FS_Product, ZenonT(60)
  <2>3. Own = {s} \X (1..MaxFaults)
    OBVIOUS
  <2> HIDE DEF All, Own
  <2>4. Cardinality(Own) = 1 * MaxFaults
    BY <1>2, <2>1, <2>2, <2>3, Zenon
  <2> QED
    BY ONLY <1>1, <2>4
<1>5. ASSUME faults[s] >= MaxFaults
      PROVE  FALSE
  <2>1. Own \in SUBSET All
    BY <1>1, <1>5
  <2> HIDE DEF All, Own
  <2>2. Cardinality(Own) <= Cardinality(All) /\ Cardinality(All) \in Nat
    BY <1>3, <2>1, FS_Subset, FS_CardinalityType
  <2>3. Cardinality(All) < MaxFaults
    BY DEF TotalFaults, All
  <2> QED
    BY <1>1, <1>4, <2>2, <2>3
<1> QED
  BY <1>1, <1>5

LEMMA FaultsWithin ==
  ASSUME FanTyped, FanNow, NEW s \in Services, NEW fails \in BOOLEAN, Faulty(s, fails)
  PROVE  /\ \A t \in Services : faults'[t] <= MaxFaults
         /\ \A t \in Services : faults'[t] = IF t = s /\ fails THEN faults[t] + 1 ELSE faults[t]
<1>1. \A t \in Services : faults'[t] = IF t = s /\ fails THEN faults[t] + 1 ELSE faults[t]
  BY FaultCounts
<1>2. fails => faults[s] < MaxFaults
  BY FaultsToSpare DEF Faulty
<1> QED
  BY <1>1, <1>2, FanOutAssumption DEF FanNow, FanTyped

(* Sending stays within the copies there may be, and the message fits.     *)
LEMMA SendFits ==
  ASSUME FanTyped, FanNow, NEW s \in Services, NEW o \in Orders, SendTo(s, o),
         NEW m, m = Carry(s, o), faults' \in [Services -> Nat]
  PROVE  /\ copies' \in [Services -> [Orders -> 0..MaxCopies]]
         /\ \A t \in Services, p \in Orders : copies'[t][p] >= copies[t][p]
         /\ FitsBounds(m)'
<1>1. /\ copies[s][o] \in Nat /\ copies[s][o] < MaxCopies
      /\ copies' = [copies EXCEPT ![s] = [copies[s] EXCEPT ![o] = copies[s][o] + 1]]
  BY DEF SendTo, FanTyped, Counts
<1>2. copies[s][o] + 1 \in 0..MaxCopies
  BY <1>1, FanOutAssumption
<1>3. copies' \in [Services -> [Orders -> 0..MaxCopies]]
  BY <1>1, <1>2 DEF FanNow
<1>4. \A t \in Services, p \in Orders : copies'[t][p] >= copies[t][p]
  BY SendCounts
<1>5. copies'[s][o] = copies[s][o] + 1
  BY <1>1 DEF FanNow
<1>6. FitsBounds(m)'
  <2>1. m.service = s /\ m.order = o /\ m.receives = 0 /\ m.copy = copies[s][o] + 1
    BY DEF Carry
  <2>2. m.copy \in 1..copies'[m.service][m.order]
    BY <1>1, <1>5, <2>1
  <2>3. GiveUp(s) \in {3, 4} /\ faults'[s] \in Nat
    BY DEF GiveUp
  <2>4. m.receives <= GiveUp(m.service) + faults'[m.service] - (IF Busied(m)' THEN 0 ELSE 1)
    BY <2>1, <2>3
  <2> QED
    BY <2>2, <2>4 DEF FitsBounds
<1> QED
  BY <1>3, <1>4, <1>6

LEMMA StillFits ==
  ASSUME FanTyped, FanTyped', NEW m \in queues, FitsBounds(m),
         \A t \in Services, p \in Orders : copies'[t][p] >= copies[t][p],
         \A t \in Services : faults'[t] >= faults[t],
         Busied(m) => \/ Busied(m)'
                      \/ faults'[m.service] > faults[m.service]
                      \/ m.receives < GiveUp(m.service)
  PROVE  FitsBounds(m)'
<1>1. m.service \in Services /\ m.order \in Orders /\ m.copy \in Nat /\ m.receives \in Nat
  BY DEF FanTyped, Messages
<1>2. /\ copies[m.service][m.order] \in Nat /\ copies'[m.service][m.order] \in Nat
      /\ copies'[m.service][m.order] >= copies[m.service][m.order]
      /\ faults[m.service] \in Nat /\ faults'[m.service] \in Nat
      /\ faults'[m.service] >= faults[m.service]
  BY <1>1 DEF FanTyped, Counts
<1>3. m.copy \in 1..copies'[m.service][m.order]
  BY <1>1, <1>2 DEF FitsBounds
<1>4. GiveUp(m.service) \in Nat
  BY DEF GiveUp
<1>5. m.receives <= GiveUp(m.service) + faults'[m.service] - (IF Busied(m)' THEN 0 ELSE 1)
  <2>1. CASE Busied(m)'
    BY <1>1, <1>2, <1>4, <2>1 DEF FitsBounds
  <2>2. CASE ~ Busied(m)' /\ ~ Busied(m)
    BY <1>1, <1>2, <1>4, <2>2 DEF FitsBounds
  <2>3. CASE ~ Busied(m)' /\ Busied(m)
    BY <1>1, <1>2, <1>4, <2>3 DEF FitsBounds
  <2> QED
    BY <2>1, <2>2, <2>3
<1> QED
  BY <1>3, <1>5 DEF FitsBounds

(* A delivery is over: the others are still being handled.                 *)
LEMMA LeaveFits ==
  ASSUME FanTyped, FanTyped', FanNow, NEW w \in busy, busy' = Left(w),
         \A t \in Services, p \in Orders : copies'[t][p] >= copies[t][p],
         \A t \in Services : faults'[t] >= faults[t],
         NEW m \in queues,
         m = w.msg => \/ faults'[m.service] > faults[m.service]
                      \/ m.receives < GiveUp(m.service)
  PROVE  FitsBounds(m)'
<1>1. CASE m = w.msg
  BY <1>1, StillFits DEF FanNow
<1>2. CASE m # w.msg
  <2>1. Busied(m) => Busied(m)'
    BY <1>2 DEF Busied, Left
  <2> QED
    BY <2>1, StillFits DEF FanNow
<1> QED
  BY <1>1, <1>2

LEMMA FanNowInit == FanOutInit => FanNow
BY FanOutAssumption DEF FanOutInit, FanNow

LEMMA EmitNow ==
  ASSUME FanInv, FanInv', FanNow, NEW o \in Orders, Emit(o)
  PROVE  FanNow'
<1>1. PICK s \in Services : s = Source
  BY SourceIsService DEF FanInv, FanTyped
<1>2. PICK m : m = Carry(s, o)
  OBVIOUS
<1>3. /\ queues' = queues \union {m} /\ SendTo(s, o)
      /\ UNCHANGED <<cursed, busy, deadLetters, faults>>
  BY <1>1, <1>2 DEF Emit
<1>4. /\ copies' \in [Services -> [Orders -> 0..MaxCopies]]
      /\ \A t \in Services, p \in Orders : copies'[t][p] >= copies[t][p]
      /\ FitsBounds(m)'
  BY <1>2, <1>3, SendFits DEF FanInv, FanTyped
<1>5. ASSUME NEW n \in queues
      PROVE  FitsBounds(n)'
  <2>1. Busied(n)' <=> Busied(n)
    BY <1>3 DEF Busied
  <2>2. \A t \in Services : faults'[t] >= faults[t]
    BY <1>3 DEF FanInv, FanTyped
  <2> QED
    BY <1>4, <2>1, <2>2, StillFits DEF FanInv, FanNow
<1> QED
  BY <1>3, <1>4, <1>5 DEF FanNow

LEMMA ReceiveNow ==
  ASSUME FanInv, FanInv', FanNow, NEW m \in queues, NEW fails \in BOOLEAN, Receive(m, fails)
  PROVE  FanNow'
<1> DEFINE got == [m EXCEPT !.receives = @ + 1]
<1>1. /\ m \in Messages /\ m.service \in Services /\ m.order \in Orders /\ m.receives \in Nat
      /\ got.service = m.service /\ got.order = m.order /\ got.copy = m.copy
      /\ got.receives = m.receives + 1
  BY DEF FanInv, FanTyped, Messages
<1>2. ~ Busied(m) /\ UNCHANGED <<cursed, copies, deadLetters>>
  BY DEF Receive, Busied
<1>3. GiveUp(m.service) \in Nat /\ faults[m.service] \in Nat /\ copies[m.service][m.order] \in Nat
  BY <1>1 DEF GiveUp, FanInv, FanTyped, Counts
<1>4. m.copy \in 1..copies'[m.service][m.order]
      /\ m.receives <= GiveUp(m.service) + faults[m.service] - 1
  BY <1>2 DEF FanNow, FitsBounds
<1>5. ASSUME busy \subseteq busy', \A t \in Services : faults'[t] >= faults[t], NEW n \in queues
      PROVE  FitsBounds(n)'
  <2>1. Busied(n) => Busied(n)'
    BY <1>5 DEF Busied
  <2>2. \A t \in Services, p \in Orders : copies'[t][p] >= copies[t][p]
    BY <1>2 DEF FanInv, FanTyped, Counts
  <2> QED
    BY <1>5, <2>1, <2>2, StillFits DEF FanInv, FanNow
<1>6. CASE <<m.service, m.order>> \in held
  <2>1. /\ queues' = (queues \ {m}) \union (IF fails THEN {got} ELSE {})
        /\ Faulty(m.service, fails) /\ UNCHANGED <<held, busy>>
    BY <1>6 DEF Receive, KeyOf
  <2>2. /\ \A t \in Services : faults'[t] <= MaxFaults
        /\ \A t \in Services : faults'[t] = IF t = m.service /\ fails THEN faults[t] + 1 ELSE faults[t]
    BY <1>1, <2>1, FaultsWithin DEF FanInv
  <2>3. \A t \in Services : faults'[t] >= faults[t]
    BY <2>2 DEF FanInv, FanTyped
  <2> HIDE DEF got
  <2>4. fails => FitsBounds(got)'
    <3>1. fails => faults'[m.service] = faults[m.service] + 1
      BY <1>1, <2>2
    <3> QED
      BY <1>1, <1>3, <1>4, <3>1 DEF FitsBounds
  <2> QED
    BY <1>2, <1>5, <2>1, <2>2, <2>3, <2>4 DEF FanNow
<1>7. CASE <<m.service, m.order>> \notin held
  <2>1. /\ queues' = (queues \ {m}) \union {got}
        /\ busy' = busy \union {[msg |-> got, done |-> 0]} /\ UNCHANGED faults
    BY <1>7 DEF Receive, KeyOf
  <2> HIDE DEF got
  <2>2. Busied(got)'
    <3> DEFINE v == [msg |-> got, done |-> 0]
    <3>1. v \in busy' /\ v.msg = got
      BY <2>1
    <3> HIDE DEF v
    <3> QED
      BY <3>1 DEF Busied
  <2>3. FitsBounds(got)'
    BY <1>1, <1>3, <1>4, <2>1, <2>2 DEF FitsBounds
  <2>4. \A t \in Services : faults'[t] >= faults[t]
    BY <2>1 DEF FanInv, FanTyped
  <2> QED
    BY <1>2, <1>5, <2>1, <2>3, <2>4 DEF FanNow
<1> QED
  BY <1>6, <1>7

LEMMA BranchNow ==
  ASSUME FanInv, FanInv', FanNow, NEW w \in busy, PublishBranch(w)
  PROVE  FanNow'
<1>1. /\ w.done < Len(NextServices(w.msg.service)) /\ w.done \in Nat
      /\ w.msg.order \in Orders
  BY BusyIsTyped DEF PublishBranch, FanInv
<1>2. PICK to \in Services : to = NextServices(w.msg.service)[w.done + 1]
  BY <1>1, NextIsService
<1>3. PICK m : m = Carry(to, w.msg.order)
  OBVIOUS
<1>4. /\ SendTo(to, w.msg.order) /\ queues' = queues \union {m}
      /\ busy' = Left(w) \union {[w EXCEPT !.done = @ + 1]}
      /\ UNCHANGED <<cursed, deadLetters, faults>>
  BY <1>2, <1>3 DEF PublishBranch
<1>5. /\ copies' \in [Services -> [Orders -> 0..MaxCopies]]
      /\ \A t \in Services, p \in Orders : copies'[t][p] >= copies[t][p]
      /\ FitsBounds(m)'
  BY <1>1, <1>3, <1>4, SendFits DEF FanInv, FanTyped
<1>6. ASSUME NEW n \in queues
      PROVE  FitsBounds(n)'
  <2>1. [w EXCEPT !.done = @ + 1].msg = w.msg
    BY DEF FanInv, FanTyped
  <2>2. Busied(n) => Busied(n)'
    BY <1>4, <2>1 DEF Busied, Left
  <2>3. \A t \in Services : faults'[t] >= faults[t]
    BY <1>4 DEF FanInv, FanTyped
  <2> QED
    BY <1>5, <2>2, <2>3, StillFits DEF FanInv, FanNow
<1> QED
  BY <1>4, <1>5, <1>6 DEF FanNow

LEMMA RaisesNow ==
  ASSUME FanInv, FanInv', FanNow, NEW w \in busy, NEW taken \in BOOLEAN, PublishRaises(w, taken)
  PROVE  FanNow'
<1>0. w.done \in Nat /\ w.msg.service \in Services /\ w.msg.order \in Orders
  BY BusyIsTyped DEF FanInv
<1>1. /\ w.done < Len(NextServices(w.msg.service))
      /\ busy' = Left(w) /\ UNCHANGED <<cursed, deadLetters>> /\ Faulty(w.msg.service, TRUE)
  BY DEF PublishRaises
<1>2. PICK to \in Services : to = NextServices(w.msg.service)[w.done + 1]
  BY <1>0, <1>1, NextIsService
<1>3. PICK m : m = Carry(to, w.msg.order)
  OBVIOUS
<1>4. /\ \A t \in Services : faults'[t] <= MaxFaults
      /\ \A t \in Services : faults'[t] = IF t = w.msg.service /\ TRUE THEN faults[t] + 1 ELSE faults[t]
  BY <1>0, <1>1, FaultsWithin DEF FanInv
<1>5. /\ copies' \in [Services -> [Orders -> 0..MaxCopies]]
      /\ \A t \in Services, p \in Orders : copies'[t][p] >= copies[t][p]
      /\ \A n \in queues' : n \in queues \/ FitsBounds(n)'
  <2>1. CASE taken
    <3>1. SendTo(to, w.msg.order) /\ queues' = queues \union {m}
      BY <1>2, <1>3, <2>1 DEF PublishRaises
    <3> QED
      BY <1>0, <1>3, <3>1, SendFits DEF FanInv, FanTyped
  <2>2. CASE ~ taken
    BY <2>2 DEF PublishRaises, FanInv, FanTyped, Counts, FanNow
  <2> QED
    BY <2>1, <2>2
<1>6. ASSUME NEW n \in queues
      PROVE  FitsBounds(n)'
  <2>1. /\ \A t \in Services : faults'[t] >= faults[t]
        /\ faults'[w.msg.service] > faults[w.msg.service]
    BY <1>0, <1>4 DEF FanInv, FanTyped
  <2> QED
    BY <1>1, <1>5, <2>1, LeaveFits DEF FanInv
<1> QED
  BY <1>1, <1>4, <1>5, <1>6 DEF FanNow

LEMMA HandledNow ==
  ASSUME FanInv, FanInv', FanNow, NEW w \in busy, NEW fails \in BOOLEAN, Handled(w, fails)
  PROVE  FanNow'
<1>1. /\ busy' = Left(w) /\ UNCHANGED <<cursed, copies, deadLetters>> /\ Faulty(w.msg.service, fails)
      /\ queues' \subseteq queues /\ (~ fails => w.msg \notin queues')
  BY DEF Handled
<1>2. w.msg.service \in Services
  BY BusyIsTyped DEF FanInv
<1>3. /\ \A t \in Services : faults'[t] <= MaxFaults
      /\ \A t \in Services : faults'[t] = IF t = w.msg.service /\ fails THEN faults[t] + 1 ELSE faults[t]
  BY <1>1, <1>2, FaultsWithin DEF FanInv
<1>4. ASSUME NEW n \in queues'
      PROVE  FitsBounds(n)'
  <2>1. /\ \A t \in Services : faults'[t] >= faults[t]
        /\ fails => faults'[w.msg.service] > faults[w.msg.service]
    BY <1>2, <1>3 DEF FanInv, FanTyped
  <2>2. \A t \in Services, p \in Orders : copies'[t][p] >= copies[t][p]
    BY <1>1 DEF FanInv, FanTyped, Counts
  <2>3. n \in queues /\ (n = w.msg => faults'[n.service] > faults[n.service])
    BY <1>1, <1>4, <2>1
  <2> QED
    BY <1>1, <2>1, <2>2, <2>3, LeaveFits DEF FanInv
<1> QED
  BY <1>1, <1>3, <1>4 DEF FanNow

LEMMA RefusedNow ==
  ASSUME FanInv, FanInv', FanNow, NEW w \in busy, NEW sent \in BOOLEAN, NEW removed \in BOOLEAN,
         Refused(w, sent, removed)
  PROVE  FanNow'
<1>1. busy' = Left(w) /\ UNCHANGED <<cursed, copies>> /\ w.msg.service \in Flaky
  BY DEF Refused, Cursed
<1>2. w.msg.service \in Services /\ w.msg.receives \in Nat /\ GiveUp(w.msg.service) \in Nat
  BY BusyIsTyped DEF FanInv, Messages, GiveUp
<1>3. \A t \in Services, p \in Orders : copies'[t][p] >= copies[t][p]
  BY <1>1 DEF FanInv, FanTyped, Counts
<1>4. CASE GivesUpNow(w)
  <2>1. /\ Faulty(w.msg.service, ~ sent \/ ~ removed)
        /\ \/ deadLetters' = deadLetters
           \/ deadLetters' = deadLetters \union {<<w.msg.service, w.msg.order, w.msg.receives>>}
        /\ IF removed THEN queues' = queues \ {w.msg} ELSE queues' = queues
    BY <1>4 DEF Refused
  <2>2. /\ \A t \in Services : faults'[t] <= MaxFaults
        /\ \A t \in Services : faults'[t] = IF t = w.msg.service /\ (~ sent \/ ~ removed)
                                            THEN faults[t] + 1 ELSE faults[t]
    BY <1>2, <2>1, FaultsWithin DEF FanInv
  <2>3. /\ \A t \in Services : faults'[t] >= faults[t]
        /\ ~ removed => faults'[w.msg.service] > faults[w.msg.service]
    BY <1>2, <2>2 DEF FanInv, FanTyped
  <2>4. ASSUME NEW n \in queues'
        PROVE  FitsBounds(n)'
    <3>1. n \in queues /\ (n = w.msg => faults'[n.service] > faults[n.service])
      BY <2>1, <2>3, <2>4
    <3> QED
      BY <1>1, <1>3, <2>3, <3>1, LeaveFits DEF FanInv
  <2>5. w.msg.receives >= GiveUp(w.msg.service)
    BY <1>4 DEF GivesUpNow
  <2>6. \A d \in deadLetters' : d[1] \in Flaky /\ d[3] >= GiveUp(d[1])
    BY <1>1, <2>1, <2>5 DEF FanNow
  <2> QED
    BY <1>1, <2>2, <2>4, <2>6 DEF FanNow
<1>5. CASE ~ GivesUpNow(w)
  <2>1. UNCHANGED <<deadLetters, queues, faults>>
    BY <1>5 DEF Refused
  <2>2. w.msg.receives < GiveUp(w.msg.service)
    BY <1>2, <1>5 DEF GivesUpNow
  <2>3. \A t \in Services : faults'[t] >= faults[t]
    BY <2>1 DEF FanInv, FanTyped
  <2>4. ASSUME NEW n \in queues
        PROVE  FitsBounds(n)'
    BY <1>1, <1>3, <2>2, <2>3, LeaveFits DEF FanInv
  <2> QED
    BY <1>1, <2>1, <2>4 DEF FanNow
<1> QED
  BY <1>4, <1>5

LEMMA RestartNow ==
  ASSUME FanInv, FanInv', FanNow, NEW s \in Services, RestartService(s)
  PROVE  FanNow'
<1>1. /\ busy' = {w \in busy : w.msg.service # s} /\ Faulty(s, TRUE)
      /\ UNCHANGED <<queues, copies, deadLetters>>
  BY DEF RestartService
<1>2. /\ \A t \in Services : faults'[t] <= MaxFaults
      /\ \A t \in Services : faults'[t] = IF t = s /\ TRUE THEN faults[t] + 1 ELSE faults[t]
  BY <1>1, FaultsWithin DEF FanInv
<1>3. \A t \in Services : faults'[t] >= faults[t] /\ (t = s => faults'[t] > faults[t])
  BY <1>2 DEF FanInv, FanTyped
<1>4. \A t \in Services, p \in Orders : copies'[t][p] >= copies[t][p]
  BY <1>1 DEF FanInv, FanTyped, Counts
<1>5. ASSUME NEW m \in queues
      PROVE  FitsBounds(m)'
  <2>1. m.service \in Services
    BY DEF FanInv, FanTyped, Messages
  <2>2. Busied(m) => Busied(m)' \/ m.service = s
    BY <1>1 DEF Busied
  <2> QED
    BY <1>3, <1>4, <2>1, <2>2, StillFits DEF FanInv, FanNow
<1>6. cursed' \in [Flaky -> SUBSET Orders]
  BY DEF RestartService, FanNow
<1> QED
  BY <1>1, <1>2, <1>5, <1>6 DEF FanNow

LEMMA FanNowStep == FanInv /\ FanNow /\ [FanOutNext]_fanVars => FanNow'
<1> SUFFICES ASSUME FanInv, FanNow, [FanOutNext]_fanVars
             PROVE  FanNow'
  OBVIOUS
<1>1. FanInv'
  BY FanInvStep
<1>2. CASE UNCHANGED fanVars
  BY <1>2 DEF fanVars, FanNow, FitsBounds, Busied
<1> QED
  BY <1>1, <1>2, EmitNow, ReceiveNow, BranchNow, RaisesNow, HandledNow, RefusedNow, RestartNow
     DEF FanOutNext

(* A message is received no more often than its handler tries it and       *)
(* faults bring it back, is one of the copies sent, and goes to the        *)
(* dead-letter queue only after its handler has given up; for any orders,  *)
(* branches and bounds (subscribers.py:53-93, sqs_localstack_saga.py:111-160). *)
THEOREM FanOutTypeCorrect == FanOutSpec => []FanOutTypeOK
<1>1. FanInv /\ FanNow => FanOutTypeOK
  <2> SUFFICES ASSUME FanInv, FanNow
               PROVE  FanOutTypeOK
    OBVIOUS
  <2>1. ASSUME NEW m \in queues
        PROVE  /\ m.service \in Services /\ m.copy \in 1..copies[m.service][m.order]
               /\ m.receives \in 0..GiveUp(m.service) + MaxFaults
    <3>1. m.service \in Services /\ m.receives \in Nat /\ GiveUp(m.service) \in Nat
      BY DEF FanInv, FanTyped, Messages, GiveUp
    <3>2. faults[m.service] \in Nat /\ faults[m.service] <= MaxFaults
      BY <3>1 DEF FanInv, FanTyped, FanNow
    <3>3. m.copy \in 1..copies[m.service][m.order] /\ m.receives <= GiveUp(m.service) + faults[m.service]
      <4>1. FitsBounds(m)
        BY DEF FanNow
      <4> QED
        BY <3>1, <3>2, <4>1 DEF FitsBounds
    <3> QED
      BY <3>1, <3>2, <3>3, FanOutAssumption
  <2>2. ASSUME NEW w \in busy
        PROVE  /\ w.msg \in queues /\ w.done \in 0..Len(NextServices(w.msg.service))
               /\ \E h \in held : h[1] = w.msg.service
    <3>1. w.msg \in queues /\ <<w.msg.service, w.msg.order>> \in held
      BY DEF FanInv, BusyKept
    <3> QED
      BY <3>1, BusyIsTyped DEF FanInv
  <2> QED
    BY <2>1, <2>2 DEF FanInv, FanTyped, FanNow, FanOutTypeOK
<1>2. FanInv /\ FanNow /\ [FanOutNext]_fanVars => FanInv' /\ FanNow'
  BY FanInvStep, FanNowStep
<1> QED
  BY <1>1, <1>2, FanInvInit, FanNowInit, PTL DEF FanOutSpec
-------------------------------------------------------------------------------
(* The run of all benches is a behaviour of each part (event_bus.py,       *)
(* subscriber/, idempotency/store.py, scheduler/repeat.py).                *)
LEMMA BenchesArePlayed ==
  MCSpec => BusSpec /\ ChainSpec /\ FanOutSpec /\ StoreSpec /\ TaskSpec
<1>1. MCInit => BusInit /\ ChainInit /\ FanOutInit /\ StoreInit /\ TaskInit
  BY DEF MCInit
<1>2. [MCNext]_benchVars => /\ [BusNext]_busVars /\ [ChainNext]_chainVars /\ [FanOutNext]_fanVars
                            /\ [StoreNext]_storeVars /\ [TaskNext]_taskVars
  BY DEF MCNext, benchVars
<1> QED
  BY <1>1, <1>2, PTL DEF MCSpec, BusSpec, ChainSpec, FanOutSpec, StoreSpec, TaskSpec

(* Bus, subscriber, example services, store and periodic task keep their   *)
(* types in the run of all benches (event_bus.py, subscriber/,             *)
(* idempotency/store.py, scheduler/repeat.py).                             *)
THEOREM AppsTypeCorrect == MCSpec => []AppsTypeOK
<1>1. AppsTypeOK <=> BusTypeOK /\ ChainTypeOK /\ FanOutTypeOK /\ StoreTypeOK /\ TaskTypeOK
  BY DEF AppsTypeOK
<1> QED
  BY <1>1, BenchesArePlayed, BusTypeCorrect, ChainTypeCorrect, FanOutTypeCorrect, StoreTypeCorrect,
     TaskTypeCorrect, PTL
===============================================================================
