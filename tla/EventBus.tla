------------------------------- MODULE EventBus -------------------------------
(***************************************************************************)
(* The bus an application builds from its settings (event/event_bus.py,    *)
(* settings.py) and the lifecycle of its consumers and producers:          *)
(* subscribe, start and stop by the application's lifespan, publish by any *)
(* of its tasks.  A coroutine that never suspends is one step: start() is, *)
(* stop() waits for the loop it cancels, publish() for each transport.     *)
(***************************************************************************)
EXTENDS Integers, Sequences, FiniteSets, SequencesExt

CONSTANTS BusNames,      \* names a configuration may use
          LowerName,     \* str.lower(), a function on BusNames
          BusKinds,      \* type of a name: "pull", "push" or a producer, "sqs" or "redis"
          Publishers,    \* tasks that publish
          BusHandlers,
          MaxLoops, MaxPublishes   \* bounds

ASSUME BusAssumption ==
  /\ IsFiniteSet(BusNames)
  /\ LowerName \in [BusNames -> BusNames]
  /\ BusKinds \in [BusNames -> {"pull", "push", "sqs", "redis"}]
  /\ MaxLoops \in Nat /\ MaxPublishes \in Nat

ConsumerNames == {n \in BusNames : BusKinds[n] \in {"pull", "push"}}
ProducerNames == BusNames \ ConsumerNames

VARIABLES bus,       \* "settings", "ready", "failed"; order of the names; configs used
          running,   \* _running, per consumer
          loopTask,  \* _loop_task, per consumer, 0 is none
          loops,     \* loop tasks that have not ended: consumer and number
          started,   \* history: loop tasks so far
          wired,     \* subscribers of each consumer
          closed,    \* producers closed
          lifespan,  \* where the lifespan task is
          publish,   \* per publisher: the producers still to do, done, and the result
          publishes  \* publishes so far

busVars == <<bus, running, loopTask, loops, started, wired, closed, lifespan, publish, publishes>>

NoPublication == [todo |-> << >>, to |-> << >>, sent |-> {}, result |-> "none"]

BusTypeOK ==
  /\ bus.at \in {"settings", "ready", "failed"}
  /\ running \subseteq {c \in ConsumerNames : BusKinds[c] = "pull"} /\ closed \subseteq ProducerNames
  /\ loopTask \in [ConsumerNames -> 0..MaxLoops]
  /\ loops \subseteq started /\ started \subseteq ConsumerNames \X (1..MaxLoops)
  /\ wired \in [ConsumerNames -> SUBSET BusHandlers]
  /\ lifespan.at \in {"down", "up", "stopping", "waiting", "closing", "broken"}
  /\ \A a \in Publishers : publish[a].result \in {"none", "raised", "ok"}

(* The names of a configuration, in the order of its mapping. *)
Orderings(names) == UNION {SetToSeqs(s) : s \in SUBSET names}

BusInit ==
  /\ bus \in [at : {"settings"}, consumers : Orderings(ConsumerNames),
              producers : Orderings(ProducerNames), used : {<< >>}]
  /\ running = {} /\ loopTask = [c \in ConsumerNames |-> 0] /\ loops = {} /\ started = {}
  /\ wired = [c \in ConsumerNames |-> {}] /\ closed = {}
  /\ lifespan = [at |-> "down", todo |-> << >>]
  /\ publish = [a \in Publishers |-> NoPublication]
  /\ publishes = 0
-------------------------------------------------------------------------------
(* get_consumer() and get_producer() look the lower-case name up. *)
ConfigOf(name) == LowerName[name]

(* _config_from_settings and __init__: list the names, get the config of   *)
(* each, create its connector; a name that is not found ends it.           *)
Build ==
  LET names == ToSet(bus.consumers) \union ToSet(bus.producers)
      known(n) == ConfigOf(n) \in names /\ (ConfigOf(n) \in ConsumerNames <=> n \in ConsumerNames)
  IN /\ bus.at = "settings"
     /\ bus' = IF \A n \in names : known(n)
               THEN [bus EXCEPT !.at = "ready", !.used = [n \in names |-> ConfigOf(n)]]
               ELSE [bus EXCEPT !.at = "failed"]
     /\ UNCHANGED <<running, loopTask, loops, started, wired, closed, lifespan, publish, publishes>>

(* subscribe(): to one consumer, or to all of them. *)
SubscribeTo(h, targets) ==
  /\ bus.at = "ready" /\ targets # {}
  /\ targets = ToSet(bus.consumers) \/ \E c \in ToSet(bus.consumers) : targets = {c}
  /\ wired' = [c \in ConsumerNames |-> IF c \in targets THEN wired[c] \union {h} ELSE wired[c]]
  /\ UNCHANGED <<bus, running, loopTask, loops, started, closed, lifespan, publish, publishes>>

(* The consumers start() does something for: a push consumer only listens. *)
Idlers == {c \in ToSet(bus.consumers) : BusKinds[c] = "pull"} \ running

(* start(): every pull consumer that is not running gets its loop. *)
StartBus ==
  LET next(c) == Cardinality({l \in started : l[1] = c}) + 1
      new == {<<c, next(c)>> : c \in Idlers}
  IN /\ bus.at = "ready" /\ bus.consumers # << >> /\ lifespan.at \in {"down", "broken"}
     /\ \A l \in new : l[2] <= MaxLoops
     /\ loopTask' = [c \in ConsumerNames |-> IF c \in Idlers THEN next(c) ELSE loopTask[c]]
     /\ started' = started \union new /\ loops' = loops \union new
     /\ running' = running \union Idlers
     /\ lifespan' = [lifespan EXCEPT !.at = "up"]
     /\ UNCHANGED <<bus, wired, closed, publish, publishes>>

(* A loop runs to its end: cancelled, stopped by its flag, or crashed.     *)
LoopEnds(l) ==
  /\ loops' = loops \ {l}
  /\ UNCHANGED <<bus, running, loopTask, started, wired, closed, lifespan, publish, publishes>>

StopBus ==
  /\ lifespan.at \in {"up", "broken"}
  /\ lifespan' = [at |-> "stopping", todo |-> bus.consumers]
  /\ UNCHANGED <<bus, running, loopTask, loops, started, wired, closed, publish, publishes>>

MutAwaits(c) == FALSE

(* _reset_state waits for a loop that has not ended, after cancelling it.  *)
Awaits(c) == <<c, loopTask[c]>> \in loops

(* stop() of the next consumer: a pull consumer that is not running keeps  *)
(* everything as it is, one that is loses its subscribers and its loop.    *)
StopConsumer ==
  LET c == Head(lifespan.todo)
      stops == BusKinds[c] = "push" \/ c \in running
  IN /\ lifespan.at = "stopping" /\ lifespan.todo # << >>
     /\ running' = running \ {c}
     /\ wired' = IF stops THEN [wired EXCEPT ![c] = {}] ELSE wired
     /\ IF c \in running /\ Awaits(c)
        THEN lifespan' = [lifespan EXCEPT !.at = "waiting"] /\ UNCHANGED loopTask
        ELSE /\ loopTask' = IF c \in running THEN [loopTask EXCEPT ![c] = 0] ELSE loopTask
             /\ lifespan' = [lifespan EXCEPT !.todo = Tail(@)]
     /\ UNCHANGED <<bus, loops, started, closed, publish, publishes>>

LoopAwaited ==
  LET c == Head(lifespan.todo)
  IN /\ lifespan.at = "waiting" /\ <<c, loopTask[c]>> \notin loops
     /\ loopTask' = [loopTask EXCEPT ![c] = 0]
     /\ lifespan' = [at |-> "stopping", todo |-> Tail(lifespan.todo)]
     /\ UNCHANGED <<bus, running, loops, started, wired, closed, publish, publishes>>

ConsumersStopped ==
  /\ lifespan = [at |-> "stopping", todo |-> << >>]
  /\ lifespan' = IF bus.producers = << >> THEN [at |-> "down", todo |-> << >>]
                 ELSE [at |-> "closing", todo |-> bus.producers]
  /\ UNCHANGED <<bus, running, loopTask, loops, started, wired, closed, publish, publishes>>

(* close() of the next producer; that of Redis may fail and ends stop().   *)
CloseProducer(fails) ==
  LET p == Head(lifespan.todo)
  IN /\ lifespan.at = "closing" /\ (fails => BusKinds[p] = "redis")
     /\ closed' = IF fails THEN closed ELSE closed \union {p}
     /\ lifespan' = CASE fails -> [at |-> "broken", todo |-> << >>]
                      [] ~ fails /\ Len(lifespan.todo) = 1 -> [at |-> "down", todo |-> << >>]
                      [] OTHER -> [lifespan EXCEPT !.todo = Tail(@)]
     /\ UNCHANGED <<bus, running, loopTask, loops, started, wired, publish, publishes>>
-------------------------------------------------------------------------------
(* publish(): to one producer, or to all of them in turn.  An unknown      *)
(* target and a bus without producers are refused before anything is sent. *)
BeginPublish(a, to) ==
  /\ bus.at = "ready" /\ publish[a].todo = << >> /\ publishes < MaxPublishes
  /\ to # << >> /\ (to = bus.producers \/ \E p \in ToSet(bus.producers) : to = <<p>>)
  /\ publish' = [publish EXCEPT ![a] = [todo |-> to, to |-> to, sent |-> {}, result |-> "none"]]
  /\ publishes' = publishes + 1
  /\ UNCHANGED <<bus, running, loopTask, loops, started, wired, closed, lifespan>>

MutAfterError(todo) == Tail(todo)

(* What is left to do after a producer raised: nothing, the error passes.  *)
AfterError(todo) == << >>

PublishNext(a, taken, raises) ==
  LET p == publish[a]
      left == IF raises THEN AfterError(p.todo) ELSE Tail(p.todo)
  IN /\ p.todo # << >> /\ (raises \/ taken)
     /\ publish' = [publish EXCEPT ![a] =
          [todo |-> left, to |-> p.to,
           sent |-> IF taken THEN p.sent \union {Head(p.todo)} ELSE p.sent,
           result |-> IF left # << >> THEN "none" ELSE IF raises THEN "raised" ELSE "ok"]]
     /\ UNCHANGED <<bus, running, loopTask, loops, started, wired, closed, lifespan, publishes>>

BusNext ==
  \/ Build \/ StartBus \/ StopBus \/ StopConsumer \/ LoopAwaited \/ ConsumersStopped
  \/ \E fails \in BOOLEAN : CloseProducer(fails)
  \/ \E l \in loops : LoopEnds(l)
  \/ \E h \in BusHandlers, targets \in SUBSET ToSet(bus.consumers) : SubscribeTo(h, targets)
  \/ \E a \in Publishers :
       \/ \E to \in {bus.producers} \union {<<p>> : p \in ToSet(bus.producers)} : BeginPublish(a, to)
       \/ \E taken, raises \in BOOLEAN : PublishNext(a, taken, raises)

BusSpec == BusInit /\ [][BusNext]_busVars
-------------------------------------------------------------------------------
(* Producers are closed when no consumer loop is left whose handlers might *)
(* publish: stop() waits for every loop it knows, and it knows them all    *)
(* (event_bus.py:276-279, pull.py:122-135).                                *)
CloseAfterLoops == [][closed' # closed => loops = {}]_busVars

(* The caller of publish() is told the truth: after success every producer *)
(* has sent, and after an error those that may have sent are the first     *)
(* ones, up to the one that raised (event_bus.py:208-209).                 *)
ToldMeansSent ==
  \A a \in Publishers :
    LET p == publish[a] IN
    /\ p.result = "ok" => p.sent = ToSet(p.to)
    /\ \E k \in 0..Len(p.to) : p.sent = ToSet(SubSeq(p.to, 1, k))

===============================================================================
