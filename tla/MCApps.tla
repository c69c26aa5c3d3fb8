------------------------------- MODULE MCApps -------------------------------
(* What an application is put together from shares one run: the event bus, *)
(* a subscriber with its middleware, the in-memory store, the periodic     *)
(* task and the example services.  A bench names the part that moves, the  *)
(* others stay in a single initial state.                                  *)
EXTENDS EventBus, SubscriberChain, FanOut, InMemoryStore, PeriodicTask

CONSTANTS Benches, c1, c2, k1, k2, k3, w1, w2

VARIABLE bench

benchVars == <<bench, busVars, chainVars, fanVars, storeVars, taskVars>>

MCBusNames == {"orders", "Orders", "hook", "sqs", "redis"}
MCLowerName == [n \in MCBusNames |-> IF n = "Orders" THEN "orders" ELSE n]
MCBusKinds == [n \in MCBusNames |-> CASE n \in {"orders", "Orders"} -> "pull"
                                      [] n = "hook" -> "push"
                                      [] OTHER -> n]

MCBranches == <<"shipping-svc", "loyalty-svc">>

(* Two callers, three keys and room for two entries: every claim may find  *)
(* the store full.                                                         *)
MCClients == {c1, c2}
MCKeys == {k1, k2, k3}
MCMixedTtls == {NoTtl, 0, 2}

(* Two processes, a period of two and a half seconds in half seconds.      *)
MCWorkers == {w1, w2}
MCRunTimes == {0, 2}

Some(s) == CHOOSE x \in s : TRUE

MCInit ==
  /\ bench \in Benches
  /\ BusInit /\ (bench = "bus" \/ /\ bus.consumers = Some(Orderings(ConsumerNames))
                                  /\ bus.producers = Some(Orderings(ProducerNames)))
  /\ ChainInit /\ (bench = "chain" \/ chain.kind = "plain")
  /\ FanOutInit /\ (bench = "fanout" \/ demo = "fanout")
                /\ (bench = "fanout" \/ \A s \in Flaky : cursed[s] = {})
  /\ StoreInit
  /\ TaskInit /\ (bench = "task" \/ \A w \in Workers : due[w] = 0)

MCNext ==
  /\ UNCHANGED bench
  /\ \/ bench = "bus" /\ BusNext /\ UNCHANGED <<chainVars, fanVars, storeVars, taskVars>>
     \/ bench = "chain" /\ ChainNext /\ UNCHANGED <<busVars, fanVars, storeVars, taskVars>>
     \/ bench = "fanout" /\ FanOutNext /\ UNCHANGED <<busVars, chainVars, storeVars, taskVars>>
     \/ bench = "store" /\ StoreNext /\ UNCHANGED <<busVars, chainVars, fanVars, taskVars>>
     \/ bench = "task" /\ TaskNext /\ UNCHANGED <<busVars, chainVars, fanVars, storeVars>>

MCSpec == MCInit /\ [][MCNext]_benchVars

(* The type invariants of the benches (event_bus.py, subscriber/, idempotency/store.py, scheduler/repeat.py). *)
AppsTypeOK == BusTypeOK /\ ChainTypeOK /\ FanOutTypeOK /\ StoreTypeOK /\ TaskTypeOK
===============================================================================
