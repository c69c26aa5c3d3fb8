------------------------------ MODULE MCEvents ------------------------------
(* The observed flow of events, the gate of the pull loops and the Kafka   *)
(* loop share one run: a bench names the part that moves, the others stay  *)
(* in a single initial state, so that each explores what it would alone.   *)
EXTENDS ControlGate, KafkaLoop, EventFlow

CONSTANT Benches

VARIABLE bench

benchVars == <<bench, gateVars, kafkaVars, flowVars>>

(* The first record of one partition can never be handled. *)
MCPoisoned == {<<"q", 0>>}

MCInit ==
  /\ bench \in Benches
  /\ GateInit  /\ (bench = "gate" \/ plane = "running")
  /\ KafkaInit /\ (bench = "kafka" \/ assigned = Partitions)
  /\ FlowInit

MCNext ==
  /\ UNCHANGED bench
  /\ \/ bench = "gate" /\ GateNext /\ UNCHANGED <<kafkaVars, flowVars>>
     \/ bench = "kafka" /\ KafkaNext /\ UNCHANGED <<gateVars, flowVars>>
     \/ bench = "flow" /\ FlowNext /\ UNCHANGED <<gateVars, kafkaVars>>

MCSpec == MCInit /\ [][MCNext]_benchVars

(* The type invariants of the benches (control.py, kafka_observer.py, observability/). *)
EventsTypeOK == GateTypeOK /\ KafkaTypeOK /\ FlowTypeOK
===============================================================================
