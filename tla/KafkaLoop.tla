------------------------------- MODULE KafkaLoop -------------------------------
(***************************************************************************)
(* The observed Kafka consumer of examples/event/kafka_observer.py: fetch, *)
(* handle the records of each partition in order, rewind to the first one  *)
(* that failed for the moment, commit by hand.  aiokafka is modelled from  *)
(* its use: getmany() moves the position past everything it returns,       *)
(* seek() sets the position of one partition, commit() commits the         *)
(* positions of all partitions, and a restart resumes at the committed one.*)
(***************************************************************************)
EXTENDS Integers, FiniteSets

CONSTANTS Partitions,
          LogEnd,          \* records in each partition
          MaxRecords,      \* max_records of one fetch
          Poisoned,        \* <<partition, offset>> whose handling fails for good
          MaxAttempts,     \* bound: a record fails at most this often
          MaxCrashes       \* bound

ASSUME KafkaAssumption ==
  /\ IsFiniteSet(Partitions)
  /\ LogEnd \in Nat /\ MaxRecords \in Nat \ {0} /\ MaxAttempts \in Nat /\ MaxCrashes \in Nat
  /\ Poisoned \subseteq Partitions \X (0..LogEnd-1)

Records == Partitions \X (0..LogEnd-1)

VARIABLES assigned,    \* partitions the group gave this consumer
          position,    \* next offset to fetch, per partition
          committed,   \* of the group
          batch,       \* records fetched and not yet looked at
          lane,        \* the partition of the batch the loop is in, if any
          rewound,
          loop,        \* the coroutine: control, fetched, stopped, dead
          tries,       \* attempts: deliveries of the records that are not through
          handled,     \* history: records that were handled or failed for good
          through,     \* history: those of this process
          deliveries,  \* history: deliveries of each record by this process
          crashes

kafkaVars == <<assigned, position, committed, batch, lane, rewound, loop, tries,
               handled, through, deliveries, crashes>>

KafkaTypeOK ==
  /\ assigned \subseteq Partitions
  /\ position \in [Partitions -> 0..LogEnd] /\ committed \in [Partitions -> 0..LogEnd]
  /\ batch \subseteq Records /\ Cardinality(batch) <= MaxRecords
  /\ lane \subseteq assigned /\ Cardinality(lane) <= 1
  /\ rewound \in BOOLEAN /\ loop \in {"control", "fetched", "stopped", "dead"}
  /\ tries \in [Records -> 0..MaxAttempts+1]
  /\ through \subseteq handled /\ handled \subseteq Records
  /\ deliveries \in [Records -> 0..MaxAttempts+1]
  /\ crashes \in 0..MaxCrashes

KafkaInit ==
  /\ assigned \in SUBSET Partitions \ {{}}
  /\ position = [p \in Partitions |-> 0] /\ committed = position
  /\ batch = {} /\ lane = {} /\ rewound = FALSE /\ loop = "control"
  /\ tries = [r \in Records |-> 0] /\ deliveries = tries
  /\ handled = {} /\ through = {} /\ crashes = 0
-------------------------------------------------------------------------------
Offsets(p, from, to) == {p} \X (from..to-1)

(* getmany(): some records of some partitions.                             *)
Fetch ==
  /\ loop = "control"
  /\ \E upto \in [Partitions -> 0..LogEnd] :
       /\ \A p \in Partitions : upto[p] >= position[p] /\ (p \notin assigned => upto[p] = position[p])
       /\ batch' = UNION {Offsets(p, position[p], upto[p]) : p \in Partitions}
       /\ Cardinality(batch') \in 1..MaxRecords
       /\ position' = upto
  /\ lane' = {} /\ rewound' = FALSE /\ loop' = "fetched"
  /\ UNCHANGED <<assigned, committed, tries, handled, through, deliveries, crashes>>

(* The two loops: partition after partition, in any order, the records of  *)
(* each in theirs.                                                         *)
IsNext(r) ==
  /\ r \in batch
  /\ \A b \in batch : (b[1] \in lane => r[1] \in lane) /\ (b[1] = r[1] => r[2] <= b[2])

Deliver(r) ==
  /\ loop = "fetched" /\ IsNext(r) /\ lane' = {r[1]}
  /\ deliveries' = [deliveries EXCEPT ![r] = @ + 1]
  /\ UNCHANGED <<assigned, committed, loop, crashes>>

(* Handled, or failed for good, which the loop records and skips. *)
Through(r) ==
  /\ Deliver(r)
  /\ handled' = handled \union {r} /\ through' = through \union {r}
  /\ tries' = [tries EXCEPT ![r] = 0]
  /\ batch' = batch \ {r}
  /\ UNCHANGED <<position, rewound>>

MutDropped(r) == batch \ {r}

(* What is left to look at after a transient failure: both loops are left. *)
Dropped(r) == {}

MutRewind(r) ==
  /\ Deliver(r) /\ r \notin Poisoned /\ tries[r] < MaxAttempts
  /\ tries' = [tries EXCEPT ![r] = @ + 1]
  /\ batch' = {} /\ rewound' = TRUE
  /\ position' = [position EXCEPT ![r[1]] = committed[r[1]]]
  /\ UNCHANGED <<handled, through>>

(* TransientBackendError: seek to the record. *)
Rewind(r) ==
  /\ Deliver(r) /\ r \notin Poisoned /\ tries[r] < MaxAttempts
  /\ tries' = [tries EXCEPT ![r] = @ + 1]
  /\ batch' = Dropped(r) /\ rewound' = TRUE
  /\ position' = [position EXCEPT ![r[1]] = r[2]]
  /\ UNCHANGED <<handled, through>>

(* The batch is through: commit unless something was rewound. *)
EndBatch ==
  /\ loop = "fetched" /\ batch = {}
  /\ committed' = IF rewound THEN committed ELSE position
  /\ loop' = "control"
  /\ UNCHANGED <<assigned, position, batch, lane, rewound, tries, handled, through, deliveries, crashes>>

(* The stop event is seen at the top of the loop; nothing more is committed. *)
StopLoop == /\ loop = "control" /\ loop' = "stopped"
            /\ UNCHANGED <<assigned, position, committed, batch, lane, rewound, tries,
                            handled, through, deliveries, crashes>>

(* The process dies anywhere, or commit() raises out of the loop. *)
Crash == /\ loop \in {"control", "fetched"} /\ crashes < MaxCrashes
         /\ crashes' = crashes + 1 /\ loop' = "dead"
         /\ UNCHANGED <<assigned, position, committed, batch, lane, rewound, tries,
                         handled, through, deliveries>>

(* A new process: the attempt numbers start again. *)
Restart == /\ loop \in {"stopped", "dead"} /\ loop' = "control"
           /\ position' = committed /\ batch' = {} /\ lane' = {} /\ rewound' = FALSE
           /\ tries' = [r \in Records |-> 0] /\ deliveries' = tries'
           /\ through' = {}
           /\ UNCHANGED <<assigned, committed, handled, crashes>>

KafkaNext ==
  \/ Fetch \/ EndBatch \/ StopLoop \/ Crash \/ Restart
  \/ \E r \in Records : Through(r) \/ Rewind(r)

KafkaSpec == KafkaInit /\ [][KafkaNext]_kafkaVars
-------------------------------------------------------------------------------
(* "Manual commits: at-least-once" (kafka_observer.py:106): what is        *)
(* committed was handled or failed for good.                               *)
CommittedIsHandled ==
  \A r \in Records : r[2] < committed[r[1]] => r \in handled

(* With one partition assigned, at-least-once holds through transient and  *)
(* final failures, stops and crashes.                                      *)
OnePartitionAtLeastOnce == Cardinality(assigned) = 1 => CommittedIsHandled

(* The rewind repeats the record that failed and none that is already      *)
(* through: only a new process handles a record again, whatever the batch  *)
(* held of this partition and of others (kafka_observer.py:137-165).       *)
RepeatsNeedRestart ==
  [][\A r \in through \intersect through' : deliveries'[r] = deliveries[r]]_kafkaVars
===============================================================================
