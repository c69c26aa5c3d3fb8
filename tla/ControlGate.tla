------------------------------ MODULE ControlGate ------------------------------
(***************************************************************************)
(* The operator's switch: HttpControlSource (event/control.py), the cached *)
(* and fail-open view of the control plane, and the gate of the pull loops *)
(* that ask it before every cycle (PullEventConsumer._control_gate and     *)
(* _throttle_pace, the body of SQSConsumer._poll_loop).  Several loops may *)
(* share one source.  A lookup is suspended from the request to the answer;*)
(* the plane is sampled in between, and answers may overtake each other.   *)
(***************************************************************************)
EXTENDS Integers

CONSTANTS Loops,
          Wanted,         \* the states the operator asks for
          Ttl,            \* seconds an answer is used again
          Lookup,         \* the longest a lookup may take
          Batch,          \* max_number_of_messages
          PollInterval,   \* of an idle loop
          Pace,           \* 1 / throttle_per_sec
          MaxTime         \* bound: the clock stops here

ASSUME GateAssumption ==
  /\ Wanted \subseteq {"running", "paused", "throttled", "draining"}
  /\ Ttl \in Nat \ {0} /\ Lookup \in Nat /\ Batch \in Nat \ {0}
  /\ PollInterval \in Nat /\ Pace \in Nat /\ MaxTime \in Nat /\ Ttl <= MaxTime

States == {"running", "paused", "throttled", "draining"}
ShouldPull == {"running", "throttled"}

VARIABLES clock,
          plane,        \* what the operator wants
          cachedState,  \* _cached
          fetchedAt,    \* _fetched_at
          client,       \* _client is not None
          at,           \* where each loop is
          since,        \* `now` of its lookup, or the end of its nap
          sample,       \* the answer on its way, then the control of the cycle
          idleSince,    \* history: since when the plane has wanted no pulls
          failedAt      \* history: time of the last failed lookup

gateVars == <<clock, plane, cachedState, fetchedAt, client, at, since, sample, idleSince, failedAt>>

NoAnswer == "none"

GateTypeOK ==
  /\ clock \in 0..MaxTime /\ plane \in States /\ cachedState \in States
  /\ fetchedAt \in 0..clock /\ client \in BOOLEAN
  /\ at \in [Loops -> {"gate", "lookup", "answered", "pull", "nap"}]
  /\ since \in [Loops -> Nat]
  /\ sample \in [Loops -> States \union {NoAnswer}]
  /\ \A l \in Loops : at[l] = "pull" => sample[l] \in {"running", "throttled"}
  /\ idleSince \in 0..clock /\ failedAt \in -1..clock

(* The host has been up for longer than one TTL when the source is made. *)
GateInit ==
  /\ clock = Ttl /\ plane \in Wanted /\ cachedState = "running" /\ fetchedAt = 0
  /\ client = FALSE
  /\ at = [l \in Loops |-> "gate"]
  /\ since = [l \in Loops |-> 0]
  /\ sample = [l \in Loops |-> NoAnswer]
  /\ idleSince = clock /\ failedAt = -1
-------------------------------------------------------------------------------
Fresh == client /\ clock - fetchedAt < Ttl

Nap(l, d) == /\ at' = [at EXCEPT ![l] = "nap"]
             /\ since' = [since EXCEPT ![l] = clock + d]

(* What get() returns decides the cycle: pull, or nap and ask again. *)
Decide(l, s) ==
  IF s \in ShouldPull
  THEN /\ at' = [at EXCEPT ![l] = "pull"] /\ UNCHANGED since
       /\ sample' = [sample EXCEPT ![l] = s]
  ELSE /\ Nap(l, IF PollInterval > 1 THEN PollInterval ELSE 1)
       /\ sample' = [sample EXCEPT ![l] = NoAnswer]

UseCache(l) ==
  /\ at[l] = "gate" /\ Fresh
  /\ Decide(l, cachedState)
  /\ UNCHANGED <<clock, plane, cachedState, fetchedAt, client, idleSince, failedAt>>

Ask(l) ==
  /\ at[l] = "gate" /\ ~ Fresh
  /\ client' = TRUE
  /\ at' = [at EXCEPT ![l] = "lookup"]
  /\ since' = [since EXCEPT ![l] = clock]
  /\ UNCHANGED <<clock, plane, cachedState, fetchedAt, sample, idleSince, failedAt>>

PlaneAnswers(l) ==
  /\ at[l] = "lookup"
  /\ at' = [at EXCEPT ![l] = "answered"]
  /\ sample' = [sample EXCEPT ![l] = plane]
  /\ UNCHANGED <<clock, plane, cachedState, fetchedAt, client, since, idleSince, failedAt>>

MutAnswerArrives(l) ==
  /\ at[l] = "answered"
  /\ cachedState' = sample[l] /\ fetchedAt' = clock
  /\ Decide(l, sample[l])
  /\ UNCHANGED <<clock, plane, client, idleSince, failedAt>>

(* The age of the answer counts from before the request. *)
AnswerArrives(l) ==
  /\ at[l] = "answered"
  /\ cachedState' = sample[l] /\ fetchedAt' = since[l]
  /\ Decide(l, sample[l])
  /\ UNCHANGED <<clock, plane, client, idleSince, failedAt>>

(* Timeout, refused, closed under it, or an answer that cannot be read: the *)
(* last known state counts for another TTL.                                *)
LookupFails(l) ==
  /\ at[l] \in {"lookup", "answered"}
  /\ fetchedAt' = since[l] /\ failedAt' = clock
  /\ Decide(l, cachedState)
  /\ UNCHANGED <<clock, plane, cachedState, client, idleSince>>

(* One receive_message and the dispatch of its batch: idle, or n messages, *)
(* one at a time when throttled, and then the pace of the control read     *)
(* before the receive.                                                     *)
Cycle(l, n) ==
  /\ at[l] = "pull"
  /\ n <= IF sample[l] = "throttled" THEN 1 ELSE Batch
  /\ CASE n = 0 -> Nap(l, PollInterval)
       [] n > 0 /\ sample[l] = "throttled" -> Nap(l, Pace)
       [] OTHER -> at' = [at EXCEPT ![l] = "gate"] /\ UNCHANGED since
  /\ sample' = [sample EXCEPT ![l] = NoAnswer]
  /\ UNCHANGED <<clock, plane, cachedState, fetchedAt, client, idleSince, failedAt>>

NapOver(l) ==
  /\ at[l] = "nap" /\ clock >= since[l]
  /\ at' = [at EXCEPT ![l] = "gate"]
  /\ UNCHANGED <<clock, plane, cachedState, fetchedAt, client, since, sample, idleSince, failedAt>>

(* aclose(): the next get() builds a client and asks again. *)
CloseSource ==
  /\ client /\ client' = FALSE
  /\ UNCHANGED <<clock, plane, cachedState, fetchedAt, at, since, sample, idleSince, failedAt>>

Operate(s) ==
  /\ plane # s /\ plane' = s
  /\ idleSince' = IF plane \in ShouldPull THEN clock ELSE idleSince
  /\ UNCHANGED <<clock, cachedState, fetchedAt, client, at, since, sample, failedAt>>

(* No lookup outlives its timeout; a cycle takes as long as its handlers.  *)
GateTick ==
  /\ clock < MaxTime /\ clock' = clock + 1
  /\ \A l \in Loops : /\ at[l] \in {"lookup", "answered"} => clock < since[l] + Lookup
                      /\ at[l] # "gate"
  /\ UNCHANGED <<plane, cachedState, fetchedAt, client, at, since, sample, idleSince, failedAt>>

GateNext ==
  \/ GateTick \/ CloseSource \/ \E s \in Wanted : Operate(s)
  \/ \E l \in Loops :
       \/ UseCache(l) \/ Ask(l) \/ PlaneAnswers(l) \/ AnswerArrives(l)
       \/ LookupFails(l) \/ NapOver(l)
       \/ \E n \in 0..Batch : Cycle(l, n)

GateSpec == GateInit /\ [][GateNext]_gateVars
-------------------------------------------------------------------------------
(* "less than Ttl" in whole ticks. *)
Staleness == IF Ttl - 1 > Lookup THEN Ttl - 1 ELSE Lookup

(* Pause and drain take hold: a cycle that starts later than one TTL, or   *)
(* one lookup, after the operator asked for no more pulls means that a     *)
(* lookup has failed since, however many loops share the source and in     *)
(* whatever order their answers arrive (control.py:75-97).                 *)
PauseTakesHold ==
  [][\A l \in Loops :
       /\ at[l] # "pull" /\ at'[l] = "pull"
       /\ plane \notin ShouldPull /\ clock > idleSince + Staleness
       => failedAt' >= idleSince]_gateVars
===============================================================================
