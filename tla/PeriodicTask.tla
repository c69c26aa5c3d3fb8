----------------------------- MODULE PeriodicTask -----------------------------
(***************************************************************************)
(* The loops of repeat_every_distributed (event/scheduler/repeat.py): one  *)
(* PeriodicTask per process, all with the same Redis lock.  The lock is a  *)
(* key set with NX and EX; nobody deletes it, it only expires.  Time is in *)
(* ticks, of which a second has several: the lock's TTL is in whole seconds*)
(***************************************************************************)
EXTENDS Integers, FiniteSets

CONSTANTS Workers,
          TicksPerSecond,
          Period,           \* seconds, in ticks
          LockTtl,          \* lock_ttl in whole seconds, 0 for None
          MaxRepetitions,
          WaitFirst,
          RaiseExceptions,
          RunTimes,         \* how long the task may take
          RedisFails,       \* SET may raise
          Deaths,           \* processes may die
          Lag,              \* how late the event loop may resume a loop
          TaskMaxTime           \* bound: the clock stops here

ASSUME PeriodicAssumption ==
  /\ TicksPerSecond \in Nat \ {0} /\ Period \in Nat /\ LockTtl \in Nat
  /\ MaxRepetitions \in Nat /\ Lag \in Nat /\ TaskMaxTime \in Nat
  /\ RunTimes \subseteq Nat
  /\ WaitFirst \in BOOLEAN /\ RaiseExceptions \in BOOLEAN
  /\ RedisFails \in BOOLEAN /\ Deaths \in BOOLEAN

VARIABLES tick,
          expiry,        \* when the lock's key is gone
          loopAt,            \* of each loop: sleep, run, done, raised, dead
          due,           \* when its sleep or its run is over
          repetitions,
          starts,          \* history: runs of the task so far, by anyone
          lastStart      \* history: start of the latest of them

taskVars == <<tick, expiry, loopAt, due, repetitions, starts, lastStart>>

TaskTypeOK ==
  /\ tick \in 0..TaskMaxTime /\ expiry \in Nat /\ starts \in Nat /\ lastStart \in Nat
  /\ loopAt \in [Workers -> {"sleep", "run", "done", "raised", "dead"}]
  /\ due \in [Workers -> Nat]
  /\ repetitions \in [Workers -> 0..MaxRepetitions]

(* The processes start within the first period. *)
TaskInit ==
  /\ tick = 0 /\ expiry = 0 /\ starts = 0 /\ lastStart = 0
  /\ loopAt = [w \in Workers |-> "sleep"]
  /\ due \in [Workers -> IF WaitFirst THEN Period .. 2 * Period ELSE 0 .. Period]
  /\ repetitions = [w \in Workers |-> 0]

(* `lock_ttl or int(seconds)` *)
Ttl == IF LockTtl # 0 THEN LockTtl * TicksPerSecond
                      ELSE (Period \div TicksPerSecond) * TicksPerSecond

Due(w) == loopAt[w] \in {"sleep", "run"} /\ tick >= due[w]

SleepPeriod(w) == /\ loopAt' = [loopAt EXCEPT ![w] = "sleep"]
                  /\ due' = [due EXCEPT ![w] = tick + Period]

MutRepeats(w) == /\ loopAt[w] = "sleep" /\ Due(w)
                 /\ repetitions[w] <= MaxRepetitions
                 /\ repetitions' = [repetitions EXCEPT ![w] = @ + 1]

(* The loop's next repetition is counted before it asks for the lock. *)
Repeats(w) == /\ loopAt[w] = "sleep" /\ Due(w)
              /\ repetitions[w] < MaxRepetitions
              /\ repetitions' = [repetitions EXCEPT ![w] = @ + 1]

MutAcquire(w) ==
  /\ Repeats(w) /\ Ttl > 0
  /\ expiry' = tick + Ttl
  /\ loopAt' = [loopAt EXCEPT ![w] = "run"]
  /\ \E d \in RunTimes : due' = [due EXCEPT ![w] = tick + d]
  /\ starts' = starts + 1 /\ lastStart' = tick
  /\ UNCHANGED tick

(* SET NX succeeds: the task runs. *)
Acquire(w) ==
  /\ Repeats(w) /\ Ttl > 0 /\ expiry <= tick
  /\ expiry' = tick + Ttl
  /\ loopAt' = [loopAt EXCEPT ![w] = "run"]
  /\ \E d \in RunTimes : due' = [due EXCEPT ![w] = tick + d]
  /\ starts' = starts + 1 /\ lastStart' = tick
  /\ UNCHANGED tick

MutSkip(w) == /\ Repeats(w) /\ Ttl > 0 /\ expiry > tick
              /\ loopAt' = [loopAt EXCEPT ![w] = "sleep"]
              /\ due' = [due EXCEPT ![w] = tick + 2 * Period]
              /\ UNCHANGED <<tick, expiry, starts, lastStart>>

(* The lock is held: this repetition is skipped. *)
Skip(w) == /\ Repeats(w) /\ Ttl > 0 /\ expiry > tick
           /\ SleepPeriod(w)
           /\ UNCHANGED <<tick, expiry, starts, lastStart>>

Finish(w) == /\ loopAt[w] = "run" /\ Due(w)
             /\ SleepPeriod(w)
             /\ UNCHANGED <<tick, expiry, repetitions, starts, lastStart>>

(* An error is logged, and raised again if so configured. *)
Logged(w) == IF RaiseExceptions
                 THEN loopAt' = [loopAt EXCEPT ![w] = "raised"] /\ UNCHANGED due
                 ELSE SleepPeriod(w)

(* The task raises; or SET does, which Redis refuses with EX 0, and whose  *)
(* answer may be lost after the key was set.                               *)
Fails(w) ==
  /\ Logged(w)
  /\ \/ loopAt[w] = "run" /\ UNCHANGED <<expiry, repetitions>>
     \/ RedisFails /\ Repeats(w) /\ expiry' \in {expiry, IF expiry <= tick THEN tick + Ttl ELSE expiry}
     \/ Ttl = 0 /\ Repeats(w) /\ UNCHANGED expiry
  /\ UNCHANGED <<tick, starts, lastStart>>

Ends(w) == /\ loopAt[w] = "sleep" /\ Due(w) /\ repetitions[w] = MaxRepetitions
           /\ loopAt' = [loopAt EXCEPT ![w] = "done"]
           /\ UNCHANGED <<tick, expiry, due, repetitions, starts, lastStart>>

Dies(w) == /\ Deaths /\ loopAt[w] \in {"sleep", "run"}
           /\ loopAt' = [loopAt EXCEPT ![w] = "dead"]
           /\ UNCHANGED <<tick, expiry, due, repetitions, starts, lastStart>>

(* A loop whose time has come waits at most Lag longer. *)
TaskTick ==
  /\ tick < TaskMaxTime
  /\ \A w \in Workers : loopAt[w] \in {"sleep", "run"} => tick < due[w] + Lag
  /\ tick' = tick + 1
  /\ UNCHANGED <<expiry, loopAt, due, repetitions, starts, lastStart>>

TaskNext ==
  \/ TaskTick
  \/ \E w \in Workers : Acquire(w) \/ Skip(w) \/ Finish(w) \/ Fails(w) \/ Ends(w) \/ Dies(w)

TaskSpec == TaskInit /\ [][TaskNext]_taskVars
-------------------------------------------------------------------------------
Longest == CHOOSE d \in RunTimes : \A e \in RunTimes : e <= d

Holds == Ttl > 0 /\ Ttl <= Period /\ ~ RedisFails

(* A task shorter than the TTL never runs in two processes at once: the    *)
(* lock is not released at the end of a run, nor taken over by a late one. *)
NoOverlap ==
  Longest + Lag < Ttl => Cardinality({w \in Workers : loopAt[w] = "run"}) <= 1

(* Skipped repetitions are not lost: when a loop has used up all of its    *)
(* max_repetitions, the task has been started that often, by this loop or  *)
(* another, whoever died or raised on the way (repeat.py:84-107).          *)
RepetitionsKept ==
  Holds => \A w \in Workers : loopAt[w] = "done" => starts >= MaxRepetitions

(* As long as a loop with repetitions left is alive, the task starts again *)
(* in time, although the lock is never released and its holder may be dead:*)
(* a loop that just misses the expiry of the lock sleeps one more period.  *)
GapBounded ==
  Holds /\ Longest + Lag < Ttl => \A w \in Workers :
    loopAt[w] = "sleep" /\ repetitions[w] < MaxRepetitions /\ starts > 0
      => tick < lastStart + Ttl + Period + Lag

(* The task goes on, whoever dies: in time, and as often as it was asked   *)
(* for, although a loop counts what another has run (repeat.py:84-107).    *)
TaskGoesOn == RepetitionsKept /\ GapBounded
===============================================================================
