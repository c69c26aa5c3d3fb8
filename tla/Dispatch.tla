------------------------------- MODULE Dispatch -------------------------------
(***************************************************************************)
(* The dispatch lifecycle every consumer shares (EventConsumer,            *)
(* event/consumer/strategies/base.py): claim the idempotency key, run all  *)
(* subscribers concurrently, resolve their results into one outcome,       *)
(* release the claim unless it is a success, tell the hooks, and call one  *)
(* verb of the acknowledger.  A delivery <<c, m>> is consumer c's coroutine*)
(* _dispatch(m); it may be suspended at every await, which is where a step *)
(* of this module ends.  Transports extend this module: they start         *)
(* deliveries (Begin), give the verbs their effect, and cancel.            *)
(***************************************************************************)
EXTENDS FiniteSets

CONSTANTS Consumers,    \* consumer objects, one per process
          Messages,
          Subscribers,
          Keys,         \* idempotency keys
          KeyOf,        \* key_fn: [Messages -> Keys \union {NoKey}]
          NoKey,        \* key_fn said None, or no policy is configured
          SharedStore,  \* TRUE: one Redis store; FALSE: an in-memory one per process
          Results,      \* what a subscriber call may end with
          VerbsRaise,   \* ack/retry/dlq may raise something they do not catch
          StoreRaises,  \* claim/release may raise (Redis unreachable)
          StableWiring  \* subscribers change only while no delivery is going on

None == "none"

ASSUME DispatchAssumption ==
  /\ NoKey \notin Keys
  /\ KeyOf \in [Messages -> Keys \union {NoKey}]
  /\ SharedStore \in BOOLEAN /\ VerbsRaise \in BOOLEAN /\ StableWiring \in BOOLEAN
  /\ StoreRaises \in {FALSE, SharedStore}   \* the in-memory store never raises
  /\ Results \subseteq {"ok", "retry", "error", "cancelled"}

VARIABLES subs,       \* _subscribers of each consumer
          pc,         \* where each delivery is suspended
          results,    \* what gather() has collected of a delivery's subscribers
          outcome,    \* what the delivery resolved to
          claims,     \* <<store, key>> claimed
          processed   \* history: messages that all their subscribers handled

dispatchVars == <<subs, pc, results, outcome, claims, processed>>

Deliveries == Consumers \X Messages

NoResults == [s \in {} |-> "running"]

Outcomes == {None, "duplicate", "unsubscribed", "success", "retry", "failure"}

Points == {"idle", "claim", "receive", "gather", "release", "notify",
           "ack", "retry", "dlq", "except", "raised"}

PartialResults == UNION {[S -> Results \union {"running"}] : S \in SUBSET Subscribers}

DispatchTypeOK ==
  /\ subs \in [Consumers -> SUBSET Subscribers]
  /\ pc \in [Deliveries -> Points]
  /\ outcome \in [Deliveries -> Outcomes]
  /\ results \in [Deliveries -> PartialResults]
  /\ claims \subseteq (Consumers \union {"redis"}) \X Keys
  /\ processed \subseteq Messages

DispatchInit ==
  /\ subs = [c \in Consumers |-> {}]
  /\ pc = [d \in Deliveries |-> "idle"]
  /\ results = [d \in Deliveries |-> NoResults]
  /\ outcome = [d \in Deliveries |-> None]
  /\ claims = {}
  /\ processed = {}
-------------------------------------------------------------------------------
StoreOf(c) == IF SharedStore THEN "redis" ELSE c

Claim(c, m) == <<StoreOf(c), KeyOf[m]>>

HasKey(m) == KeyOf[m] # NoKey

Active(c, m) == pc[<<c, m>>] # "idle"

(* The delivery d moves on to point p, and nothing else of it changes. *)
GoTo(c, m, p) == pc' = [pc EXCEPT ![<<c, m>>] = p]

(* The deliveries of D are over: their coroutines are gone. *)
Forget(D) == /\ pc' = [d \in Deliveries |-> IF d \in D THEN "idle" ELSE pc[d]]
             /\ results' = [d \in Deliveries |-> IF d \in D THEN NoResults ELSE results[d]]
             /\ outcome' = [d \in Deliveries |-> IF d \in D THEN None ELSE outcome[d]]

Running(c) == {c} \X {m \in Messages : Active(c, m)}
-------------------------------------------------------------------------------
(* subscribe() and unsubscribe(), callable at any time from anywhere.  *)
Subscribe(c, s) ==
  /\ StableWiring => Running(c) = {}
  /\ s \notin subs[c]
  /\ subs' = [subs EXCEPT ![c] = @ \union {s}]
  /\ UNCHANGED <<pc, results, outcome, claims, processed>>

Unsubscribe(c, s) ==
  /\ StableWiring => Running(c) = {}
  /\ s \in subs[c]
  /\ subs' = [subs EXCEPT ![c] = @ \ {s}]
  /\ UNCHANGED <<pc, results, outcome, claims, processed>>

(* dispatch() is called for each message of B. *)
Begin(c, B) ==
  /\ \A m \in B : ~ Active(c, m)
  /\ pc' = [d \in Deliveries |-> IF d[1] = c /\ d[2] \in B
                                 THEN IF HasKey(d[2]) THEN "claim" ELSE "receive"
                                 ELSE pc[d]]
  /\ UNCHANGED <<subs, results, outcome, claims, processed>>

MutClaimKey(c, m) ==
  /\ pc[<<c, m>>] = "claim"
  /\ GoTo(c, m, "receive")
  /\ claims' = claims \union {Claim(c, m)}
  /\ UNCHANGED <<subs, results, outcome, processed>>

(* store.claim() is an atomic check-and-set; a duplicate is reported and acked. *)
ClaimKey(c, m) ==
  /\ pc[<<c, m>>] = "claim"
  /\ IF Claim(c, m) \in claims
     THEN /\ GoTo(c, m, "ack")
          /\ outcome' = [outcome EXCEPT ![<<c, m>>] = "duplicate"]
          /\ UNCHANGED claims
     ELSE /\ GoTo(c, m, "receive")
          /\ claims' = claims \union {Claim(c, m)}
          /\ UNCHANGED outcome
  /\ UNCHANGED <<subs, results, processed>>

(* claim() is called outside the try block: its error goes to the caller, *)
(* and the claim may have been made before the answer was lost.            *)
ClaimRaises(c, m) ==
  /\ StoreRaises
  /\ pc[<<c, m>>] = "claim"
  /\ claims' \in {claims, claims \union {Claim(c, m)}}
  /\ GoTo(c, m, "raised")
  /\ UNCHANGED <<subs, results, outcome, processed>>

(* on_receive has been notified; gather() starts the subscribers of this   *)
(* moment, or there are none and the message is acked.                     *)
Receive(c, m) ==
  /\ pc[<<c, m>>] = "receive"
  /\ IF subs[c] = {}
     THEN /\ GoTo(c, m, "ack")
          /\ outcome' = [outcome EXCEPT ![<<c, m>>] = "unsubscribed"]
          /\ UNCHANGED results
     ELSE /\ GoTo(c, m, "gather")
          /\ results' = [results EXCEPT ![<<c, m>>] = [s \in subs[c] |-> "running"]]
          /\ UNCHANGED outcome
  /\ UNCHANGED <<subs, claims, processed>>

(* One subscriber's __call__ ends. *)
SubscriberDone(c, m, s, r) ==
  /\ pc[<<c, m>>] = "gather"
  /\ s \in DOMAIN results[<<c, m>>] /\ results[<<c, m>>][s] = "running"
  /\ results' = [results EXCEPT ![<<c, m>>] = [@ EXCEPT ![s] = r]]
  /\ UNCHANGED <<subs, pc, outcome, claims, processed>>
-------------------------------------------------------------------------------
Collected(c, m) == {results[<<c, m>>][s] : s \in DOMAIN results[<<c, m>>]}

MutResolve(R) == IF "ok" \in R THEN "success" ELSE IF "retry" \in R THEN "retry" ELSE "failure"

(* _determine_outcome: retry wins over failure, failure over success; a    *)
(* CancelledError is no Exception and counts as neither.                   *)
Resolve(R) == IF "retry" \in R THEN "retry" ELSE IF "error" \in R THEN "failure" ELSE "success"

MutGatheredKeepsRetry(c, m) ==
  /\ pc[<<c, m>>] = "gather"
  /\ "running" \notin Collected(c, m)
  /\ LET o == Resolve(Collected(c, m)) IN
       /\ outcome' = [outcome EXCEPT ![<<c, m>>] = o]
       /\ GoTo(c, m, IF HasKey(m) /\ o = "failure" THEN "release" ELSE "notify")
  /\ processed' = IF Collected(c, m) = {"ok"} THEN processed \union {m} ELSE processed
  /\ UNCHANGED <<subs, results, claims>>

MutGatheredReleasesAll(c, m) ==
  /\ pc[<<c, m>>] = "gather"
  /\ "running" \notin Collected(c, m)
  /\ outcome' = [outcome EXCEPT ![<<c, m>>] = Resolve(Collected(c, m))]
  /\ GoTo(c, m, IF HasKey(m) THEN "release" ELSE "notify")
  /\ processed' = IF Collected(c, m) = {"ok"} THEN processed \union {m} ELSE processed
  /\ UNCHANGED <<subs, results, claims>>

MutGatheredRaises(c, m) ==
  /\ pc[<<c, m>>] = "gather"
  /\ "running" \notin Collected(c, m)
  /\ GoTo(c, m, IF "error" \in Collected(c, m) THEN "except" ELSE "notify")
  /\ outcome' = [outcome EXCEPT ![<<c, m>>] = Resolve(Collected(c, m))]
  /\ UNCHANGED <<subs, results, claims, processed>>

(* gather() has every result.  They are zipped strictly with the set of    *)
(* subscribers as it is now: a set of another size raises ValueError.      *)
Gathered(c, m) ==
  /\ pc[<<c, m>>] = "gather"
  /\ "running" \notin Collected(c, m)
  /\ IF Cardinality(subs[c]) # Cardinality(DOMAIN results[<<c, m>>])
     THEN /\ GoTo(c, m, "except")
          /\ UNCHANGED outcome
     ELSE LET o == Resolve(Collected(c, m)) IN
          /\ outcome' = [outcome EXCEPT ![<<c, m>>] = o]
          /\ GoTo(c, m, IF HasKey(m) /\ o # "success" THEN "release" ELSE "notify")
  /\ processed' = IF Collected(c, m) = {"ok"} THEN processed \union {m} ELSE processed
  /\ UNCHANGED <<subs, results, claims>>

MutReleaseClaim(c, m) ==
  /\ pc[<<c, m>>] = "release"
  /\ GoTo(c, m, "notify")
  /\ UNCHANGED <<subs, results, outcome, claims, processed>>

(* The claim is given up before the outcome is acted on. *)
ReleaseClaim(c, m) ==
  /\ pc[<<c, m>>] = "release"
  /\ claims' = claims \ {Claim(c, m)}
  /\ GoTo(c, m, "notify")
  /\ UNCHANGED <<subs, results, outcome, processed>>

(* release() fails, before or after the store has dropped the claim. *)
ReleaseRaises(c, m) ==
  /\ StoreRaises
  /\ \/ pc[<<c, m>>] = "release" /\ GoTo(c, m, "except")
     \/ pc[<<c, m>>] = "except" /\ HasKey(m) /\ GoTo(c, m, "raised")
  /\ claims' \in {claims, claims \ {Claim(c, m)}}
  /\ UNCHANGED <<subs, results, outcome, processed>>

MutVerbOf(o) == IF o = "retry" THEN "retry" ELSE "ack"

(* _handle_outcome: the hook of the outcome, then (next) its verb. *)
VerbOf(o) == CASE o = "retry" -> "retry" [] o = "failure" -> "dlq" [] OTHER -> "ack"

Notify(c, m) ==
  /\ pc[<<c, m>>] = "notify"
  /\ GoTo(c, m, VerbOf(outcome[<<c, m>>]))
  /\ UNCHANGED <<subs, results, outcome, claims, processed>>

AtVerb(c, m) == pc[<<c, m>>] \in {"ack", "retry", "dlq"}

(* The acknowledger's verb returns, and with it _dispatch. *)
VerbReturns(c, m) ==
  /\ AtVerb(c, m)
  /\ Forget({<<c, m>>})
  /\ UNCHANGED <<subs, claims, processed>>

(* It raises: outside the try for a duplicate, else into its handler. *)
VerbRaisesError(c, m) ==
  /\ VerbsRaise
  /\ AtVerb(c, m)
  /\ GoTo(c, m, IF outcome[<<c, m>>] = "duplicate" THEN "raised" ELSE "except")
  /\ UNCHANGED <<subs, results, outcome, claims, processed>>

MutReleaseAndRaise(c, m) ==
  /\ pc[<<c, m>>] = "except"
  /\ GoTo(c, m, "raised")
  /\ UNCHANGED <<subs, results, outcome, claims, processed>>

(* except Exception: the claim is released (again), the error re-raised. *)
ReleaseAndRaise(c, m) ==
  /\ pc[<<c, m>>] = "except"
  /\ claims' = IF HasKey(m) THEN claims \ {Claim(c, m)} ELSE claims
  /\ GoTo(c, m, "raised")
  /\ UNCHANGED <<subs, results, outcome, processed>>
-------------------------------------------------------------------------------
(* What may happen to a delivery from outside of _dispatch.                *)

(* The caller drops the deliveries D of its consumer: it has dealt with    *)
(* their error, or it cancels them.  CancelledError is no Exception, so no *)
(* claim is released on this path.                                         *)
Abandon(c, D) ==
  /\ D \subseteq Running(c)
  /\ Forget(D)
  /\ UNCHANGED <<subs, claims, processed>>

(* stop(): the subscribers are cleared; a pull consumer cancels its loop   *)
(* and with it every delivery, a push consumer cancels none.               *)
Halt(c, D) ==
  /\ D \subseteq Running(c)
  /\ StableWiring => D = Running(c)
  /\ subs' = [subs EXCEPT ![c] = {}]
  /\ Forget(D)
  /\ UNCHANGED <<claims, processed>>

(* The process dies, and an in-memory store with it. *)
Die(c) ==
  /\ subs' = [subs EXCEPT ![c] = {}]
  /\ Forget({c} \X Messages)
  /\ claims' = IF SharedStore THEN claims ELSE claims \ ({c} \X Keys)
  /\ UNCHANGED processed

Step(c, m) ==
  \/ ClaimKey(c, m) \/ ClaimRaises(c, m) \/ Receive(c, m)
  \/ \E s \in Subscribers, r \in Results : SubscriberDone(c, m, s, r)
  \/ Gathered(c, m) \/ ReleaseClaim(c, m) \/ ReleaseRaises(c, m) \/ Notify(c, m)
  \/ VerbReturns(c, m) \/ VerbRaisesError(c, m) \/ ReleaseAndRaise(c, m)

DispatchNext ==
  \/ \E c \in Consumers :
       \/ \E B \in SUBSET Messages : Begin(c, B)
       \/ \E m \in Messages : Step(c, m)
       \/ \E s \in Subscribers : Subscribe(c, s) \/ Unsubscribe(c, s)
       \/ \E D \in SUBSET Running(c) : Abandon(c, D) \/ Halt(c, D)
       \/ Die(c)

DispatchSpec == DispatchInit /\ [][DispatchNext]_dispatchVars
-------------------------------------------------------------------------------
(* The delivery owns the claim of its key: claim() said True and it has    *)
(* not given the claim up.  A delivery whose outcome is no success gives   *)
(* it up before its hook and verb, so an error raised from there on finds  *)
(* it gone.                                                                *)
Owns(c, m) ==
  /\ HasKey(m)
  /\ \/ pc[<<c, m>>] \in {"receive", "gather", "release"}
     \/ pc[<<c, m>>] \in {"notify", "ack", "except"} /\ outcome[<<c, m>>] \in {None, "unsubscribed", "success"}

(* At any time at most one delivery per key is between its claim and its   *)
(* release, over all consumers that share the store: subscribers never     *)
(* handle two deliveries of a message at once, and no release drops the    *)
(* claim of another delivery (base.py:189-239).                            *)
OneOwner ==
  \A d, e \in Deliveries :
    Owns(d[1], d[2]) /\ Owns(e[1], e[2]) /\ Claim(d[1], d[2]) = Claim(e[1], e[2]) => d = e

(* A message that all its subscribers handled is not handed to them again, *)
(* when deliveries of it share the store (base.py:189-199, 227-230).       *)
ProcessedNotRerun ==
  [][\A c \in Consumers, m \in Messages :
       pc[<<c, m>>] = "receive" /\ pc'[<<c, m>>] = "gather" /\ HasKey(m)
         => m \notin processed]_dispatchVars
-------------------------------------------------------------------------------
(* The inductive invariant behind OneOwner, when neither verbs nor store   *)
(* raise: an owner's key is claimed, an outcome is known only from gather  *)
(* on, and the exception handler is reached only while the claim is held.  *)
OwnersClaim == \A c \in Consumers, m \in Messages : Owns(c, m) => Claim(c, m) \in claims

OutcomePending ==
  \A d \in Deliveries :
    /\ pc[d] \in {"idle", "claim", "receive", "gather", "except"} => outcome[d] = None
    /\ pc[d] = "release" => outcome[d] \in {"retry", "failure"}

KeyedPoints == \A c \in Consumers, m \in Messages : pc[<<c, m>>] \in {"claim", "release"} => HasKey(m)

IInv == DispatchTypeOK /\ OwnersClaim /\ OutcomePending /\ KeyedPoints /\ OneOwner

(* What ProcessedNotRerun needs besides, with one store and stable wiring: *)
(* results are those of the present subscribers, and the key of a message  *)
(* that was processed stays claimed, by an owner that is past its release. *)
WiringKept ==
  \A c \in Consumers, m \in Messages :
    pc[<<c, m>>] = "gather" => DOMAIN results[<<c, m>>] = subs[c]

ProcessedKept ==
  \A n \in processed : HasKey(n) =>
    /\ <<"redis", KeyOf[n]>> \in claims
    /\ \A c \in Consumers, m \in Messages :
         Owns(c, m) /\ KeyOf[m] = KeyOf[n] => pc[<<c, m>>] \in {"notify", "ack"}
===============================================================================
