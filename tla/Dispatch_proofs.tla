---------------------------- MODULE Dispatch_proofs ----------------------------
(* Proofs about the dispatch lifecycle, for any consumers, messages, keys and  *)
(* subscribers.  They assume that neither the acknowledger's verbs nor the     *)
(* store raise: module SqsConsumer shows what happens to OneOwner otherwise.   *)
EXTENDS Dispatch, TLAPS

Calm == ~ VerbsRaise /\ ~ StoreRaises

--------------------------------------------------------------------------------
(* Facts about the helpers the actions are made of.                            *)

(* The empty function and one that is still running everywhere are results.    *)
LEMMA ResultsTypes ==
  /\ NoResults \in PartialResults
  /\ \A S \in SUBSET Subscribers : [s \in S |-> "running"] \in PartialResults
  /\ \A f \in PartialResults, s \in Subscribers, r \in Results :
       s \in DOMAIN f => [f EXCEPT ![s] = r] \in PartialResults
<1>1. \A S \in SUBSET Subscribers : [s \in S |-> "running"] \in PartialResults
  <2> SUFFICES ASSUME NEW S \in SUBSET Subscribers
               PROVE  [s \in S |-> "running"] \in PartialResults
    OBVIOUS
  <2>1. [s \in S |-> "running"] \in [S -> Results \union {"running"}]
    OBVIOUS
  <2> QED
    BY <2>1 DEF PartialResults
<1>2. NoResults \in PartialResults
  BY <1>1 DEF NoResults
<1>3. ASSUME NEW f \in PartialResults, NEW s \in Subscribers, NEW r \in Results, s \in DOMAIN f
      PROVE  [f EXCEPT ![s] = r] \in PartialResults
  <2>1. PICK S \in SUBSET Subscribers : f \in [S -> Results \union {"running"}]
    BY DEF PartialResults
  <2>2. [f EXCEPT ![s] = r] \in [S -> Results \union {"running"}]
    BY <2>1, <1>3
  <2> QED
    BY <2>2 DEF PartialResults
<1> QED
  BY <1>1, <1>2, <1>3

(* Moving one delivery to a point leaves all others where they are. *)
LEMMA GoToMoves ==
  ASSUME DispatchTypeOK, NEW c \in Consumers, NEW m \in Messages, NEW p \in Points, GoTo(c, m, p)
  PROVE  /\ pc' \in [Deliveries -> Points]
         /\ pc'[<<c, m>>] = p
         /\ \A d \in Deliveries : d # <<c, m>> => pc'[d] = pc[d]
BY DEF DispatchTypeOK, GoTo, Deliveries

(* Forgetting deliveries resets them and leaves all others as they are. *)
LEMMA ForgetResets ==
  ASSUME DispatchTypeOK, NEW D, Forget(D)
  PROVE  /\ pc' \in [Deliveries -> Points]
         /\ outcome' \in [Deliveries -> Outcomes]
         /\ results' \in [Deliveries -> PartialResults]
         /\ \A d \in Deliveries : d \in D => pc'[d] = "idle" /\ outcome'[d] = None
         /\ \A d \in Deliveries : d \notin D => pc'[d] = pc[d] /\ outcome'[d] = outcome[d]
BY ResultsTypes DEF DispatchTypeOK, Forget, Points, Outcomes, None

(* The claim of a keyed delivery is a claim the store may hold. *)
LEMMA ClaimType ==
  ASSUME NEW c \in Consumers, NEW m \in Messages, HasKey(m)
  PROVE  Claim(c, m) \in (Consumers \union {"redis"}) \X Keys
BY DispatchAssumption DEF Claim, HasKey, StoreOf

(* A step that drops no claim and makes no delivery an owner. *)
LEMMA NoNewOwner ==
  ASSUME OwnersClaim, OneOwner, claims \subseteq claims',
         \A c \in Consumers, m \in Messages : Owns(c, m)' => Owns(c, m)
  PROVE  OwnersClaim' /\ OneOwner'
<1>1. \A c \in Consumers, m \in Messages : Claim(c, m)' = Claim(c, m)
  BY DEF Claim, StoreOf
<1>2. OwnersClaim'
  BY <1>1 DEF OwnersClaim
<1>3. OneOwner'
  BY <1>1 DEF OneOwner, Deliveries
<1> QED
  BY <1>2, <1>3
--------------------------------------------------------------------------------
(* Type correctness, whatever raises.                                          *)

LEMMA TypeInit == DispatchInit => DispatchTypeOK
BY ResultsTypes DEF DispatchInit, DispatchTypeOK, Points, Outcomes, None

LEMMA TypeStep == DispatchTypeOK /\ KeyedPoints /\ [DispatchNext]_dispatchVars => DispatchTypeOK'
<1> SUFFICES ASSUME DispatchTypeOK, KeyedPoints, [DispatchNext]_dispatchVars
             PROVE  DispatchTypeOK'
  OBVIOUS
<1>1. ASSUME UNCHANGED dispatchVars
      PROVE  DispatchTypeOK'
  BY <1>1 DEF dispatchVars, DispatchTypeOK
<1>2. ASSUME NEW c \in Consumers, NEW s \in Subscribers, Subscribe(c, s) \/ Unsubscribe(c, s)
      PROVE  DispatchTypeOK'
  BY <1>2 DEF Subscribe, Unsubscribe, DispatchTypeOK
<1>3. ASSUME NEW c \in Consumers, NEW B \in SUBSET Messages, Begin(c, B)
      PROVE  DispatchTypeOK'
  <2>1. pc' \in [Deliveries -> Points]
    BY <1>3 DEF Begin, DispatchTypeOK, Points, Deliveries
  <2> QED
    BY <1>3, <2>1 DEF Begin, DispatchTypeOK
<1>4. ASSUME NEW c \in Consumers, NEW D \in SUBSET Running(c), Abandon(c, D) \/ Halt(c, D)
      PROVE  DispatchTypeOK'
  BY <1>4, ForgetResets DEF Abandon, Halt, DispatchTypeOK
<1>5. ASSUME NEW c \in Consumers, Die(c)
      PROVE  DispatchTypeOK'
  BY <1>5, ForgetResets DEF Die, DispatchTypeOK
<1>6. ASSUME NEW c \in Consumers, NEW m \in Messages, Step(c, m)
      PROVE  DispatchTypeOK'
  <2> DEFINE d == <<c, m>>
  <2>d. d \in Deliveries
    BY DEF Deliveries
  <2>p. /\ {"idle", "claim", "receive", "gather", "release", "notify"} \subseteq Points
        /\ {"ack", "retry", "dlq", "except", "raised"} \subseteq Points
        /\ {"duplicate", "unsubscribed", "success", "retry", "failure"} \subseteq Outcomes
    BY DEF Points, Outcomes
  <2>k. pc[d] = "claim" => Claim(c, m) \in (Consumers \union {"redis"}) \X Keys
    BY ClaimType DEF KeyedPoints
  <2>1. CASE ClaimKey(c, m)
    <3>1. claims' \subseteq (Consumers \union {"redis"}) \X Keys
      BY <2>1, <2>k DEF ClaimKey, DispatchTypeOK
    <3>2. outcome' \in [Deliveries -> Outcomes]
      BY <2>1, <2>p DEF ClaimKey, DispatchTypeOK
    <3>3. pc' \in [Deliveries -> Points]
      BY <2>1, <2>p, GoToMoves DEF ClaimKey
    <3> QED
      BY <2>1, <3>1, <3>2, <3>3 DEF ClaimKey, DispatchTypeOK
  <2>2. CASE ClaimRaises(c, m)
    <3>1. claims' \subseteq (Consumers \union {"redis"}) \X Keys
      BY <2>2, <2>k DEF ClaimRaises, DispatchTypeOK
    <3>3. pc' \in [Deliveries -> Points]
      BY <2>2, <2>p, GoToMoves DEF ClaimRaises
    <3> QED
      BY <2>2, <3>1, <3>3 DEF ClaimRaises, DispatchTypeOK
  <2>3. CASE Receive(c, m)
    <3>1. [s \in subs[c] |-> "running"] \in PartialResults
      BY ResultsTypes DEF DispatchTypeOK
    <3>2. results' \in [Deliveries -> PartialResults]
      BY <2>3, <3>1 DEF Receive, DispatchTypeOK
    <3>3. outcome' \in [Deliveries -> Outcomes]
      BY <2>3, <2>p DEF Receive, DispatchTypeOK
    <3>4. pc' \in [Deliveries -> Points]
      BY <2>3, <2>p, GoToMoves DEF Receive
    <3> QED
      BY <2>3, <3>2, <3>3, <3>4 DEF Receive, DispatchTypeOK
  <2>4. ASSUME NEW s \in Subscribers, NEW r \in Results, SubscriberDone(c, m, s, r)
        PROVE  DispatchTypeOK'
    <3>1. [results[d] EXCEPT ![s] = r] \in PartialResults
      BY <2>4, <2>d, ResultsTypes DEF SubscriberDone, DispatchTypeOK
    <3>2. results' \in [Deliveries -> PartialResults]
      BY <2>4, <3>1 DEF SubscriberDone, DispatchTypeOK
    <3> QED
      BY <2>4, <3>2 DEF SubscriberDone, DispatchTypeOK
  <2>5. CASE Gathered(c, m)
    <3>1. Resolve(Collected(c, m)) \in Outcomes
      BY <2>p DEF Resolve
    <3>2. processed' \subseteq Messages
      BY <2>5 DEF Gathered, DispatchTypeOK
    <3>3. pc' \in [Deliveries -> Points]
      <4>1. \E p \in Points : GoTo(c, m, p)
        BY <2>5, <2>p DEF Gathered
      <4> QED
        BY <4>1, GoToMoves
    <3>4. outcome' \in [Deliveries -> Outcomes]
      BY <2>5, <3>1 DEF Gathered, DispatchTypeOK
    <3> QED
      BY <2>5, <3>2, <3>3, <3>4 DEF Gathered, DispatchTypeOK
  <2>6. CASE ReleaseClaim(c, m)
    BY <2>6, <2>p, GoToMoves DEF ReleaseClaim, DispatchTypeOK
  <2>7. CASE ReleaseRaises(c, m)
    BY <2>7, <2>p, GoToMoves DEF ReleaseRaises, DispatchTypeOK
  <2>8. CASE Notify(c, m)
    <3>1. VerbOf(outcome[d]) \in Points
      BY <2>p DEF VerbOf
    <3> QED
      BY <2>8, <3>1, GoToMoves DEF Notify, DispatchTypeOK
  <2>9. CASE VerbReturns(c, m)
    BY <2>9, ForgetResets DEF VerbReturns, DispatchTypeOK
  <2>10. CASE VerbRaisesError(c, m)
    BY <2>10, <2>p, GoToMoves DEF VerbRaisesError, DispatchTypeOK
  <2>11. CASE ReleaseAndRaise(c, m)
    BY <2>11, <2>p, GoToMoves DEF ReleaseAndRaise, DispatchTypeOK
  <2> QED
    BY <1>6, <2>1, <2>2, <2>3, <2>4, <2>5, <2>6, <2>7, <2>8, <2>9, <2>10, <2>11 DEF Step
<1> QED
  BY <1>1, <1>2, <1>3, <1>4, <1>5, <1>6 DEF DispatchNext

(* The store is called only for messages that have a key. *)
LEMMA KeyedStep ==
  DispatchTypeOK /\ KeyedPoints /\ [DispatchNext]_dispatchVars => KeyedPoints'
<1> SUFFICES ASSUME DispatchTypeOK, KeyedPoints, [DispatchNext]_dispatchVars
             PROVE  KeyedPoints'
  OBVIOUS
<1> USE DEF KeyedPoints, Deliveries
<1>1. ASSUME UNCHANGED pc
      PROVE  KeyedPoints'
  BY <1>1 DEF HasKey
<1>2. ASSUME NEW D, Forget(D)
      PROVE  KeyedPoints'
  BY <1>2, ForgetResets DEF HasKey
<1>3. ASSUME NEW c \in Consumers, NEW m \in Messages, NEW p \in Points, GoTo(c, m, p),
             p \in {"claim", "release"} => HasKey(m)
      PROVE  KeyedPoints'
  <2>1. pc'[<<c, m>>] = p /\ \A d \in Deliveries : d # <<c, m>> => pc'[d] = pc[d]
    BY <1>3, GoToMoves
  <2> SUFFICES ASSUME NEW b \in Consumers, NEW n \in Messages, pc'[<<b, n>>] \in {"claim", "release"}
               PROVE  HasKey(n)
    BY DEF HasKey
  <2>2. CASE <<b, n>> = <<c, m>>
    BY <1>3, <2>1, <2>2
  <2>3. CASE <<b, n>> # <<c, m>>
    <3>1. <<b, n>> \in Deliveries
      OBVIOUS
    <3>2. pc'[<<b, n>>] = pc[<<b, n>>]
      BY <2>1, <2>3, <3>1
    <3> QED
      BY <3>2
  <2> QED
    BY <2>2, <2>3
<1>4. ASSUME NEW c \in Consumers, NEW B \in SUBSET Messages, Begin(c, B)
      PROVE  KeyedPoints'
  BY <1>4 DEF Begin, HasKey, DispatchTypeOK
<1>5. ASSUME NEW c \in Consumers, NEW m \in Messages, Step(c, m)
      PROVE  KeyedPoints'
  <2>p. /\ {"idle", "claim", "receive", "gather", "release", "notify"} \subseteq Points
        /\ {"ack", "retry", "dlq", "except", "raised"} \subseteq Points
    BY DEF Points
  <2>1. CASE \/ ClaimKey(c, m) \/ ClaimRaises(c, m) \/ Receive(c, m)
             \/ ReleaseClaim(c, m) \/ ReleaseRaises(c, m)
    BY <2>1, <2>p, <1>3 DEF ClaimKey, ClaimRaises, Receive, ReleaseClaim, ReleaseRaises
  <2>2. CASE \E s \in Subscribers, r \in Results : SubscriberDone(c, m, s, r)
    BY <2>2, <1>1 DEF SubscriberDone
  <2>3. CASE Gathered(c, m)
    <3>1. \/ GoTo(c, m, "except") \/ GoTo(c, m, "notify")
          \/ GoTo(c, m, "release") /\ HasKey(m)
      BY <2>3 DEF Gathered
    <3> QED
      BY <3>1, <2>p, <1>3
  <2>4. CASE Notify(c, m)
    <3>1. VerbOf(outcome[<<c, m>>]) \in {"ack", "retry", "dlq"}
      BY DEF VerbOf
    <3> QED
      BY <2>4, <3>1, <2>p, <1>3 DEF Notify
  <2>5. CASE VerbReturns(c, m)
    BY <2>5, <1>2 DEF VerbReturns
  <2>6. CASE VerbRaisesError(c, m) \/ ReleaseAndRaise(c, m)
    BY <2>6, <2>p, <1>3 DEF VerbRaisesError, ReleaseAndRaise
  <2> QED
    BY <1>5, <2>1, <2>2, <2>3, <2>4, <2>5, <2>6 DEF Step
<1>6. ASSUME NEW c \in Consumers, NEW s \in Subscribers, Subscribe(c, s) \/ Unsubscribe(c, s)
      PROVE  KeyedPoints'
  BY <1>6, <1>1 DEF Subscribe, Unsubscribe
<1>7. ASSUME NEW c \in Consumers, NEW D \in SUBSET Running(c), Abandon(c, D) \/ Halt(c, D)
      PROVE  KeyedPoints'
  BY <1>7, <1>2 DEF Abandon, Halt
<1>8. ASSUME NEW c \in Consumers, Die(c)
      PROVE  KeyedPoints'
  BY <1>8, <1>2 DEF Die
<1>9. ASSUME UNCHANGED dispatchVars
      PROVE  KeyedPoints'
  BY <1>9, <1>1 DEF dispatchVars
<1> QED
  BY <1>4, <1>5, <1>6, <1>7, <1>8, <1>9 DEF DispatchNext

(* Every reachable state of the lifecycle is well typed. *)
THEOREM DispatchTypeCorrect == DispatchSpec => []DispatchTypeOK
<1>1. DispatchInit => DispatchTypeOK /\ KeyedPoints
  BY TypeInit DEF DispatchInit, KeyedPoints, Deliveries
<1>2. DispatchTypeOK /\ KeyedPoints /\ [DispatchNext]_dispatchVars => (DispatchTypeOK /\ KeyedPoints)'
  BY TypeStep, KeyedStep
<1> QED
  BY <1>1, <1>2, PTL DEF DispatchSpec
--------------------------------------------------------------------------------
(* One owner per key, when neither verbs nor store raise.                      *)

(* An outcome is known only once the subscribers' results are in, so the       *)
(* exception handler is entered with the claim still held.                     *)
LEMMA PendingStep ==
  ASSUME Calm, DispatchTypeOK, KeyedPoints, OutcomePending, [DispatchNext]_dispatchVars
  PROVE  OutcomePending'
<1> USE DEF OutcomePending
<1>1. ASSUME UNCHANGED <<pc, outcome>>
      PROVE  OutcomePending'
  BY <1>1
<1>2. ASSUME NEW D, Forget(D)
      PROVE  OutcomePending'
  BY <1>2, ForgetResets DEF None
<1>3. ASSUME NEW c \in Consumers, NEW m \in Messages, NEW p \in Points, GoTo(c, m, p),
             p \notin {"idle", "claim", "receive", "gather", "except"},
             p = "release" => outcome'[<<c, m>>] \in {"retry", "failure"},
             \A d \in Deliveries : d # <<c, m>> => outcome'[d] = outcome[d]
      PROVE  OutcomePending'
  BY <1>3, GoToMoves
<1>4. ASSUME NEW c \in Consumers, NEW m \in Messages, NEW p \in Points, GoTo(c, m, p),
             p # "release", UNCHANGED outcome,
             pc[<<c, m>>] \in {"idle", "claim", "receive", "gather", "except"}
      PROVE  OutcomePending'
  BY <1>4, GoToMoves
<1>p. /\ {"idle", "claim", "receive", "gather", "release", "notify"} \subseteq Points
      /\ {"ack", "retry", "dlq", "except", "raised"} \subseteq Points
  BY DEF Points
<1>5. ASSUME NEW c \in Consumers, NEW m \in Messages, Step(c, m)
      PROVE  OutcomePending'
  <2>0. \A o : \A d \in Deliveries :
           d # <<c, m>> => [outcome EXCEPT ![<<c, m>>] = o][d] = outcome[d]
    BY DEF DispatchTypeOK
  <2>1. CASE ClaimKey(c, m) \/ Receive(c, m)
    <3>1. \/ GoTo(c, m, "ack") /\ \E o : outcome' = [outcome EXCEPT ![<<c, m>>] = o]
          \/ GoTo(c, m, "receive") /\ pc[<<c, m>>] = "claim" /\ UNCHANGED outcome
          \/ GoTo(c, m, "gather") /\ pc[<<c, m>>] = "receive" /\ UNCHANGED outcome
      BY <2>1 DEF ClaimKey, Receive
    <3>2. CASE GoTo(c, m, "ack") /\ \E o : outcome' = [outcome EXCEPT ![<<c, m>>] = o]
      BY <3>2, <2>0, <1>p, <1>3
    <3> QED
      BY <3>1, <3>2, <1>p, <1>4
  <2>3. CASE \E s \in Subscribers, r \in Results : SubscriberDone(c, m, s, r)
    BY <2>3, <1>1 DEF SubscriberDone
  <2>4. CASE Gathered(c, m)
    <3>1. CASE GoTo(c, m, "except") /\ UNCHANGED outcome
      BY <2>4, <3>1, <1>p, <1>4 DEF Gathered
    <3>2. CASE GoTo(c, m, "notify") /\ \E o : outcome' = [outcome EXCEPT ![<<c, m>>] = o]
      BY <3>2, <2>0, <1>p, <1>3
    <3>3. CASE /\ GoTo(c, m, "release")
               /\ \E o \in {"retry", "failure"} : outcome' = [outcome EXCEPT ![<<c, m>>] = o]
      <4>1. outcome'[<<c, m>>] \in {"retry", "failure"}
        BY <3>3 DEF DispatchTypeOK, Deliveries
      <4> QED
        BY <3>3, <4>1, <2>0, <1>p, <1>3
    <3>4. Resolve(Collected(c, m)) \in {"retry", "failure", "success"}
      BY DEF Resolve
    <3> QED
      BY <2>4, <3>1, <3>2, <3>3, <3>4 DEF Gathered
  <2>5. CASE ReleaseClaim(c, m) \/ ReleaseAndRaise(c, m)
    BY <2>5, <1>p, <1>3 DEF ReleaseClaim, ReleaseAndRaise
  <2>6. CASE Notify(c, m)
    <3>1. VerbOf(outcome[<<c, m>>]) \in {"ack", "retry", "dlq"}
      BY DEF VerbOf
    <3> QED
      BY <2>6, <3>1, <1>p, <1>3 DEF Notify
  <2>7. CASE VerbReturns(c, m)
    BY <2>7, <1>2 DEF VerbReturns
  <2> QED
    BY <1>5, <2>1, <2>3, <2>4, <2>5, <2>6, <2>7
    DEF Step, Calm, ClaimRaises, ReleaseRaises, VerbRaisesError
<1>6. ASSUME NEW c \in Consumers, NEW B \in SUBSET Messages, Begin(c, B)
      PROVE  OutcomePending'
  <2> QED
    BY <1>6 DEF Begin, DispatchTypeOK, Active, Deliveries
<1>7. ASSUME NEW c \in Consumers, NEW s \in Subscribers, Subscribe(c, s) \/ Unsubscribe(c, s)
      PROVE  OutcomePending'
  BY <1>7, <1>1 DEF Subscribe, Unsubscribe
<1>8. ASSUME NEW c \in Consumers, NEW D \in SUBSET Running(c), Abandon(c, D) \/ Halt(c, D)
      PROVE  OutcomePending'
  BY <1>8, <1>2 DEF Abandon, Halt
<1>9. ASSUME NEW c \in Consumers, Die(c)
      PROVE  OutcomePending'
  BY <1>9, <1>2 DEF Die
<1>10. ASSUME UNCHANGED dispatchVars
       PROVE  OutcomePending'
  BY <1>10, <1>1 DEF dispatchVars
<1> QED
  BY <1>5, <1>6, <1>7, <1>8, <1>9, <1>10 DEF DispatchNext

(* A step keeps the owners' claims in the store and the owners apart. *)
LEMMA OwnerStep ==
  ASSUME Calm, DispatchTypeOK, KeyedPoints, OutcomePending, OwnersClaim, OneOwner,
         [DispatchNext]_dispatchVars
  PROVE  OwnersClaim' /\ OneOwner'
<1>k. \A c \in Consumers, m \in Messages :
        Claim(c, m)' = Claim(c, m) /\ HasKey(m)' = HasKey(m) /\ <<c, m>> \in Deliveries
  BY DEF Claim, StoreOf, HasKey, Deliveries
<1>1. ASSUME UNCHANGED <<pc, outcome, claims>>
      PROVE  OwnersClaim' /\ OneOwner'
  BY <1>1, <1>k, NoNewOwner DEF Owns
<1>2. ASSUME NEW D, Forget(D), claims \subseteq claims'
      PROVE  OwnersClaim' /\ OneOwner'
  <2>1. \A c \in Consumers, m \in Messages : Owns(c, m)' => Owns(c, m)
    BY <1>2, <1>k, ForgetResets DEF Owns
  <2> QED
    BY <1>2, <2>1, NoNewOwner
<1>3. ASSUME NEW c \in Consumers, NEW m \in Messages, NEW p \in Points, GoTo(c, m, p),
             claims \subseteq claims', Owns(c, m)' => Owns(c, m),
             \A d \in Deliveries : d # <<c, m>> => outcome'[d] = outcome[d]
      PROVE  OwnersClaim' /\ OneOwner'
  <2>1. \A a \in Consumers, b \in Messages : Owns(a, b)' => Owns(a, b)
    BY <1>3, <1>k, GoToMoves DEF Owns
  <2> QED
    BY <1>3, <2>1, NoNewOwner
<1>4. ASSUME NEW c \in Consumers, NEW m \in Messages, NEW p \in Points, GoTo(c, m, p),
             Owns(c, m), ~ Owns(c, m)', claims' = claims \ {Claim(c, m)}, UNCHANGED outcome
      PROVE  OwnersClaim' /\ OneOwner'
  <2>1. \A a \in Consumers, b \in Messages : Owns(a, b)' => Owns(a, b) /\ <<a, b>> # <<c, m>>
    BY <1>4, <1>k, GoToMoves DEF Owns
  <2>2. \A a \in Consumers, b \in Messages : Owns(a, b)' => Claim(a, b) # Claim(c, m)
    BY <1>4, <1>k, <2>1 DEF OneOwner
  <2>3. OwnersClaim'
    BY <1>4, <1>k, <2>1, <2>2 DEF OwnersClaim
  <2>4. OneOwner'
    BY <1>k, <2>1 DEF OneOwner, Deliveries
  <2> QED
    BY <2>3, <2>4
<1>p. /\ {"idle", "claim", "receive", "gather", "release", "notify"} \subseteq Points
      /\ {"ack", "retry", "dlq", "except", "raised"} \subseteq Points
  BY DEF Points
<1>5. ASSUME NEW c \in Consumers, NEW m \in Messages, Step(c, m)
      PROVE  OwnersClaim' /\ OneOwner'
  <2> DEFINE d == <<c, m>>
  <2>d. d \in Deliveries
    BY <1>k
  <2>0. \A o : /\ [outcome EXCEPT ![d] = o][d] = o
               /\ \A e \in Deliveries : e # d => [outcome EXCEPT ![d] = o][e] = outcome[e]
    BY <2>d DEF DispatchTypeOK
  <2>1. CASE ClaimKey(c, m) /\ Claim(c, m) \notin claims
    <3>1. /\ GoTo(c, m, "receive") /\ claims' = claims \union {Claim(c, m)}
          /\ UNCHANGED outcome
      BY <2>1 DEF ClaimKey
    <3>2. \A a \in Consumers, b \in Messages :
            Owns(a, b)' => <<a, b>> = d \/ (Owns(a, b) /\ Claim(a, b) # Claim(c, m))
      BY <2>1, <3>1, <1>k, <1>p, GoToMoves DEF Owns, OwnersClaim
    <3>3. OwnersClaim'
      BY <3>1, <3>2, <1>k DEF OwnersClaim
    <3>4. OneOwner'
      BY <3>2, <1>k DEF OneOwner, Deliveries
    <3> QED
      BY <3>3, <3>4
  <2>2. CASE ClaimKey(c, m) /\ Claim(c, m) \in claims
    <3>1. GoTo(c, m, "ack") /\ outcome' = [outcome EXCEPT ![d] = "duplicate"] /\ UNCHANGED claims
      BY <2>2 DEF ClaimKey
    <3>2. ~ Owns(c, m)'
      BY <3>1, <2>0, <1>p, GoToMoves DEF Owns, None
    <3> QED
      BY <3>1, <3>2, <2>0, <1>p, <1>3
  <2>3. CASE Receive(c, m)
    <3>1. UNCHANGED claims /\ (Owns(c, m)' => Owns(c, m))
      BY <2>3, <1>k DEF Receive, Owns
    <3>2. \/ GoTo(c, m, "gather") /\ UNCHANGED outcome
          \/ GoTo(c, m, "ack") /\ outcome' = [outcome EXCEPT ![d] = "unsubscribed"]
      BY <2>3 DEF Receive
    <3>3. \A e \in Deliveries : e # d => outcome'[e] = outcome[e]
      BY <3>2, <2>0
    <3> QED
      BY <3>1, <3>2, <3>3, <1>p, <1>3
  <2>4. CASE \E s \in Subscribers, r \in Results : SubscriberDone(c, m, s, r)
    BY <2>4, <1>1 DEF SubscriberDone
  <2>5. CASE Gathered(c, m)
    <3>1. UNCHANGED claims /\ (Owns(c, m)' => Owns(c, m))
      BY <2>5, <1>k DEF Gathered, Owns
    <3>2. /\ GoTo(c, m, "except") \/ GoTo(c, m, "release") \/ GoTo(c, m, "notify")
          /\ UNCHANGED outcome \/ outcome' = [outcome EXCEPT ![d] = Resolve(Collected(c, m))]
      BY <2>5 DEF Gathered
    <3>3. \A e \in Deliveries : e # d => outcome'[e] = outcome[e]
      BY <3>2, <2>0
    <3> QED
      BY <3>1, <3>2, <3>3, <1>p, <1>3
  <2>6. CASE ReleaseClaim(c, m)
    <3>1. /\ pc[d] = "release" /\ GoTo(c, m, "notify")
          /\ claims' = claims \ {Claim(c, m)} /\ UNCHANGED outcome
      BY <2>6 DEF ReleaseClaim
    <3>2. Owns(c, m) /\ ~ Owns(c, m)'
      BY <3>1, <2>d, <1>k, <1>p, GoToMoves DEF Owns, KeyedPoints, OutcomePending, None
    <3> QED
      BY <3>1, <3>2, <1>p, <1>4
  <2>7. CASE Notify(c, m)
    <3>1. VerbOf(outcome[d]) \in Points
      BY DEF VerbOf, Points
    <3>2. GoTo(c, m, VerbOf(outcome[d])) /\ UNCHANGED <<claims, outcome>> /\ pc[d] = "notify"
      BY <2>7 DEF Notify
    <3>3. Owns(c, m)' => Owns(c, m)
      <4>1. pc'[d] \in {"ack", "retry", "dlq"}
        BY <3>1, <3>2, GoToMoves DEF VerbOf
      <4> QED
        BY <3>2, <4>1, <1>k DEF Owns
    <3> QED
      BY <3>1, <3>2, <3>3, <1>3
  <2>8. CASE VerbReturns(c, m)
    BY <2>8, <1>2 DEF VerbReturns
  <2>9. CASE ReleaseAndRaise(c, m)
    <3>1. pc[d] = "except" /\ GoTo(c, m, "raised") /\ UNCHANGED outcome
      BY <2>9 DEF ReleaseAndRaise
    <3>2. ~ Owns(c, m)'
      BY <3>1, <1>p, GoToMoves DEF Owns
    <3>3. CASE HasKey(m)
      <4>1. Owns(c, m)
        BY <3>1, <3>3, <2>d DEF Owns, OutcomePending
      <4> QED
        BY <2>9, <3>1, <3>2, <3>3, <4>1, <1>p, <1>4 DEF ReleaseAndRaise
    <3>4. CASE ~ HasKey(m)
      BY <2>9, <3>1, <3>2, <3>4, <1>p, <1>3 DEF ReleaseAndRaise
    <3> QED
      BY <3>3, <3>4
  <2> QED
    BY <1>5, <2>1, <2>2, <2>3, <2>4, <2>5, <2>6, <2>7, <2>8, <2>9
    DEF Step, Calm, ClaimRaises, ReleaseRaises, VerbRaisesError
<1>6. ASSUME NEW c \in Consumers, NEW B \in SUBSET Messages, Begin(c, B)
      PROVE  OwnersClaim' /\ OneOwner'
  <2>1. \A a \in Consumers, b \in Messages : Owns(a, b)' => Owns(a, b)
    BY <1>6, <1>k DEF Begin, Owns, DispatchTypeOK
  <2> QED
    BY <1>6, <2>1, NoNewOwner DEF Begin
<1>7. ASSUME NEW c \in Consumers, NEW s \in Subscribers, Subscribe(c, s) \/ Unsubscribe(c, s)
      PROVE  OwnersClaim' /\ OneOwner'
  BY <1>7, <1>1 DEF Subscribe, Unsubscribe
<1>8. ASSUME NEW c \in Consumers, NEW D \in SUBSET Running(c), Abandon(c, D) \/ Halt(c, D)
      PROVE  OwnersClaim' /\ OneOwner'
  BY <1>8, <1>2 DEF Abandon, Halt
<1>9. ASSUME NEW c \in Consumers, Die(c)
      PROVE  OwnersClaim' /\ OneOwner'
  <2>1. \A a \in Consumers, b \in Messages : Owns(a, b)' => Owns(a, b) /\ a # c
    BY <1>9, <1>k, ForgetResets DEF Die, Owns
  <2>2. \A a \in Consumers, b \in Messages :
          Owns(a, b)' => Claim(a, b) \in claims'
    BY <1>9, <2>1 DEF Die, OwnersClaim, Claim, StoreOf
  <2>3. OneOwner'
    BY <1>k, <2>1 DEF OneOwner, Deliveries
  <2> QED
    BY <1>k, <2>2, <2>3 DEF OwnersClaim
<1>10. ASSUME UNCHANGED dispatchVars
       PROVE  OwnersClaim' /\ OneOwner'
  BY <1>10, <1>1 DEF dispatchVars
<1> QED
  BY <1>5, <1>6, <1>7, <1>8, <1>9, <1>10 DEF DispatchNext

(* IInv is an inductive invariant of the lifecycle. *)
LEMMA Inductive ==
  ASSUME Calm
  PROVE  (DispatchInit => IInv) /\ (IInv /\ [DispatchNext]_dispatchVars => IInv')
<1>1. DispatchInit => IInv
  <2>1. DispatchInit => DispatchTypeOK
    BY TypeInit
  <2>2. DispatchInit => \A c \in Consumers, m \in Messages : pc[<<c, m>>] = "idle"
    BY DEF DispatchInit, Deliveries
  <2> QED
    BY <2>1, <2>2
    DEF DispatchInit, IInv, OwnersClaim, OutcomePending, KeyedPoints, OneOwner, Owns, Deliveries
<1>2. IInv /\ [DispatchNext]_dispatchVars => IInv'
  BY TypeStep, KeyedStep, PendingStep, OwnerStep DEF IInv
<1> QED
  BY <1>1, <1>2

(* At most one delivery owns a key at a time, for any number of consumers that *)
(* share the store, any interleaving of their deliveries, and any cancellation,*)
(* stop or crash in between.                                                   *)
THEOREM OneOwnerHolds == ASSUME Calm PROVE DispatchSpec => []OneOwner
<1>1. DispatchInit => IInv
  BY Inductive
<1>2. IInv /\ [DispatchNext]_dispatchVars => IInv'
  BY Inductive
<1>3. IInv => OneOwner
  BY DEF IInv
<1> QED
  BY <1>1, <1>2, <1>3, PTL DEF DispatchSpec

--------------------------------------------------------------------------------
(* A processed message is not run again, when moreover all consumers share one *)
(* store and subscriptions do not change under a running delivery.             *)
Tame == Calm /\ StableWiring

Steady == Tame /\ SharedStore

(* The results of a delivery are those of the present subscribers. *)
LEMMA WiringStep ==
  ASSUME Tame, DispatchTypeOK, WiringKept, [DispatchNext]_dispatchVars
  PROVE  WiringKept'
<1>k. \A c \in Consumers, m \in Messages : <<c, m>> \in Deliveries
  BY DEF Deliveries
<1>1. ASSUME UNCHANGED <<pc, results, subs>>
      PROVE  WiringKept'
  BY <1>1 DEF WiringKept
<1>2. ASSUME NEW D, Forget(D), UNCHANGED subs
      PROVE  WiringKept'
  <2>1. \A d \in Deliveries : pc'[d] = "gather" => pc[d] = "gather" /\ results'[d] = results[d]
    BY <1>2 DEF Forget
  <2> QED
    BY <1>2, <1>k, <2>1 DEF WiringKept
<1>3. ASSUME NEW c \in Consumers, NEW m \in Messages, NEW p \in Points, GoTo(c, m, p),
             p # "gather", UNCHANGED <<subs, results>>
      PROVE  WiringKept'
  <2>1. pc'[<<c, m>>] # "gather" /\ \A d \in Deliveries : d # <<c, m>> => pc'[d] = pc[d]
    BY <1>3, GoToMoves
  <2> QED
    BY <1>3, <1>k, <2>1 DEF WiringKept
<1>4. ASSUME NEW c \in Consumers, UNCHANGED <<pc, results>>, Running(c) = {},
             \A e \in Consumers : e # c => subs'[e] = subs[e]
      PROVE  WiringKept'
  <2>1. \A m \in Messages : pc[<<c, m>>] = "idle"
    BY <1>4 DEF Running, Active
  <2> QED
    BY <1>4, <2>1 DEF WiringKept
<1>5. ASSUME NEW c \in Consumers, NEW D, Forget(D), Running(c) \subseteq D,
             \A e \in Consumers : e # c => subs'[e] = subs[e]
      PROVE  WiringKept'
  <2>1. \A d \in Deliveries : pc'[d] = "gather" => pc[d] = "gather" /\ d \notin D /\ results'[d] = results[d]
    BY <1>5 DEF Forget
  <2>2. \A m \in Messages : pc[<<c, m>>] = "gather" => <<c, m>> \in D
    BY <1>5 DEF Running, Active
  <2> QED
    BY <1>5, <1>k, <2>1, <2>2 DEF WiringKept
<1>p. /\ {"idle", "claim", "receive", "gather", "release", "notify"} \subseteq Points
      /\ {"ack", "retry", "dlq", "except", "raised"} \subseteq Points
  BY DEF Points
<1>6. ASSUME NEW c \in Consumers, NEW m \in Messages, Step(c, m)
      PROVE  WiringKept'
  <2>1. CASE ClaimKey(c, m) \/ ReleaseClaim(c, m) \/ ReleaseAndRaise(c, m)
    BY <2>1, <1>p, <1>3 DEF ClaimKey, ReleaseClaim, ReleaseAndRaise
  <2>2. CASE Receive(c, m)
    <3>1. CASE subs[c] = {}
      BY <2>2, <3>1, <1>p, <1>3 DEF Receive
    <3>2. CASE subs[c] # {}
      <4>1. /\ GoTo(c, m, "gather") /\ UNCHANGED subs
            /\ results' = [results EXCEPT ![<<c, m>>] = [s \in subs[c] |-> "running"]]
        BY <2>2, <3>2 DEF Receive
      <4>2. DOMAIN results'[<<c, m>>] = subs[c]
        BY <4>1, <1>k DEF DispatchTypeOK
      <4>3. \A d \in Deliveries : d # <<c, m>> => results'[d] = results[d]
        BY <4>1 DEF DispatchTypeOK
      <4>4. \A d \in Deliveries : d # <<c, m>> => pc'[d] = pc[d]
        BY <4>1, <1>p, GoToMoves
      <4> QED
        BY <4>1, <4>2, <4>3, <4>4, <1>k DEF WiringKept
    <3> QED
      BY <3>1, <3>2
  <2>3. CASE \E s \in Subscribers, r \in Results : SubscriberDone(c, m, s, r)
    <3>1. UNCHANGED <<pc, subs>>
      BY <2>3 DEF SubscriberDone
    <3>2. \A d \in Deliveries : DOMAIN results'[d] = DOMAIN results[d]
      BY <2>3 DEF SubscriberDone, DispatchTypeOK
    <3> QED
      BY <3>1, <3>2, <1>k DEF WiringKept
  <2>4. CASE Gathered(c, m)
    BY <2>4, <1>p, <1>3 DEF Gathered
  <2>5. CASE Notify(c, m)
    <3>1. VerbOf(outcome[<<c, m>>]) \in {"ack", "retry", "dlq"}
      BY DEF VerbOf
    <3> QED
      BY <2>5, <3>1, <1>p, <1>3 DEF Notify
  <2>6. CASE VerbReturns(c, m)
    BY <2>6, <1>2 DEF VerbReturns
  <2> QED
    BY <1>6, <2>1, <2>2, <2>3, <2>4, <2>5, <2>6
    DEF Step, Tame, Calm, ClaimRaises, ReleaseRaises, VerbRaisesError
<1>7. ASSUME NEW c \in Consumers, NEW B \in SUBSET Messages, Begin(c, B)
      PROVE  WiringKept'
  <2>1. \A d \in Deliveries : pc'[d] = "gather" => pc[d] = "gather"
    BY <1>7 DEF Begin
  <2> QED
    BY <1>7, <1>k, <2>1 DEF Begin, WiringKept
<1>8. ASSUME NEW c \in Consumers, NEW s \in Subscribers, Subscribe(c, s) \/ Unsubscribe(c, s)
      PROVE  WiringKept'
  <2>1. \A e \in Consumers : e # c => subs'[e] = subs[e]
    BY <1>8 DEF Subscribe, Unsubscribe, DispatchTypeOK
  <2> QED
    BY <1>8, <2>1, <1>4 DEF Subscribe, Unsubscribe, Tame
<1>9. ASSUME NEW c \in Consumers, NEW D \in SUBSET Running(c), Abandon(c, D)
      PROVE  WiringKept'
  BY <1>9, <1>2 DEF Abandon
<1>10. ASSUME NEW c \in Consumers, NEW D \in SUBSET Running(c), Halt(c, D)
       PROVE  WiringKept'
  <2>1. \A e \in Consumers : e # c => subs'[e] = subs[e]
    BY <1>10 DEF Halt, DispatchTypeOK
  <2> QED
    BY <1>10, <2>1, <1>5 DEF Halt, Tame
<1>11. ASSUME NEW c \in Consumers, Die(c)
       PROVE  WiringKept'
  <2>1. \A e \in Consumers : e # c => subs'[e] = subs[e]
    BY <1>11 DEF Die, DispatchTypeOK
  <2>2. Running(c) \subseteq {c} \X Messages
    BY DEF Running
  <2> QED
    BY <1>11, <2>1, <2>2, <1>5 DEF Die
<1>12. ASSUME UNCHANGED dispatchVars
       PROVE  WiringKept'
  BY <1>12, <1>1 DEF dispatchVars
<1> QED
  BY <1>6, <1>7, <1>8, <1>9, <1>10, <1>11, <1>12 DEF DispatchNext

(* The key of a processed message stays claimed, past any release.             *)
LEMMA ProcessedStep ==
  ASSUME Steady, IInv, WiringKept, ProcessedKept, [DispatchNext]_dispatchVars
  PROVE  ProcessedKept'
<1>k. \A c \in Consumers, m \in Messages :
        /\ <<c, m>> \in Deliveries
        /\ Claim(c, m) = <<"redis", KeyOf[m]>>
        /\ HasKey(m)' = HasKey(m)
  BY DEF Deliveries, Claim, StoreOf, HasKey, Steady, Tame
<1>i. DispatchTypeOK /\ OwnersClaim /\ OutcomePending /\ KeyedPoints /\ OneOwner /\ processed \subseteq Messages
  BY DEF IInv, DispatchTypeOK
(* Enough for most steps: no claim is dropped, nothing newly processed, and    *)
(* an owner of a processed key was and stays past its release.                 *)
<1>1. ASSUME UNCHANGED processed, claims \subseteq claims',
             \A c \in Consumers, m \in Messages :
               Owns(c, m)' /\ pc'[<<c, m>>] \notin {"notify", "ack"}
                 => \/ Owns(c, m) /\ pc[<<c, m>>] \notin {"notify", "ack"}
                    \/ Claim(c, m) \notin claims
      PROVE  ProcessedKept'
  BY <1>1, <1>k, <1>i DEF ProcessedKept, HasKey
<1>2. ASSUME NEW D, Forget(D), UNCHANGED processed, claims \subseteq claims'
      PROVE  ProcessedKept'
  BY <1>2, <1>1, <1>i, <1>k, ForgetResets DEF Owns
<1>3. ASSUME NEW c \in Consumers, NEW m \in Messages, NEW p \in Points, GoTo(c, m, p),
             claims \subseteq claims', UNCHANGED processed,
             \A d \in Deliveries : d # <<c, m>> => outcome'[d] = outcome[d],
             \/ p \in {"notify", "ack"} \/ ~ Owns(c, m)'
             \/ Owns(c, m) /\ pc[<<c, m>>] \notin {"notify", "ack"}
             \/ Claim(c, m) \notin claims
      PROVE  ProcessedKept'
  BY <1>3, <1>1, <1>i, <1>k, GoToMoves DEF Owns
<1>p. /\ {"idle", "claim", "receive", "gather", "release", "notify"} \subseteq Points
      /\ {"ack", "retry", "dlq", "except", "raised"} \subseteq Points
  BY DEF Points
<1>4. ASSUME NEW c \in Consumers, NEW m \in Messages, NEW p \in Points, GoTo(c, m, p),
             pc[<<c, m>>] \in {"release", "except"}, ~ Owns(c, m)', UNCHANGED <<outcome, processed>>,
             Owns(c, m), claims' = claims \ {Claim(c, m)}
      PROVE  ProcessedKept'
  <2>1. \A n \in processed : HasKey(n) => KeyOf[n] # KeyOf[m]
    BY <1>4 DEF ProcessedKept
  <2>2. \A a \in Consumers, b \in Messages :
          Owns(a, b)' => Owns(a, b) /\ pc'[<<a, b>>] = pc[<<a, b>>]
    BY <1>4, <1>i, <1>k, GoToMoves DEF Owns
  <2> QED
    BY <1>4, <1>k, <1>i, <2>1, <2>2 DEF ProcessedKept, HasKey
<1>5. ASSUME NEW c \in Consumers, NEW m \in Messages, Step(c, m)
      PROVE  ProcessedKept'
  <2> DEFINE d == <<c, m>>
  <2>d. d \in Deliveries
    BY <1>k
  <2>0. \A o : /\ [outcome EXCEPT ![d] = o][d] = o
               /\ \A e \in Deliveries : e # d => [outcome EXCEPT ![d] = o][e] = outcome[e]
    BY <2>d, <1>i DEF DispatchTypeOK
  <2>1. CASE ClaimKey(c, m)
    <3>1. CASE Claim(c, m) \in claims
      <4>1. /\ GoTo(c, m, "ack") /\ UNCHANGED <<claims, processed>>
            /\ outcome' = [outcome EXCEPT ![d] = "duplicate"]
        BY <2>1, <3>1 DEF ClaimKey
      <4>2. \A e \in Deliveries : e # d => outcome'[e] = outcome[e]
        BY <4>1, <2>0
      <4> QED
        BY <4>1, <4>2, <1>p, <1>3
    <3>2. CASE Claim(c, m) \notin claims
      BY <2>1, <3>2, <1>p, <1>3 DEF ClaimKey
    <3> QED
      BY <3>1, <3>2
  <2>2. CASE Receive(c, m)
    <3>1. CASE subs[c] = {}
      <4>1. /\ GoTo(c, m, "ack") /\ UNCHANGED <<claims, processed>>
            /\ outcome' = [outcome EXCEPT ![d] = "unsubscribed"]
        BY <2>2, <3>1 DEF Receive
      <4>2. \A e \in Deliveries : e # d => outcome'[e] = outcome[e]
        BY <4>1, <2>0
      <4> QED
        BY <4>1, <4>2, <1>p, <1>3
    <3>2. CASE subs[c] # {}
      <4>1. Owns(c, m)' => Owns(c, m)
        BY <2>2, <1>k DEF Receive, Owns
      <4> QED
        BY <2>2, <3>2, <4>1, <1>p, <1>3 DEF Receive
    <3> QED
      BY <3>1, <3>2
  <2>3. CASE \E s \in Subscribers, r \in Results : SubscriberDone(c, m, s, r)
    BY <2>3, <1>1, <1>k DEF SubscriberDone, Owns
  <2>4. CASE Gathered(c, m) /\ Collected(c, m) # {"ok"}
    <3>1. UNCHANGED <<claims, processed>> /\ pc[d] = "gather" /\ (Owns(c, m)' => Owns(c, m))
      BY <2>4, <1>k DEF Gathered, Owns
    <3>2. /\ GoTo(c, m, "except") \/ GoTo(c, m, "release") \/ GoTo(c, m, "notify")
          /\ UNCHANGED outcome \/ outcome' = [outcome EXCEPT ![d] = Resolve(Collected(c, m))]
      BY <2>4 DEF Gathered
    <3>3. \A e \in Deliveries : e # d => outcome'[e] = outcome[e]
      BY <3>2, <2>0
    <3> QED
      BY <3>1, <3>2, <3>3, <1>p, <1>3
  <2>5. CASE Gathered(c, m) /\ Collected(c, m) = {"ok"}
    <3>1. pc[d] = "gather" /\ UNCHANGED claims /\ processed' = processed \union {m}
      BY <2>5 DEF Gathered
    <3>2. Cardinality(subs[c]) = Cardinality(DOMAIN results[d])
      BY <3>1 DEF WiringKept
    <3>3. Resolve(Collected(c, m)) = "success"
      BY <2>5 DEF Resolve
    <3>4. GoTo(c, m, "notify") /\ outcome' = [outcome EXCEPT ![d] = "success"]
      BY <2>5, <3>2, <3>3 DEF Gathered
    <3>5. HasKey(m) => Owns(c, m)
      BY <3>1 DEF Owns
    <3>6. \A a \in Consumers, b \in Messages :
            Owns(a, b)' => pc'[<<a, b>>] = "notify" \/ (Owns(a, b) /\ <<a, b>> # d /\ pc'[<<a, b>>] = pc[<<a, b>>])
      BY <3>4, <2>0, <1>k, <1>i, <1>p, GoToMoves DEF Owns
    <3>7. \A a \in Consumers, b \in Messages :
            HasKey(m) /\ Owns(a, b) /\ <<a, b>> # d => KeyOf[b] # KeyOf[m]
      BY <3>5, <1>k, <1>i DEF OneOwner
    <3>8. HasKey(m) => <<"redis", KeyOf[m]>> \in claims
      BY <3>5, <1>k, <1>i DEF OwnersClaim
    <3> QED
      BY <3>1, <3>6, <3>7, <3>8, <1>k, <1>i DEF ProcessedKept, HasKey
  <2>6. CASE ReleaseClaim(c, m)
    <3>1. /\ pc[d] = "release" /\ GoTo(c, m, "notify")
          /\ claims' = claims \ {Claim(c, m)} /\ UNCHANGED <<outcome, processed>>
      BY <2>6 DEF ReleaseClaim
    <3>2. Owns(c, m) /\ ~ Owns(c, m)'
      BY <3>1, <2>d, <1>k, <1>i, <1>p, GoToMoves DEF Owns, KeyedPoints, OutcomePending, None
    <3> QED
      BY <3>1, <3>2, <1>p, <1>4
  <2>7. CASE Notify(c, m)
    <3>1. VerbOf(outcome[d]) \in {"ack", "retry", "dlq"}
      BY DEF VerbOf
    <3>2. GoTo(c, m, VerbOf(outcome[d])) /\ UNCHANGED <<claims, outcome, processed>>
      BY <2>7 DEF Notify
    <3>3. VerbOf(outcome[d]) = "ack" \/ ~ Owns(c, m)'
      BY <3>1, <3>2, <1>i, <1>p, GoToMoves DEF Owns
    <3> QED
      BY <3>1, <3>2, <3>3, <1>p, <1>3
  <2>8. CASE VerbReturns(c, m)
    BY <2>8, <1>2 DEF VerbReturns
  <2>9. CASE ReleaseAndRaise(c, m)
    <3>1. pc[d] = "except" /\ GoTo(c, m, "raised") /\ UNCHANGED <<outcome, processed>>
      BY <2>9 DEF ReleaseAndRaise
    <3>2. ~ Owns(c, m)'
      BY <3>1, <1>p, <1>i, GoToMoves DEF Owns
    <3>3. CASE HasKey(m)
      <4>1. Owns(c, m)
        BY <3>1, <3>3, <2>d, <1>i DEF Owns, OutcomePending
      <4> QED
        BY <2>9, <3>1, <3>2, <3>3, <4>1, <1>p, <1>4 DEF ReleaseAndRaise
    <3>4. CASE ~ HasKey(m)
      BY <2>9, <3>1, <3>2, <3>4, <1>p, <1>3 DEF ReleaseAndRaise
    <3> QED
      BY <3>3, <3>4
  <2> QED
    BY <1>5, <2>1, <2>2, <2>3, <2>4, <2>5, <2>6, <2>7, <2>8, <2>9
    DEF Step, Steady, Tame, Calm, ClaimRaises, ReleaseRaises, VerbRaisesError
<1>6. ASSUME NEW c \in Consumers, NEW B \in SUBSET Messages, Begin(c, B)
      PROVE  ProcessedKept'
  <2>1. \A a \in Consumers, b \in Messages :
          Owns(a, b)' => Owns(a, b) /\ pc'[<<a, b>>] = pc[<<a, b>>]
    BY <1>6, <1>k DEF Begin, Owns
  <2> QED
    BY <1>6, <2>1, <1>1 DEF Begin
<1>7. ASSUME NEW c \in Consumers, NEW s \in Subscribers, Subscribe(c, s) \/ Unsubscribe(c, s)
      PROVE  ProcessedKept'
  BY <1>7, <1>1, <1>k DEF Subscribe, Unsubscribe, Owns
<1>8. ASSUME NEW c \in Consumers, NEW D \in SUBSET Running(c), Abandon(c, D) \/ Halt(c, D)
      PROVE  ProcessedKept'
  BY <1>8, <1>2 DEF Abandon, Halt
<1>9. ASSUME NEW c \in Consumers, Die(c)
      PROVE  ProcessedKept'
  BY <1>9, <1>2 DEF Die, Steady, Tame
<1>10. ASSUME UNCHANGED dispatchVars
       PROVE  ProcessedKept'
  BY <1>10, <1>1, <1>k DEF dispatchVars, Owns
<1> QED
  BY <1>5, <1>6, <1>7, <1>8, <1>9, <1>10 DEF DispatchNext

(* Effectively once: a keyed message that all subscribers have handled is not  *)
(* handed to them again by any consumer on the store, through any stop, crash  *)
(* and redelivery.                                                             *)
THEOREM ProcessedNotRerunHolds == ASSUME Steady PROVE DispatchSpec => ProcessedNotRerun
<1> DEFINE PInv == IInv /\ WiringKept /\ ProcessedKept
           Once == \A c \in Consumers, m \in Messages :
                     pc[<<c, m>>] = "receive" /\ pc'[<<c, m>>] = "gather" /\ HasKey(m)
                       => m \notin processed
<1>c. Calm
  BY DEF Steady, Tame
<1>t. Tame
  BY DEF Steady
<1>1. DispatchInit => PInv
  BY <1>c, Inductive DEF DispatchInit, WiringKept, ProcessedKept, Deliveries
<1>2. PInv /\ [DispatchNext]_dispatchVars => PInv'
  BY <1>c, <1>t, Inductive, WiringStep, ProcessedStep DEF IInv
<1>3. PInv /\ [DispatchNext]_dispatchVars => [Once]_dispatchVars
  BY DEF ProcessedKept, Owns, OutcomePending, IInv
<1> QED
  BY <1>1, <1>2, <1>3, PTL DEF DispatchSpec, ProcessedNotRerun
================================================================================
