-------------------------- MODULE SqsConsumer_proofs --------------------------
(* The SQS consumer runs its deliveries as module Dispatch says: every step    *)
(* of the poll loop, the verbs, stop() and a crash is a step of the lifecycle  *)
(* or leaves it alone.  What is proved of the lifecycle holds of the consumer. *)
EXTENDS SqsConsumer, Dispatch_proofs

LEMMA ConsumerStep ==
  ASSUME NEW c \in Consumers, ConsumerNext(c)
  PROVE  [DispatchNext]_dispatchVars
<1>1. CASE Start(c) \/ PollFails(c) \/ PollCrashes(c) \/ BatchDone(c)
  BY <1>1 DEF Start, PollFails, PollCrashes, BatchDone
<1>2. CASE Stop(c)
  BY <1>2 DEF Stop, DispatchNext
<1>3. CASE ProcessDies(c)
  BY <1>3 DEF ProcessDies, DispatchNext
<1>4. CASE ParseFails(c)
  BY <1>4 DEF ParseFails, GroupFails, DispatchNext
<1>5. ASSUME NEW B \in SUBSET Messages, ReceiveBatch(c, B)
      PROVE  [DispatchNext]_dispatchVars
  <2>1. B \ Unparsable \in SUBSET Messages
    OBVIOUS
  <2> QED
    BY <1>5, <2>1 DEF ReceiveBatch, DispatchNext
<1>6. ASSUME NEW s \in Subscribers, Wire(c, s) \/ Unwire(c, s)
      PROVE  [DispatchNext]_dispatchVars
  BY <1>6 DEF Wire, Unwire, DispatchNext
<1>7. ASSUME NEW m \in Messages,
             \/ Advance(c, m) \/ Ack(c, m) \/ Retry(c, m) \/ SendToDlq(c, m)
             \/ FinishDlq(c, m) \/ VerbFails(c, m) \/ TaskFails(c, m)
      PROVE  [DispatchNext]_dispatchVars
  <2>1. CASE Advance(c, m)
    BY <2>1 DEF Advance, Step, DispatchNext
  <2>2. CASE Ack(c, m) \/ Retry(c, m) \/ FinishDlq(c, m)
    <3>1. VerbReturns(c, m)
      BY <2>2 DEF Ack, Retry, FinishDlq, Settled
    <3> QED
      BY <3>1 DEF Step, DispatchNext
  <2>3. CASE SendToDlq(c, m)
    BY <2>3 DEF SendToDlq
  <2>4. CASE VerbFails(c, m)
    BY <2>4 DEF VerbFails, Step, DispatchNext
  <2>5. CASE TaskFails(c, m)
    BY <2>5 DEF TaskFails, GroupFails, DispatchNext
  <2> QED
    BY <1>7, <2>1, <2>2, <2>3, <2>4, <2>5
<1> QED
  BY <1>1, <1>2, <1>3, <1>4, <1>5, <1>6, <1>7 DEF ConsumerNext

LEMMA StepIsLifecycle == [Next]_vars => [DispatchNext]_dispatchVars
<1>1. ASSUME NEW m \in Messages, VisibilityExpires(m)
      PROVE  [DispatchNext]_dispatchVars
  BY <1>1 DEF VisibilityExpires
<1>2. ASSUME UNCHANGED vars
      PROVE  [DispatchNext]_dispatchVars
  BY <1>2 DEF vars
<1> QED
  BY <1>1, <1>2, ConsumerStep DEF Next

(* The composition implements the lifecycle. *)
THEOREM ImplementsDispatch == Spec => DispatchSpec
<1>1. Init => DispatchInit
  BY DEF Init
<1> QED
  BY <1>1, StepIsLifecycle, PTL DEF Spec, DispatchSpec

(* Replicas that share a store never have two deliveries of a key past their   *)
(* claims at once, as long as AWS and Redis errors are the ones the code       *)
(* catches.                                                                    *)
THEOREM SqsOneOwner == ASSUME Calm PROVE Spec => []OneOwner
BY ImplementsDispatch, OneOwnerHolds

(* ... and never hand a processed message to the subscribers again.            *)
THEOREM SqsProcessedNotRerun == ASSUME Steady PROVE Spec => ProcessedNotRerun
BY ImplementsDispatch, ProcessedNotRerunHolds
--------------------------------------------------------------------------------
(* Types.  What the lifecycle keeps has its types from Dispatch_proofs.        *)
QueueTypeOK ==
  /\ visible \subseteq Messages /\ removed \subseteq Messages /\ deadQueue \subseteq Messages
  /\ latest \in [Messages -> Consumers \union {None}]

LoopTypeOK ==
  /\ running \in [Consumers -> BOOLEAN]
  /\ loop \in [Consumers -> {"off", "poll", "batch", "dead"}]
  /\ attempts \in [Consumers -> 1..MaxAttempts]
  /\ broken \in [Consumers -> SUBSET Unparsable]
  /\ diverting \subseteq Deliveries

LEMMA QueueTypes == ASSUME QueueTypeOK, [Next]_vars PROVE QueueTypeOK'
<1> USE DEF QueueTypeOK
<1>1. CASE UNCHANGED queueVars
  BY <1>1 DEF queueVars
<1>2. ASSUME NEW c \in Consumers, NEW m \in Messages,
             DeleteMessage(c, m) \/ MakeVisible(c, m) \/ UnchangedQueue, UNCHANGED <<deadQueue, latest>>
      PROVE  QueueTypeOK'
  BY <1>2 DEF DeleteMessage, MakeVisible, UnchangedQueue
<1>3. ASSUME NEW c \in Consumers, NEW m \in Messages,
             Ack(c, m) \/ Retry(c, m) \/ FinishDlq(c, m) \/ VerbFails(c, m) \/ TaskFails(c, m)
      PROVE  QueueTypeOK'
  BY <1>2, <1>3 DEF Ack, Retry, FinishDlq, VerbFails, TaskFails, GroupFails, Settled
<1>4. ASSUME NEW c \in Consumers, NEW m \in Messages, SendToDlq(c, m)
      PROVE  QueueTypeOK'
  BY <1>4 DEF SendToDlq
<1>5. ASSUME NEW c \in Consumers, ParseFails(c)
      PROVE  QueueTypeOK'
  BY <1>5 DEF ParseFails, UnchangedQueue, GroupFails
<1>6. ASSUME NEW c \in Consumers, NEW B \in SUBSET Messages, ReceiveBatch(c, B)
      PROVE  QueueTypeOK'
  BY <1>6 DEF ReceiveBatch
<1>7. ASSUME NEW m \in Messages, VisibilityExpires(m)
      PROVE  QueueTypeOK'
  BY <1>7 DEF VisibilityExpires
<1>8. ASSUME NEW c \in Consumers, NEW m \in Messages, Advance(c, m)
      PROVE  QueueTypeOK'
  BY <1>1, <1>8 DEF Advance, sqsVars
<1>9. ASSUME NEW c \in Consumers, NEW s \in Subscribers, Wire(c, s) \/ Unwire(c, s)
      PROVE  QueueTypeOK'
  BY <1>1, <1>9 DEF Wire, Unwire, sqsVars
<1>10. ASSUME NEW c \in Consumers,
              Start(c) \/ Stop(c) \/ ProcessDies(c) \/ PollFails(c) \/ PollCrashes(c) \/ BatchDone(c)
       PROVE  QueueTypeOK'
  BY <1>1, <1>10 DEF Start, Stop, ProcessDies, LoopEnds, PollFails, PollCrashes, BatchDone
<1> QED
  BY <1>1, <1>3, <1>4, <1>5, <1>6, <1>7, <1>8, <1>9, <1>10 DEF Next, ConsumerNext, vars, sqsVars

LEMMA LoopTypes == ASSUME LoopTypeOK, [Next]_vars PROVE LoopTypeOK'
<1> USE DEF LoopTypeOK, MaxAttempts
<1>1. CASE UNCHANGED loopVars
  BY <1>1 DEF loopVars
<1>2. ASSUME diverting' \subseteq diverting, UNCHANGED <<running, loop, attempts, broken>>
      PROVE  LoopTypeOK'
  BY <1>2
<1>3. ASSUME NEW c \in Consumers, NEW m \in Messages,
             Ack(c, m) \/ Retry(c, m) \/ FinishDlq(c, m) \/ VerbFails(c, m)
      PROVE  LoopTypeOK'
  BY <1>2, <1>3 DEF Ack, Retry, FinishDlq, VerbFails, Settled
<1>4. ASSUME NEW c \in Consumers, NEW m \in Messages, SendToDlq(c, m)
      PROVE  LoopTypeOK'
  BY <1>4 DEF SendToDlq, Deliveries
<1>5. ASSUME NEW c \in Consumers, GroupFails(c)
      PROVE  LoopTypeOK'
  BY <1>5 DEF GroupFails
<1>6. ASSUME NEW c \in Consumers, NEW B \in SUBSET Messages, ReceiveBatch(c, B)
      PROVE  LoopTypeOK'
  BY <1>6 DEF ReceiveBatch
<1>7. ASSUME NEW c \in Consumers, LoopEnds(c)
      PROVE  LoopTypeOK'
  BY <1>7 DEF LoopEnds
<1>8. ASSUME NEW c \in Consumers, NEW m \in Messages, Advance(c, m)
      PROVE  LoopTypeOK'
  BY <1>1, <1>8 DEF Advance, sqsVars
<1>9. ASSUME NEW c \in Consumers, NEW s \in Subscribers, Wire(c, s) \/ Unwire(c, s)
      PROVE  LoopTypeOK'
  BY <1>1, <1>9 DEF Wire, Unwire, sqsVars
<1>10. ASSUME NEW c \in Consumers, Start(c)
       PROVE  LoopTypeOK'
  BY <1>10 DEF Start
<1>11. ASSUME NEW c \in Consumers, PollFails(c) \/ PollCrashes(c)
       PROVE  LoopTypeOK'
  BY <1>11 DEF PollFails, PollCrashes
<1>12. ASSUME NEW c \in Consumers, BatchDone(c)
       PROVE  LoopTypeOK'
  BY <1>12 DEF BatchDone
<1>13. ASSUME NEW m \in Messages, VisibilityExpires(m)
       PROVE  LoopTypeOK'
  BY <1>1, <1>13 DEF VisibilityExpires
<1> QED
  BY <1>1, <1>3, <1>4, <1>5, <1>6, <1>7, <1>8, <1>9, <1>10, <1>11, <1>12, <1>13
     DEF Next, ConsumerNext, vars, sqsVars, Stop, ProcessDies, ParseFails, TaskFails

(* TypeOK of the consumer, without assumptions (sqs.py, pull.py): among others *)
(* the retry policy never counts beyond its attempts, and only deliveries are  *)
(* being diverted.                                                             *)
THEOREM SqsTypeCorrect == Spec => []TypeOK
<1>1. Spec => []DispatchTypeOK
  BY ImplementsDispatch, DispatchTypeCorrect
<1>2. Init => QueueTypeOK /\ LoopTypeOK
  BY DEF Init, QueueTypeOK, LoopTypeOK, MaxAttempts
<1>3. QueueTypeOK /\ LoopTypeOK /\ [Next]_vars => (QueueTypeOK /\ LoopTypeOK)'
  BY QueueTypes, LoopTypes
<1>4. DispatchTypeOK /\ QueueTypeOK /\ LoopTypeOK => TypeOK
  BY DEF TypeOK, QueueTypeOK, LoopTypeOK
<1> QED
  BY <1>1, <1>2, <1>3, <1>4, PTL DEF Spec
--------------------------------------------------------------------------------
(* What the hooks are told of a message, and what is acked, has been earned,   *)
(* whatever AWS, the store, stop(), a crash or a poison sibling does to the    *)
(* deliveries: the inductive invariant says which of them may come to a delete.*)
(* One that every subscriber handled is acked, or a duplicate of its key; one  *)
(* whose copy is in the dead-letter queue is being diverted.                   *)

(* The application wires its subscribers before start(), and none of them ends *)
(* in CancelledError.                                                          *)
Wired == ~ StartUnwired /\ Subscribers # {} /\ Results \subseteq {"ok", "retry", "error"}

Kept(c, m) ==
  /\ pc[<<c, m>>] \in {"claim", "release"} => HasKey(m)
  /\ pc[<<c, m>>] = "gather" => DOMAIN results[<<c, m>>] # {}
  /\ pc[<<c, m>>] = "release" => outcome[<<c, m>>] \in {"retry", "failure"}
  /\ pc[<<c, m>>] = "notify" => outcome[<<c, m>>] \in {"retry", "failure"} \/ m \in processed
  /\ pc[<<c, m>>] = "ack" => m \in processed \/ (HasKey(m) /\ outcome[<<c, m>>] = "duplicate")

PointsEarned == \A c \in Consumers, m \in Messages : Kept(c, m)

(* A running consumer has subscribers, and only a running one has deliveries.  *)
RunsWired ==
  /\ running \in [Consumers -> BOOLEAN]
  /\ \A c \in Consumers : running[c] => subs[c] # {}
  /\ \A c \in Consumers, m \in Messages : Active(c, m) => running[c]

DivertedKept == \A c \in Consumers, m \in Messages : <<c, m>> \in diverting => m \in deadQueue

EarnedInv == PointsEarned /\ RunsWired /\ DivertedKept

(* What every step of the lifecycle but a few does to a delivery: it leaves it *)
(* alone or takes it to a point from which nothing is removed.                 *)
LEMMA KeptStays ==
  ASSUME NEW c \in Consumers, NEW m \in Messages, Kept(c, m), processed \subseteq processed',
         \/ pc'[<<c, m>>] \in {"idle", "receive", "retry", "dlq", "except", "raised"}
         \/ /\ pc'[<<c, m>>] = pc[<<c, m>>] /\ results'[<<c, m>>] = results[<<c, m>>]
            /\ outcome'[<<c, m>>] = outcome[<<c, m>>]
  PROVE  Kept(c, m)'
BY DEF Kept, HasKey

(* A step of one delivery. *)
LEMMA OthersStay ==
  ASSUME PointsEarned, processed \subseteq processed',
         NEW c \in Consumers, NEW m \in Messages, Kept(c, m)',
         \A d \in Deliveries \ {<<c, m>>} :
           pc'[d] = pc[d] /\ results'[d] = results[d] /\ outcome'[d] = outcome[d]
  PROVE  PointsEarned'
<1> SUFFICES ASSUME NEW b \in Consumers, NEW n \in Messages
             PROVE  Kept(b, n)'
  BY DEF PointsEarned
<1>1. CASE <<b, n>> = <<c, m>>
  BY <1>1
<1>2. CASE <<b, n>> # <<c, m>>
  <2>1. Kept(b, n) /\ <<b, n>> \in Deliveries
    BY DEF PointsEarned, Deliveries
  <2> QED
    BY <1>2, <2>1, KeptStays
<1> QED
  BY <1>1, <1>2

(* Deliveries that are forgotten keep the others. *)
LEMMA ForgottenStay ==
  ASSUME DispatchTypeOK, PointsEarned, NEW D, Forget(D), processed' = processed
  PROVE  /\ PointsEarned'
         /\ \A c \in Consumers, m \in Messages : Active(c, m)' => Active(c, m) /\ <<c, m>> \notin D
<1> SUFFICES ASSUME NEW c \in Consumers, NEW m \in Messages
             PROVE  Kept(c, m)' /\ (Active(c, m)' => Active(c, m) /\ <<c, m>> \notin D)
  BY DEF PointsEarned
<1>1. Kept(c, m) /\ <<c, m>> \in Deliveries
  BY DEF PointsEarned, Deliveries
<1>2. CASE <<c, m>> \in D
  BY <1>1, <1>2, KeptStays, ForgetResets DEF Active
<1>3. CASE <<c, m>> \notin D
  BY <1>1, <1>3, KeptStays DEF Forget, Active
<1> QED
  BY <1>2, <1>3

(* Only when every subscriber has handled the message is the outcome success.  *)
LEMMA SuccessIsProcessed ==
  ASSUME Wired, DispatchTypeOK, NEW c \in Consumers, NEW m \in Messages,
         DOMAIN results[<<c, m>>] # {}, "running" \notin Collected(c, m),
         Resolve(Collected(c, m)) = "success"
  PROVE  Collected(c, m) = {"ok"}
<1>1. <<c, m>> \in Deliveries
  BY DEF Deliveries
<1>2. Collected(c, m) \subseteq Results \union {"running"} /\ Collected(c, m) # {}
  BY <1>1 DEF DispatchTypeOK, PartialResults, Collected
<1>3. "retry" \notin Collected(c, m) /\ "error" \notin Collected(c, m)
  BY DEF Resolve
<1> QED
  BY <1>2, <1>3 DEF Wired

LEMMA GatheredKeeps ==
  ASSUME Wired, DispatchTypeOK, PointsEarned,
         NEW c \in Consumers, NEW m \in Messages, Gathered(c, m)
  PROVE  Kept(c, m)'
<1> DEFINE d == <<c, m>>
           o == Resolve(Collected(c, m))
<1>1. d \in Deliveries /\ DOMAIN results[d] # {} /\ "running" \notin Collected(c, m)
  BY DEF Deliveries, PointsEarned, Kept, Gathered
<1>2. CASE pc'[d] = "except"
  BY <1>2 DEF Kept
<1>3. CASE (pc'[d] = "notify" \/ (pc'[d] = "release" /\ HasKey(m) /\ o # "success")) /\ outcome'[d] = o
  <2>1. o \in {"retry", "failure", "success"}
    BY DEF Resolve
  <2>2. o = "success" => m \in processed'
    BY <1>1, SuccessIsProcessed DEF Gathered
  <2> QED
    BY <1>3, <2>1, <2>2 DEF Kept, HasKey
<1> QED
  BY <1>1, <1>2, <1>3 DEF Gathered, GoTo, DispatchTypeOK, Deliveries

(* The steps of _dispatch, short of its verb. *)
LEMMA AdvanceKeeps ==
  ASSUME Wired, DispatchTypeOK, EarnedInv,
         NEW c \in Consumers, NEW m \in Messages, Advance(c, m)
  PROVE  EarnedInv'
<1> DEFINE d == <<c, m>>
<1>1. d \in Deliveries /\ Kept(c, m)
  BY DEF Deliveries, EarnedInv, PointsEarned
<1>2. /\ processed \subseteq processed' /\ subs' = subs
      /\ pc[d] # "idle"
      /\ \A e \in Deliveries \ {d} :
           pc'[e] = pc[e] /\ results'[e] = results[e] /\ outcome'[e] = outcome[e]
  BY <1>1 DEF Advance, ClaimKey, ClaimRaises, Receive, SubscriberDone, Gathered, ReleaseClaim,
              ReleaseRaises, Notify, ReleaseAndRaise, GoTo, DispatchTypeOK
<1>3. Kept(c, m)'
  <2>1. CASE ClaimKey(c, m) \/ ClaimRaises(c, m)
    BY <1>1, <2>1 DEF ClaimKey, ClaimRaises, Kept, HasKey, GoTo, DispatchTypeOK
  <2>2. CASE Receive(c, m)
    <3>1. subs[c] # {}
      BY <1>2 DEF EarnedInv, RunsWired, Active
    <3>2. pc'[d] = "gather" /\ DOMAIN results'[d] = subs[c]
      BY <1>1, <2>2, <3>1 DEF Receive, GoTo, DispatchTypeOK
    <3> QED
      BY <3>1, <3>2 DEF Kept
  <2>3. ASSUME NEW s \in Subscribers, NEW r \in Results, SubscriberDone(c, m, s, r)
        PROVE  Kept(c, m)'
    <3>1. pc'[d] = "gather" /\ DOMAIN results'[d] = DOMAIN results[d] /\ pc[d] = "gather"
      BY <1>1, <2>3 DEF SubscriberDone, DispatchTypeOK
    <3> QED
      BY <1>1, <3>1 DEF Kept, HasKey
  <2>4. CASE Gathered(c, m)
    BY <2>4, GatheredKeeps DEF EarnedInv
  <2>5. CASE Notify(c, m)
    <3>1. pc[d] = "notify" /\ pc'[d] = VerbOf(outcome[d]) /\ processed' = processed
      BY <1>1, <2>5 DEF Notify, GoTo, DispatchTypeOK
    <3>2. outcome[d] \in {"retry", "failure"} => VerbOf(outcome[d]) \in {"retry", "dlq"}
      BY DEF VerbOf
    <3>3. VerbOf(outcome[d]) \in {"retry", "dlq", "ack"}
      BY DEF VerbOf
    <3> QED
      BY <1>1, <3>1, <3>2, <3>3 DEF Kept, HasKey
  <2>6. CASE ReleaseClaim(c, m)
    BY <1>1, <2>6 DEF ReleaseClaim, Kept, HasKey, GoTo, DispatchTypeOK
  <2>7. CASE ReleaseRaises(c, m) \/ ReleaseAndRaise(c, m)
    <3>1. pc'[d] \in {"except", "raised"}
      BY <1>1, <2>7 DEF ReleaseRaises, ReleaseAndRaise, GoTo, DispatchTypeOK
    <3> QED
      BY <3>1 DEF Kept
  <2> QED
    BY <2>1, <2>2, <2>3, <2>4, <2>5, <2>6, <2>7 DEF Advance
<1>4. PointsEarned'
  BY <1>2, <1>3, OthersStay DEF EarnedInv
<1>5. \A b \in Consumers, n \in Messages : Active(b, n)' => Active(b, n)
  BY <1>2 DEF Active, Deliveries
<1> QED
  BY <1>2, <1>4, <1>5 DEF EarnedInv, RunsWired, DivertedKept, Advance, sqsVars, queueVars, loopVars

LEMMA EarnedInit == Init => EarnedInv
BY DEF Init, DispatchInit, EarnedInv, PointsEarned, Kept, RunsWired, DivertedKept, Active, Deliveries

(* Deliveries end, and with them their diversions; nobody starts or stops.     *)
LEMMA EndsKeep ==
  ASSUME DispatchTypeOK, EarnedInv, NEW D, Forget(D), diverting' \subseteq diverting,
         UNCHANGED <<subs, processed, deadQueue, running>>
  PROVE  EarnedInv'
<1>1. PointsEarned' /\ \A c \in Consumers, m \in Messages : Active(c, m)' => Active(c, m)
  BY ForgottenStay DEF EarnedInv
<1> QED
  BY <1>1 DEF EarnedInv, RunsWired, DivertedKept

(* stop() and the death of the process end all deliveries of the consumer.     *)
LEMMA HaltKeeps ==
  ASSUME DispatchTypeOK, EarnedInv, NEW c \in Consumers, NEW D, Running(c) \subseteq D, Forget(D),
         subs' = [subs EXCEPT ![c] = {}], processed' = processed, LoopEnds(c)
  PROVE  EarnedInv'
<1>1. /\ PointsEarned'
      /\ \A b \in Consumers, m \in Messages : Active(b, m)' => Active(b, m) /\ <<b, m>> \notin D
  BY ForgottenStay DEF EarnedInv
<1>2. \A m \in Messages : ~ Active(c, m)'
  BY <1>1 DEF Running
<1>3. /\ running' = [running EXCEPT ![c] = FALSE] /\ diverting' \subseteq diverting
      /\ deadQueue' = deadQueue
  BY DEF LoopEnds, queueVars
<1>4. RunsWired'
  BY <1>1, <1>2, <1>3 DEF EarnedInv, RunsWired, DispatchTypeOK
<1>5. DivertedKept'
  BY <1>3 DEF EarnedInv, DivertedKept
<1> QED
  BY <1>1, <1>4, <1>5 DEF EarnedInv

LEMMA ReceiveBatchKeeps ==
  ASSUME DispatchTypeOK, EarnedInv, NEW c \in Consumers, NEW B \in SUBSET Messages, ReceiveBatch(c, B)
  PROVE  EarnedInv'
<1>1. /\ Begin(c, B \ Unparsable) /\ running[c]
      /\ UNCHANGED <<subs, results, outcome, processed, deadQueue, running, diverting>>
  BY DEF ReceiveBatch, Begin
<1>2. ASSUME NEW b \in Consumers, NEW n \in Messages
      PROVE  Kept(b, n)' /\ (Active(b, n)' => Active(b, n) \/ b = c)
  <2>1. Kept(b, n) /\ <<b, n>> \in Deliveries
    BY DEF EarnedInv, PointsEarned, Deliveries
  <2>2. CASE b = c /\ n \in B \ Unparsable
    BY <1>1, <2>1, <2>2, KeptStays DEF Begin, Kept, HasKey
  <2>3. CASE ~ (b = c /\ n \in B \ Unparsable)
    <3>1. pc'[<<b, n>>] = pc[<<b, n>>]
      BY <1>1, <2>1, <2>3 DEF Begin
    <3> QED
      BY <1>1, <2>1, <3>1, KeptStays DEF Active
  <2> QED
    BY <2>2, <2>3
<1> QED
  BY <1>1, <1>2 DEF EarnedInv, PointsEarned, RunsWired, DivertedKept

(* What dispatch leaves to the transport: the verbs, and how errors end.       *)
LEMMA VerbKeeps ==
  ASSUME DispatchTypeOK, EarnedInv, NEW c \in Consumers, NEW m \in Messages,
         \/ Ack(c, m) \/ Retry(c, m) \/ SendToDlq(c, m)
         \/ FinishDlq(c, m) \/ VerbFails(c, m) \/ TaskFails(c, m)
  PROVE  EarnedInv'
<1> DEFINE d == <<c, m>>
<1>1. CASE Ack(c, m) \/ Retry(c, m) \/ FinishDlq(c, m)
  <2>1. Settled(c, m)
    BY <1>1 DEF Ack, Retry, FinishDlq
  <2> QED
    BY <2>1, EndsKeep DEF Settled, VerbReturns
<1>2. CASE SendToDlq(c, m)
  BY <1>2 DEF SendToDlq, dispatchVars, EarnedInv, PointsEarned, Kept, RunsWired, DivertedKept, Active
<1>3. CASE VerbFails(c, m)
  <2>1. /\ d \in Deliveries /\ pc[d] # "idle" /\ pc'[d] \in {"except", "raised"}
        /\ \A e \in Deliveries \ {d} : pc'[e] = pc[e]
        /\ UNCHANGED <<subs, results, outcome, processed, deadQueue, running>>
        /\ diverting' \subseteq diverting
    BY <1>3 DEF VerbFails, VerbRaisesError, AtVerb, GoTo, DispatchTypeOK, Deliveries
  <2>2. Kept(c, m)'
    BY <2>1 DEF Kept
  <2>3. PointsEarned'
    BY <2>1, <2>2, OthersStay DEF EarnedInv
  <2>4. \A b \in Consumers, n \in Messages : Active(b, n)' => Active(b, n)
    BY <2>1 DEF Active, Deliveries
  <2> QED
    BY <2>1, <2>3, <2>4 DEF EarnedInv, RunsWired, DivertedKept
<1>4. CASE TaskFails(c, m)
  BY <1>4, EndsKeep DEF TaskFails, GroupFails, Abandon
<1> QED
  BY <1>1, <1>2, <1>3, <1>4

LEMMA EarnedStep == Wired /\ DispatchTypeOK /\ EarnedInv /\ [Next]_vars => EarnedInv'
<1> SUFFICES ASSUME Wired, DispatchTypeOK, EarnedInv, [Next]_vars
             PROVE  EarnedInv'
  OBVIOUS
<1>1. CASE UNCHANGED <<dispatchVars, deadQueue, running, diverting>>
  BY <1>1 DEF dispatchVars, EarnedInv, PointsEarned, Kept, RunsWired, DivertedKept, Active
<1>2. CASE UNCHANGED vars \/ \E m \in Messages : VisibilityExpires(m)
  BY <1>1, <1>2 DEF vars, sqsVars, queueVars, loopVars, VisibilityExpires
<1>3. ASSUME NEW c \in Consumers, ConsumerNext(c)
      PROVE  EarnedInv'
  <2>1. CASE PollFails(c) \/ PollCrashes(c) \/ BatchDone(c)
    BY <1>1, <2>1 DEF PollFails, PollCrashes, BatchDone, queueVars
  <2>2. CASE Start(c)
    <3>1. subs[c] # {} /\ running' = [running EXCEPT ![c] = TRUE]
          /\ UNCHANGED <<dispatchVars, deadQueue, diverting>>
      BY <2>2 DEF Start, Wired, queueVars
    <3> QED
      BY <3>1 DEF dispatchVars, EarnedInv, PointsEarned, Kept, RunsWired, DivertedKept, Active
  <2>3. CASE Stop(c)
    BY <2>3, HaltKeeps DEF Stop, Halt
  <2>4. CASE ProcessDies(c)
    <3>1. Running(c) \subseteq {c} \X Messages
      BY DEF Running
    <3> QED
      BY <2>4, <3>1, HaltKeeps DEF ProcessDies, Die
  <2>5. CASE ParseFails(c)
    BY <2>5, EndsKeep DEF ParseFails, GroupFails, Abandon
  <2>6. ASSUME NEW B \in SUBSET Messages, ReceiveBatch(c, B)
        PROVE  EarnedInv'
    BY <2>6, ReceiveBatchKeeps
  <2>7. ASSUME NEW s \in Subscribers, Wire(c, s) \/ Unwire(c, s)
        PROVE  EarnedInv'
    <3>1. \A b \in Consumers : subs[b] # {} => subs'[b] # {}
      BY <2>7 DEF Wire, Unwire, Subscribe, Unsubscribe, DispatchTypeOK
    <3>2. UNCHANGED <<pc, results, outcome, processed, deadQueue, running, diverting>>
      BY <2>7 DEF Wire, Unwire, Subscribe, Unsubscribe, sqsVars, queueVars, loopVars
    <3> QED
      BY <3>1, <3>2 DEF EarnedInv, PointsEarned, Kept, RunsWired, DivertedKept, Active
  <2>8. ASSUME NEW m \in Messages, Advance(c, m)
        PROVE  EarnedInv'
    BY <2>8, AdvanceKeeps
  <2> QED
    BY <1>3, <2>1, <2>2, <2>3, <2>4, <2>5, <2>6, <2>7, <2>8, VerbKeeps DEF ConsumerNext
<1> QED
  BY <1>2, <1>3 DEF Next

(* Who deletes a message has handled it or diverted it. *)
LEMMA RemovalIsEarned ==
  ASSUME EarnedInv, [Next]_vars, NEW n \in removed' \ removed, ~ HasKey(n)
  PROVE  n \in processed \union deadQueue
<1>1. PICK c \in Consumers, m \in Messages :
        /\ DeleteMessage(c, m) /\ n \in removed'
        /\ \/ pc[<<c, m>>] = "ack"
           \/ <<c, m>> \in diverting
  <2>1. PICK c \in Consumers : ConsumerNext(c)
    BY DEF Next, vars, sqsVars, queueVars, VisibilityExpires
  <2>2. PICK m \in Messages : Ack(c, m) \/ FinishDlq(c, m) \/ VerbFails(c, m) \/ TaskFails(c, m)
    BY <2>1 DEF ConsumerNext, Start, Stop, ProcessDies, LoopEnds, PollFails, PollCrashes, BatchDone,
                ParseFails, UnchangedQueue, ReceiveBatch, Wire, Unwire, Advance, Retry, MakeVisible,
                SendToDlq, sqsVars, queueVars
  <2> QED
    BY <2>2 DEF Ack, FinishDlq, VerbFails, TaskFails, UnchangedQueue, MakeVisible
<1>2. n = m
  BY <1>1 DEF DeleteMessage
<1> QED
  BY <1>1, <1>2 DEF EarnedInv, PointsEarned, Kept, DivertedKept

(* KeylessKept (sqs.py:100-276): a message without a key leaves the queue only *)
(* when it was handled or a copy of it diverted, whatever raises, stops, dies  *)
(* or is cancelled, for any number of consumers, messages and subscribers.     *)
THEOREM KeylessKeptHolds == ASSUME Wired PROVE Spec => KeylessKept
<1>1. Spec => []DispatchTypeOK
  BY ImplementsDispatch, DispatchTypeCorrect
<1>2. DispatchTypeOK /\ EarnedInv /\ [Next]_vars => EarnedInv'
  BY EarnedStep
<1>3. EarnedInv /\ [Next]_vars =>
        [\A m \in removed' \ removed : ~ HasKey(m) => m \in processed \union deadQueue]_vars
  BY RemovalIsEarned
<1> QED
  BY <1>1, <1>2, <1>3, EarnedInit, PTL DEF Spec, KeylessKept
--------------------------------------------------------------------------------
(* No delivery outlives its batch: every one belongs to the task group of a    *)
(* batch its running consumer works on, and so does every diversion.           *)

BatchInv ==
  /\ running \in [Consumers -> BOOLEAN]
  /\ loop \in [Consumers -> {"off", "poll", "batch", "dead"}]
  /\ DOMAIN broken = Consumers
  /\ \A c \in Consumers : loop[c] = "batch" => running[c]
  /\ \A c \in Consumers : loop[c] # "batch" => broken[c] = {} /\ \A m \in Messages : ~ Active(c, m)
  /\ \A d \in diverting : d \in Deliveries /\ pc[d] # "idle"

LEMMA BatchInit == Init => BatchInv
BY DEF Init, DispatchInit, BatchInv, Active, Deliveries

(* A step of one delivery, which is under way and may end or begin to divert.  *)
LEMMA OneDeliveryStep ==
  ASSUME BatchInv, NEW c \in Consumers, NEW m \in Messages, Active(c, m),
         \A e \in Deliveries \ {<<c, m>>} : pc'[e] = pc[e],
         UNCHANGED <<running, loop, broken>>,
         diverting' \subseteq diverting \union {<<c, m>>},
         <<c, m>> \in diverting' => pc'[<<c, m>>] # "idle"
  PROVE  BatchInv'
<1>1. \A b \in Consumers, n \in Messages : Active(b, n)' => Active(b, n)
  BY DEF Active, Deliveries
<1>2. \A d \in diverting' : d \in Deliveries /\ pc'[d] # "idle"
  BY DEF BatchInv, Deliveries
<1> QED
  BY <1>1, <1>2 DEF BatchInv

(* The task group, or the process, is gone with all its deliveries. *)
LEMMA AllEnd ==
  ASSUME DispatchTypeOK, BatchInv, NEW c \in Consumers, NEW D \in SUBSET ({c} \X Messages),
         Running(c) \subseteq D, Forget(D), diverting' = diverting \ ({c} \X Messages),
         broken' = [broken EXCEPT ![c] = {}],
         NEW p \in {"off", "dead"}, loop' = [loop EXCEPT ![c] = p],
         NEW r \in BOOLEAN, running' = [running EXCEPT ![c] = r]
  PROVE  BatchInv'
<1>1. ASSUME NEW b \in Consumers, NEW n \in Messages
      PROVE  Active(b, n)' => Active(b, n) /\ b # c
  <2>1. <<b, n>> \in Deliveries
    BY DEF Deliveries
  <2>2. CASE <<b, n>> \in D
    BY <2>1, <2>2 DEF Forget, Active
  <2>3. CASE <<b, n>> \notin D
    BY <2>1, <2>3 DEF Forget, Active, Running
  <2> QED
    BY <2>2, <2>3
<1>2. ASSUME NEW d \in diverting'
      PROVE  d \in Deliveries /\ pc'[d] # "idle"
  <2>1. d \in Deliveries /\ pc[d] # "idle" /\ d \notin D
    BY DEF BatchInv
  <2> QED
    BY <2>1 DEF Forget
<1> QED
  BY <1>1, <1>2 DEF BatchInv

LEMMA BatchStep == DispatchTypeOK /\ BatchInv /\ [Next]_vars => BatchInv'
<1> SUFFICES ASSUME DispatchTypeOK, BatchInv, [Next]_vars
             PROVE  BatchInv'
  OBVIOUS
<1>1. CASE UNCHANGED <<pc, running, loop, broken, diverting>>
  BY <1>1 DEF BatchInv, Active
<1>2. CASE UNCHANGED vars \/ \E m \in Messages : VisibilityExpires(m)
  BY <1>1, <1>2 DEF vars, sqsVars, loopVars, dispatchVars, VisibilityExpires
<1>3. ASSUME NEW c \in Consumers, NEW m \in Messages, Advance(c, m)
      PROVE  BatchInv'
  <2>1. <<c, m>> \in Deliveries
    BY DEF Deliveries
  <2>2. /\ pc[<<c, m>>] # "idle" /\ pc'[<<c, m>>] # "idle"
        /\ \A e \in Deliveries \ {<<c, m>>} : pc'[e] = pc[e]
    <3>1. \A o \in Outcomes : VerbOf(o) # "idle"
      BY DEF VerbOf
    <3> QED
      BY <1>3, <2>1, <3>1 DEF Advance, ClaimKey, ClaimRaises, Receive, SubscriberDone, Gathered,
         ReleaseClaim, ReleaseRaises, Notify, ReleaseAndRaise, GoTo, DispatchTypeOK
  <2>3. UNCHANGED <<running, loop, broken, diverting>>
    BY <1>3 DEF Advance, sqsVars, loopVars
  <2> QED
    BY <2>2, <2>3, OneDeliveryStep DEF Active
<1>4. ASSUME NEW c \in Consumers, NEW m \in Messages,
             Ack(c, m) \/ Retry(c, m) \/ FinishDlq(c, m) \/ SendToDlq(c, m) \/ VerbFails(c, m)
      PROVE  BatchInv'
  <2>1. <<c, m>> \in Deliveries
    BY DEF Deliveries
  <2>2. /\ pc[<<c, m>>] # "idle"
        /\ \A e \in Deliveries \ {<<c, m>>} : pc'[e] = pc[e]
        /\ diverting' \subseteq diverting \union {<<c, m>>}
        /\ <<c, m>> \in diverting' => pc'[<<c, m>>] # "idle"
        /\ UNCHANGED <<running, loop, broken>>
    <3>1. CASE Ack(c, m) \/ Retry(c, m) \/ FinishDlq(c, m)
      BY <2>1, <3>1 DEF Ack, Retry, FinishDlq, Settled, VerbReturns, AtVerb, Forget
    <3>2. CASE SendToDlq(c, m)
      BY <3>2 DEF SendToDlq, dispatchVars
    <3>3. CASE VerbFails(c, m)
      BY <2>1, <3>3 DEF VerbFails, VerbRaisesError, AtVerb, GoTo, DispatchTypeOK
    <3> QED
      BY <1>4, <3>1, <3>2, <3>3
  <2> QED
    BY <2>2, OneDeliveryStep DEF Active
<1>5. ASSUME NEW c \in Consumers, GroupFails(c)
      PROVE  BatchInv'
  <2>1. running' = [running EXCEPT ![c] = running[c]] /\ running[c] \in BOOLEAN
    BY <1>5 DEF GroupFails, BatchInv
  <2>2. Running(c) \in SUBSET ({c} \X Messages)
    BY DEF Running
  <2> QED
    BY <1>5, <2>1, <2>2, AllEnd DEF GroupFails, Abandon
<1>6. ASSUME NEW c \in Consumers, Stop(c) \/ ProcessDies(c)
      PROVE  BatchInv'
  <2>1. Running(c) \in SUBSET ({c} \X Messages)
    BY DEF Running
  <2> QED
    BY <1>6, <2>1, AllEnd DEF Stop, Halt, ProcessDies, Die, LoopEnds
<1>7. ASSUME NEW c \in Consumers, NEW B \in SUBSET Messages, ReceiveBatch(c, B)
      PROVE  BatchInv'
  <2>1. /\ running[c] /\ loop[c] = "poll" /\ loop' = [loop EXCEPT ![c] = "batch"]
        /\ DOMAIN broken' = Consumers /\ \A b \in Consumers \ {c} : broken'[b] = broken[b]
        /\ UNCHANGED <<running, diverting>>
    BY <1>7 DEF ReceiveBatch, BatchInv
  <2>2. \A d \in Deliveries : /\ pc'[d] = "idle" => pc[d] = "idle"
                              /\ d[1] # c => pc'[d] = pc[d]
    BY <1>7 DEF ReceiveBatch, Begin, Deliveries
  <2>3. \A b \in Consumers \ {c}, n \in Messages : Active(b, n)' => Active(b, n)
    BY <2>2 DEF Active, Deliveries
  <2> QED
    BY <2>1, <2>2, <2>3 DEF BatchInv
<1>8. ASSUME NEW c \in Consumers, BatchDone(c)
      PROVE  BatchInv'
  BY <1>8 DEF BatchDone, dispatchVars, BatchInv, Running, Active
<1>9. ASSUME NEW c \in Consumers, Start(c) \/ PollFails(c) \/ PollCrashes(c)
      PROVE  BatchInv'
  <2>1. CASE Start(c)
    BY <1>9, <2>1 DEF Start, dispatchVars, BatchInv, Active
  <2>2. CASE PollFails(c) \/ PollCrashes(c)
    <3>1. /\ loop[c] = "poll" /\ (loop' = loop \/ loop' = [loop EXCEPT ![c] = "dead"])
          /\ UNCHANGED <<dispatchVars, running, broken, diverting>>
      BY <2>2 DEF PollFails, PollCrashes
    <3> QED
      BY <3>1 DEF dispatchVars, BatchInv, Active
  <2> QED
    BY <1>9, <2>1, <2>2
<1>10. ASSUME NEW c \in Consumers, NEW s \in Subscribers, Wire(c, s) \/ Unwire(c, s)
       PROVE  BatchInv'
  BY <1>1, <1>10 DEF Wire, Unwire, Subscribe, Unsubscribe, sqsVars, loopVars
<1> QED
  BY <1>2, <1>3, <1>4, <1>5, <1>6, <1>7, <1>8, <1>9, <1>10
     DEF Next, ConsumerNext, ParseFails, TaskFails

(* NoDeliveryOutlivesItsBatch (sqs.py:221-223, pull.py:122-135): whenever the  *)
(* loop is not at work on a batch, no delivery of its consumer is under way,   *)
(* whatever raised, was cancelled or stopped.                                  *)
THEOREM NoDeliveryOutlivesItsBatchHolds == Spec => []NoDeliveryOutlivesItsBatch
<1>1. Spec => []DispatchTypeOK
  BY ImplementsDispatch, DispatchTypeCorrect
<1>2. BatchInv => NoDeliveryOutlivesItsBatch
  BY DEF BatchInv, NoDeliveryOutlivesItsBatch, Running, Active
<1> QED
  BY <1>1, <1>2, BatchInit, BatchStep, PTL DEF Spec
--------------------------------------------------------------------------------
(* The loop outlives what its handlers and verbs do, when the verbs catch what *)
(* AWS raises, subscriptions are stable and every body can be parsed: then no  *)
(* delivery comes to its exception handler, and no task of the group raises.   *)
Tamed == Tame /\ Unparsable = {}

NeverRaises == \A d \in Deliveries : pc[d] \notin {"except", "raised"}

(* The retry policy's attempts are spent by failed polls only.                 *)
LoopInv ==
  /\ running \in [Consumers -> BOOLEAN]
  /\ loop \in [Consumers -> {"off", "poll", "batch", "dead"}]
  /\ attempts \in [Consumers -> 1..MaxAttempts]
  /\ broken = [c \in Consumers |-> {}]
  /\ OnlyPollingKillsLoop

TamedInv == WiringKept /\ NeverRaises /\ LoopInv

LEMMA TamedInit == Init => TamedInv
BY DEF Init, DispatchInit, TamedInv, WiringKept, NeverRaises, LoopInv, OnlyPollingKillsLoop,
       MaxAttempts, Deliveries

LEMMA AdvanceRaisesNothing ==
  ASSUME Tamed, DispatchTypeOK, WiringKept, NeverRaises,
         NEW c \in Consumers, NEW m \in Messages, Advance(c, m)
  PROVE  NeverRaises'
<1>1. <<c, m>> \in Deliveries
  BY DEF Deliveries
<1>2. \A o \in Outcomes : VerbOf(o) \notin {"except", "raised"}
  BY DEF VerbOf
<1>3. ~ ClaimRaises(c, m) /\ ~ ReleaseRaises(c, m) /\ ~ ReleaseAndRaise(c, m)
  BY <1>1 DEF Tamed, Tame, Calm, ClaimRaises, ReleaseRaises, ReleaseAndRaise, NeverRaises
<1>4. CASE Gathered(c, m)
  <2>1. DOMAIN results[<<c, m>>] = subs[c]
    BY <1>4 DEF Gathered, WiringKept
  <2>2. \E p \in {"release", "notify"} : GoTo(c, m, p)
    BY <1>4, <2>1 DEF Gathered
  <2> QED
    BY <1>1, <2>2 DEF GoTo, NeverRaises, DispatchTypeOK
<1>5. CASE ~ Gathered(c, m)
  BY <1>1, <1>2, <1>3, <1>5 DEF Advance, ClaimKey, Receive, SubscriberDone, ReleaseClaim, Notify,
     GoTo, NeverRaises, DispatchTypeOK
<1> QED
  BY <1>4, <1>5

LEMMA NothingRaises ==
  ASSUME Tamed, DispatchTypeOK, TamedInv, [Next]_vars
  PROVE  NeverRaises'
<1> USE DEF TamedInv
<1>1. CASE UNCHANGED pc
  BY <1>1 DEF NeverRaises
<1>2. ASSUME NEW D, Forget(D)
      PROVE  NeverRaises'
  BY <1>2 DEF Forget, NeverRaises
<1>3. ASSUME NEW c \in Consumers, NEW m \in Messages, Advance(c, m)
      PROVE  NeverRaises'
  BY <1>3, AdvanceRaisesNothing
<1>4. ASSUME NEW c \in Consumers, NEW B \in SUBSET Messages, ReceiveBatch(c, B)
      PROVE  NeverRaises'
  BY <1>4 DEF ReceiveBatch, Begin, NeverRaises
<1>5. ASSUME NEW c \in Consumers, NEW m \in Messages,
             Ack(c, m) \/ Retry(c, m) \/ FinishDlq(c, m) \/ TaskFails(c, m)
      PROVE  NeverRaises'
  BY <1>2, <1>5 DEF Ack, Retry, FinishDlq, Settled, VerbReturns, TaskFails, GroupFails, Abandon
<1>6. ASSUME NEW c \in Consumers, Stop(c) \/ ProcessDies(c) \/ ParseFails(c)
      PROVE  NeverRaises'
  BY <1>2, <1>6 DEF Stop, Halt, ProcessDies, Die, ParseFails, GroupFails, Abandon
<1>7. ASSUME NEW c \in Consumers, NEW m \in Messages, VerbFails(c, m)
      PROVE  NeverRaises'
  BY <1>7 DEF VerbFails, VerbRaisesError, Tamed, Tame, Calm
<1>8. CASE UNCHANGED vars \/ \E m \in Messages : VisibilityExpires(m)
  BY <1>1, <1>8 DEF vars, dispatchVars, VisibilityExpires
<1>9. ASSUME NEW c \in Consumers, Start(c) \/ PollFails(c) \/ PollCrashes(c) \/ BatchDone(c)
      PROVE  NeverRaises'
  BY <1>1, <1>9 DEF Start, PollFails, PollCrashes, BatchDone, dispatchVars
<1>10. ASSUME NEW c \in Consumers, NEW s \in Subscribers, Wire(c, s) \/ Unwire(c, s)
       PROVE  NeverRaises'
  BY <1>1, <1>10 DEF Wire, Unwire, Subscribe, Unsubscribe
<1>11. ASSUME NEW c \in Consumers, NEW m \in Messages, SendToDlq(c, m)
       PROVE  NeverRaises'
  BY <1>1, <1>11 DEF SendToDlq, dispatchVars
<1> QED
  BY <1>3, <1>4, <1>5, <1>6, <1>7, <1>8, <1>9, <1>10, <1>11 DEF Next, ConsumerNext

LEMMA LoopStep ==
  ASSUME Tamed, TamedInv, [Next]_vars
  PROVE  LoopInv'
<1> USE DEF TamedInv, LoopInv, OnlyPollingKillsLoop, MaxAttempts
<1>1. CASE UNCHANGED <<running, loop, attempts, broken>>
  BY <1>1
<1>2. CASE UNCHANGED vars \/ \E m \in Messages : VisibilityExpires(m)
  BY <1>1, <1>2 DEF vars, sqsVars, loopVars, VisibilityExpires
<1>3. ASSUME NEW c \in Consumers, NEW m \in Messages,
             \/ Advance(c, m) \/ Ack(c, m) \/ Retry(c, m) \/ SendToDlq(c, m)
             \/ FinishDlq(c, m) \/ VerbFails(c, m)
      PROVE  LoopInv'
  BY <1>1, <1>3 DEF Advance, Ack, Retry, SendToDlq, FinishDlq, VerbFails, Settled, sqsVars, loopVars
<1>4. ASSUME NEW c \in Consumers, NEW s \in Subscribers, Wire(c, s) \/ Unwire(c, s)
      PROVE  LoopInv'
  BY <1>1, <1>4 DEF Wire, Unwire, sqsVars, loopVars
<1>5. ASSUME NEW c \in Consumers
      PROVE  ~ ParseFails(c) /\ ~ PollCrashes(c) /\ \A m \in Messages : ~ TaskFails(c, m)
  BY <1>5 DEF ParseFails, PollCrashes, TaskFails, NeverRaises, Deliveries, Tamed, Tame, Calm
<1>6. ASSUME NEW c \in Consumers, Stop(c) \/ ProcessDies(c)
      PROVE  LoopInv'
  <2>1. /\ running' = [running EXCEPT ![c] = FALSE] /\ loop' = [loop EXCEPT ![c] = "off"]
        /\ broken' = [broken EXCEPT ![c] = {}] /\ attempts' = attempts
    BY <1>6 DEF Stop, ProcessDies, LoopEnds
  <2>2. running' \in [Consumers -> BOOLEAN] /\ loop' \in [Consumers -> {"off", "poll", "batch", "dead"}]
    BY <2>1
  <2>3. broken' = [b \in Consumers |-> {}]
    BY <2>1
  <2>4. OnlyPollingKillsLoop'
    BY <2>1
  <2> QED
    BY <2>1, <2>2, <2>3, <2>4
<1>7. ASSUME NEW c \in Consumers, Start(c)
      PROVE  LoopInv'
  BY <1>7 DEF Start
<1>8. ASSUME NEW c \in Consumers, PollFails(c)
      PROVE  LoopInv'
  BY <1>8 DEF PollFails
<1>9. ASSUME NEW c \in Consumers, BatchDone(c)
      PROVE  LoopInv'
  BY <1>9 DEF BatchDone
<1>10. ASSUME NEW c \in Consumers, NEW B \in SUBSET Messages, ReceiveBatch(c, B)
       PROVE  LoopInv'
  BY <1>10 DEF ReceiveBatch, Tamed
<1> QED
  BY <1>2, <1>3, <1>4, <1>5, <1>6, <1>7, <1>8, <1>9, <1>10 DEF Next, ConsumerNext

(* OnlyPollingKillsLoop (sqs.py:182-231, 267-276): the loop of a running       *)
(* consumer ends only when the polls have used up the attempts of its retry    *)
(* policy, for any number of messages, batches, failures and restarts.         *)
THEOREM OnlyPollingKillsLoopHolds == ASSUME Tamed PROVE Spec => []OnlyPollingKillsLoop
<1>1. Spec => []DispatchTypeOK
  BY ImplementsDispatch, DispatchTypeCorrect
<1>2. [Next]_vars => [DispatchNext]_dispatchVars
  BY StepIsLifecycle
<1>3. DispatchTypeOK /\ TamedInv /\ [Next]_vars => TamedInv'
  BY <1>2, WiringStep, NothingRaises, LoopStep DEF TamedInv, Tamed
<1>4. TamedInv => OnlyPollingKillsLoop
  BY DEF TamedInv, LoopInv
<1> QED
  BY <1>1, <1>3, <1>4, TamedInit, PTL DEF Spec
--------------------------------------------------------------------------------
(* The hooks tell the truth.  Completion is told from notify on, which a       *)
(* delivery reaches with a success only when the message has been processed.   *)
LEMMA CompletionIsEarned ==
  ASSUME DispatchTypeOK, EarnedInv, [Next]_vars, NEW c \in Consumers, NEW m \in Messages,
         pc[<<c, m>>] = "notify", pc'[<<c, m>>] = "ack"
  PROVE  m \in processed
<1> DEFINE d == <<c, m>>
<1>1. d \in Deliveries /\ pc[d] # pc'[d] /\ pc'[d] # "idle"
  BY DEF Deliveries
<1>2. ASSUME NEW D, Forget(D)
      PROVE  FALSE
  BY <1>1, <1>2 DEF Forget
<1>3. ASSUME NEW b \in Consumers, NEW B \in SUBSET Messages, Begin(b, B)
      PROVE  FALSE
  BY <1>1, <1>3 DEF Begin
<1>4. ASSUME NEW b \in Consumers, NEW n \in Messages, Step(b, n)
      PROVE  Notify(c, m)
  <2>1. <<b, n>> = d
    BY <1>1, <1>2, <1>4 DEF Step, ClaimKey, ClaimRaises, Receive, SubscriberDone, Gathered,
       ReleaseClaim, ReleaseRaises, Notify, VerbReturns, VerbRaisesError, ReleaseAndRaise, GoTo,
       DispatchTypeOK
  <2> QED
    BY <1>2, <1>4, <2>1 DEF Step, ClaimKey, ClaimRaises, Receive, SubscriberDone, Gathered,
       ReleaseClaim, ReleaseRaises, VerbReturns, VerbRaisesError, ReleaseAndRaise, AtVerb
<1>5. Notify(c, m)
  BY <1>1, <1>2, <1>3, <1>4, StepIsLifecycle
     DEF DispatchNext, dispatchVars, Subscribe, Unsubscribe, Abandon, Halt, Die
<1>6. VerbOf(outcome[d]) = "ack"
  BY <1>1, <1>5 DEF Notify, GoTo, DispatchTypeOK
<1> QED
  BY <1>6 DEF VerbOf, EarnedInv, PointsEarned, Kept

(* A copy is sent by dlq(), which nothing but a failed outcome calls when no   *)
(* task raises.                                                                *)
LEMMA DiversionIsReported ==
  ASSUME NeverRaises, [Next]_vars, NEW m \in deadQueue' \ deadQueue
  PROVE  \E c \in Consumers : <<c, m>> \in diverting' /\ pc[<<c, m>>] = "dlq"
<1>1. PICK c \in Consumers : ConsumerNext(c)
  BY DEF Next, vars, sqsVars, queueVars, VisibilityExpires
<1>2. PICK n \in Messages : SendToDlq(c, n)
  BY <1>1 DEF ConsumerNext, Start, Stop, ProcessDies, LoopEnds, PollFails, PollCrashes, BatchDone,
     ParseFails, TaskFails, GroupFails, ReceiveBatch, Wire, Unwire, Advance, Ack, Retry, FinishDlq,
     VerbFails, Settled, sqsVars, queueVars
<1> QED
  BY <1>1, <1>2 DEF SendToDlq, NeverRaises, Deliveries

(* CompleteMeansHandled (hooks.py:74-81): on_complete is told only of messages *)
(* that every subscriber handled, whatever raises, stops or dies.              *)
THEOREM CompleteMeansHandledHolds == ASSUME Wired PROVE Spec => CompleteMeansHandled
<1>1. Spec => []DispatchTypeOK
  BY ImplementsDispatch, DispatchTypeCorrect
<1>2. DispatchTypeOK /\ EarnedInv /\ [Next]_vars => EarnedInv'
  BY EarnedStep
<1>3. DispatchTypeOK /\ EarnedInv /\ [Next]_vars =>
        [\A c \in Consumers, m \in Messages :
           pc[<<c, m>>] = "notify" /\ pc'[<<c, m>>] = "ack" => m \in processed]_vars
  BY CompletionIsEarned
<1> QED
  BY <1>1, <1>2, <1>3, EarnedInit, PTL DEF Spec, CompleteMeansHandled

(* HooksTellTheTruth (base.py:323-361): besides, no copy goes to the dead-     *)
(* letter queue that on_dead_letter was not told of, when no task raises.      *)
THEOREM HooksTellTheTruthHolds == ASSUME Tamed, Wired PROVE Spec => HooksTellTheTruth
<1>1. Spec => []DispatchTypeOK
  BY ImplementsDispatch, DispatchTypeCorrect
<1>2. DispatchTypeOK /\ TamedInv /\ [Next]_vars => TamedInv'
  BY StepIsLifecycle, WiringStep, NothingRaises, LoopStep DEF TamedInv, Tamed
<1>3. TamedInv /\ [Next]_vars =>
        [\A m \in deadQueue' \ deadQueue :
           \E c \in Consumers : <<c, m>> \in diverting' /\ pc[<<c, m>>] = "dlq"]_vars
  BY DiversionIsReported DEF TamedInv
<1>4. Spec => DiversionsReported
  BY <1>1, <1>2, <1>3, TamedInit, PTL DEF Spec, DiversionsReported
<1> QED
  BY <1>4, CompleteMeansHandledHolds DEF HooksTellTheTruth
--------------------------------------------------------------------------------
(* Every claim is there for a reason, when moreover nothing cancels deliveries *)
(* that hold one: stop() is not called, and a store does not outlive the       *)
(* process that dies.                                                          *)
Orderly == Tamed /\ Wired /\ ~ Stops /\ (Deaths => ~ SharedStore)

Held(k) == \/ \E c \in Consumers, m \in Messages : Owns(c, m) /\ Claim(c, m) = k
           \/ \E m \in processed : KeyOf[m] = k[2]

ClaimsHeld == \A k \in claims : Held(k)

(* All that is known of the calm world. *)
CalmInv == IInv /\ EarnedInv /\ TamedInv

(* An owner goes on owning, or its message has been processed, or its claim is *)
(* given up.                                                                   *)
LEMMA HeldStays ==
  ASSUME ClaimsHeld, processed \subseteq processed',
         \A c \in Consumers, m \in Messages :
           Owns(c, m) => Owns(c, m)' \/ m \in processed' \/ Claim(c, m) \notin claims',
         \A k \in claims' \ claims :
           \E c \in Consumers, m \in Messages : Owns(c, m)' /\ Claim(c, m) = k
  PROVE  ClaimsHeld'
<1> SUFFICES ASSUME NEW k \in claims'
             PROVE  Held(k)'
  BY DEF ClaimsHeld
<1>1. \A c \in Consumers, m \in Messages : Claim(c, m)' = Claim(c, m)
  BY DEF Claim, StoreOf
<1>2. CASE k \notin claims
  BY <1>1, <1>2 DEF Held
<1>3. CASE \E m \in processed : KeyOf[m] = k[2]
  BY <1>3 DEF Held
<1>4. ASSUME k \in claims, NEW c \in Consumers, NEW m \in Messages, Owns(c, m), Claim(c, m) = k
      PROVE  Held(k)'
  <2>1. k[2] = KeyOf[m]
    BY <1>4 DEF Claim
  <2> QED
    BY <1>1, <1>4, <2>1 DEF Held
<1> QED
  BY <1>2, <1>3, <1>4 DEF ClaimsHeld, Held

(* The steps of _dispatch, short of its verb. *)
LEMMA AdvanceHolds ==
  ASSUME Orderly, CalmInv, ClaimsHeld, NEW c \in Consumers, NEW m \in Messages, Advance(c, m)
  PROVE  ClaimsHeld'
<1> DEFINE d == <<c, m>>
<1>t. DispatchTypeOK /\ OutcomePending /\ KeyedPoints /\ d \in Deliveries
  BY DEF CalmInv, IInv, Deliveries
<1>1. ~ ClaimRaises(c, m) /\ ~ ReleaseRaises(c, m) /\ ~ ReleaseAndRaise(c, m)
  BY <1>t DEF Orderly, Tamed, Tame, Calm, ClaimRaises, ReleaseRaises, ReleaseAndRaise, CalmInv, TamedInv,
     NeverRaises
<1>2. /\ processed \subseteq processed'
      /\ \A e \in Deliveries \ {d} : pc'[e] = pc[e] /\ outcome'[e] = outcome[e]
  BY <1>t, <1>1 DEF Advance, ClaimKey, Receive, SubscriberDone, Gathered, ReleaseClaim, Notify, GoTo,
     DispatchTypeOK
<1>3. \A b \in Consumers, n \in Messages : <<b, n>> # d /\ Owns(b, n) => Owns(b, n)'
  BY <1>2 DEF Owns, Deliveries, HasKey
<1>4. CASE ClaimKey(c, m)
  <2>1. HasKey(m) /\ ~ Owns(c, m)
    BY <1>t, <1>4 DEF ClaimKey, KeyedPoints, Owns
  <2>2. CASE Claim(c, m) \in claims
    <3>1. claims' = claims
      BY <1>4, <2>2 DEF ClaimKey
    <3> QED
      BY <1>2, <1>3, <2>1, <3>1, HeldStays
  <2>3. CASE Claim(c, m) \notin claims
    <3>1. claims' = claims \union {Claim(c, m)} /\ pc'[d] = "receive"
      BY <1>t, <1>4, <2>3 DEF ClaimKey, GoTo, DispatchTypeOK
    <3>2. Owns(c, m)'
      BY <2>1, <3>1 DEF Owns, HasKey
    <3> QED
      BY <1>2, <1>3, <2>1, <3>1, <3>2, HeldStays
  <2> QED
    BY <2>2, <2>3
<1>5. CASE ReleaseClaim(c, m)
  <2>1. claims' = claims \ {Claim(c, m)}
    BY <1>5 DEF ReleaseClaim
  <2> QED
    BY <1>2, <1>3, <2>1, HeldStays
<1>6. CASE Receive(c, m) \/ Gathered(c, m) \/ Notify(c, m)
           \/ \E s \in Subscribers, r \in Results : SubscriberDone(c, m, s, r)
  <2>1. claims' = claims
    BY <1>6 DEF Receive, Gathered, Notify, SubscriberDone
  <2>2. ASSUME Owns(c, m)
        PROVE  Owns(c, m)'
    <3>1. CASE Receive(c, m)
      <4>1. outcome'[d] \in {None, "unsubscribed"} /\ pc'[d] \in {"ack", "gather"}
        BY <1>t, <3>1 DEF Receive, GoTo, DispatchTypeOK, OutcomePending
      <4> QED
        BY <2>2, <4>1 DEF Owns, HasKey
    <3>2. CASE \E s \in Subscribers, r \in Results : SubscriberDone(c, m, s, r)
      BY <2>2, <3>2 DEF SubscriberDone, Owns, HasKey
    <3>3. CASE Gathered(c, m)
      <4>1. pc[d] = "gather" /\ outcome[d] = None
        BY <1>t, <3>3 DEF Gathered, OutcomePending
      <4>2. \/ pc'[d] = "except" /\ outcome'[d] = None
            \/ pc'[d] = "release"
            \/ pc'[d] = "notify" /\ outcome'[d] = "success"
        BY <1>t, <2>2, <3>3, <4>1 DEF Gathered, GoTo, DispatchTypeOK, Owns
      <4> QED
        BY <2>2, <4>2 DEF Owns, HasKey
    <3>4. CASE Notify(c, m)
      <4>1. outcome[d] \in {None, "unsubscribed", "success"} /\ outcome' = outcome
        BY <2>2, <3>4 DEF Notify, Owns
      <4>2. VerbOf(outcome[d]) = "ack"
        BY <4>1 DEF VerbOf, None
      <4>3. pc'[d] = "ack"
        BY <1>t, <3>4, <4>2 DEF Notify, GoTo, DispatchTypeOK
      <4> QED
        BY <2>2, <4>1, <4>3 DEF Owns, HasKey
    <3> QED
      BY <1>6, <3>1, <3>2, <3>3, <3>4
  <2> QED
    BY <1>2, <1>3, <2>1, <2>2, HeldStays
<1> QED
  BY <1>1, <1>4, <1>5, <1>6 DEF Advance

(* A verb returns: an owner is at ack, and what is acked was processed. *)
LEMMA SettledHolds ==
  ASSUME CalmInv, ClaimsHeld, NEW c \in Consumers, NEW m \in Messages, VerbReturns(c, m)
  PROVE  ClaimsHeld'
<1> DEFINE d == <<c, m>>
<1>t. DispatchTypeOK /\ d \in Deliveries /\ Kept(c, m)
  BY DEF CalmInv, IInv, EarnedInv, PointsEarned, Deliveries
<1>1. UNCHANGED <<claims, processed>> /\ \A e \in Deliveries \ {d} : pc'[e] = pc[e] /\ outcome'[e] = outcome[e]
  BY DEF VerbReturns, Forget
<1>2. \A b \in Consumers, n \in Messages : <<b, n>> # d /\ Owns(b, n) => Owns(b, n)'
  BY <1>1 DEF Owns, Deliveries, HasKey
<1>3. Owns(c, m) => m \in processed
  BY <1>t DEF VerbReturns, AtVerb, Owns, Kept, None
<1> QED
  BY <1>1, <1>2, <1>3, HeldStays

LEMMA ClaimsStep ==
  ASSUME Orderly, CalmInv, ClaimsHeld, [Next]_vars
  PROVE  ClaimsHeld'
<1>t. DispatchTypeOK
  BY DEF CalmInv, IInv
<1>1. CASE UNCHANGED <<pc, outcome, claims, processed>>
  BY <1>1 DEF ClaimsHeld, Held, Owns, Claim, StoreOf, HasKey
<1>2. CASE UNCHANGED vars \/ \E m \in Messages : VisibilityExpires(m)
  BY <1>1, <1>2 DEF vars, dispatchVars, VisibilityExpires
<1>3. ASSUME NEW c \in Consumers
      PROVE  /\ ~ Stop(c) /\ ~ ParseFails(c) /\ ~ PollCrashes(c)
             /\ \A m \in Messages : ~ TaskFails(c, m) /\ ~ VerbFails(c, m)
  BY DEF Stop, ParseFails, PollCrashes, TaskFails, VerbFails, VerbRaisesError, Orderly, CalmInv, TamedInv,
     LoopInv, NeverRaises, Deliveries, Tamed, Tame, Calm
<1>4. ASSUME NEW c \in Consumers, Start(c) \/ PollFails(c) \/ BatchDone(c)
      PROVE  ClaimsHeld'
  BY <1>1, <1>4 DEF Start, PollFails, BatchDone, dispatchVars
<1>5. ASSUME NEW c \in Consumers, NEW s \in Subscribers, Wire(c, s) \/ Unwire(c, s)
      PROVE  ClaimsHeld'
  BY <1>1, <1>5 DEF Wire, Unwire, Subscribe, Unsubscribe
<1>6. ASSUME NEW c \in Consumers, NEW m \in Messages, SendToDlq(c, m)
      PROVE  ClaimsHeld'
  BY <1>1, <1>6 DEF SendToDlq, dispatchVars
<1>7. ASSUME NEW c \in Consumers, NEW m \in Messages, Advance(c, m)
      PROVE  ClaimsHeld'
  BY <1>7, AdvanceHolds
<1>8. ASSUME NEW c \in Consumers, NEW m \in Messages, Ack(c, m) \/ Retry(c, m) \/ FinishDlq(c, m)
      PROVE  ClaimsHeld'
  BY <1>8, SettledHolds DEF Ack, Retry, FinishDlq, Settled
<1>9. ASSUME NEW c \in Consumers, NEW B \in SUBSET Messages, ReceiveBatch(c, B)
      PROVE  ClaimsHeld'
  <2>1. /\ UNCHANGED <<outcome, claims, processed>>
        /\ \A d \in Deliveries : pc[d] # "idle" => pc'[d] = pc[d]
    BY <1>9 DEF ReceiveBatch, Begin, Active, Deliveries
  <2>2. \A b \in Consumers, n \in Messages : Owns(b, n) => Owns(b, n)'
    BY <2>1 DEF Owns, HasKey, Deliveries
  <2> QED
    BY <2>1, <2>2, HeldStays
<1>10. ASSUME NEW c \in Consumers, ProcessDies(c)
       PROVE  ClaimsHeld'
  <2>1. /\ claims' = claims \ ({c} \X Keys) /\ processed' = processed
        /\ \A d \in Deliveries : d[1] # c => pc'[d] = pc[d] /\ outcome'[d] = outcome[d]
    BY <1>10 DEF ProcessDies, Die, Forget, Orderly, Deliveries
  <2>2. \A m \in Messages : HasKey(m) => Claim(c, m) \notin claims'
    BY <1>10, <2>1, DispatchAssumption DEF ProcessDies, Claim, StoreOf, HasKey, Orderly
  <2>3. \A b \in Consumers, n \in Messages : b # c /\ Owns(b, n) => Owns(b, n)'
    BY <2>1 DEF Owns, HasKey, Deliveries
  <2> QED
    BY <2>1, <2>2, <2>3, HeldStays DEF Owns
<1> QED
  BY <1>2, <1>3, <1>4, <1>5, <1>6, <1>7, <1>8, <1>9, <1>10 DEF Next, ConsumerNext

LEMMA CalmStep == ASSUME Orderly, CalmInv, [Next]_vars PROVE CalmInv'
BY StepIsLifecycle, Inductive, EarnedStep, WiringStep, NothingRaises, LoopStep
   DEF Orderly, CalmInv, TamedInv, Tamed, Tame, IInv

LEMMA CalmInit == ASSUME Orderly, Init PROVE CalmInv /\ ClaimsHeld
BY Inductive, EarnedInit, TamedInit DEF Init, DispatchInit, Orderly, Tamed, Tame, CalmInv, ClaimsHeld

(* ClaimsOwned (base.py:184-186): no claim is left behind that would make the  *)
(* redelivery of a message nobody handled look like a duplicate.               *)
THEOREM ClaimsOwnedHolds == ASSUME Orderly PROVE Spec => []ClaimsOwned
<1>1. CalmInv /\ ClaimsHeld /\ [Next]_vars => (CalmInv /\ ClaimsHeld)'
  BY CalmStep, ClaimsStep
<1>2. ClaimsHeld => ClaimsOwned
  <2> SUFFICES ASSUME ClaimsHeld, NEW k \in claims,
                      NEW c \in Consumers, NEW m \in Messages, Owns(c, m), Claim(c, m) = k
               PROVE  \E d \in Deliveries : Claim(d[1], d[2]) = k /\ pc[d] \notin {"idle", "claim"}
    BY DEF ClaimsHeld, Held, ClaimsOwned
  <2>1. <<c, m>> \in Deliveries /\ pc[<<c, m>>] \notin {"idle", "claim"}
    BY DEF Owns, Deliveries
  <2> QED
    BY <2>1
<1>3. Init => CalmInv /\ ClaimsHeld
  BY CalmInit
<1> QED
  BY <1>1, <1>2, <1>3, PTL DEF Spec
--------------------------------------------------------------------------------
(* The promise of at-least-once is kept when besides no two messages have a    *)
(* key in common and no two consumers a store: what claim() calls a duplicate  *)
(* is then a message that this very consumer has processed.                    *)
Apart ==
  /\ \A m, n \in Messages : HasKey(m) /\ KeyOf[m] = KeyOf[n] => m = n
  /\ \A b, c \in Consumers : StoreOf(b) = StoreOf(c) => b = c

Duplicate(c, m) == pc[<<c, m>>] = "ack" /\ outcome[<<c, m>>] = "duplicate"

DuplicatesHandled == \A c \in Consumers, m \in Messages : Duplicate(c, m) => m \in processed

LEMMA ProcessedGrows ==
  ASSUME [DispatchNext]_dispatchVars
  PROVE  processed \subseteq processed'
<1>1. ASSUME NEW c \in Consumers, NEW m \in Messages, Step(c, m)
      PROVE  processed \subseteq processed'
  BY <1>1 DEF Step, ClaimKey, ClaimRaises, Receive, SubscriberDone, Gathered, ReleaseClaim, ReleaseRaises,
     Notify, VerbReturns, VerbRaisesError, ReleaseAndRaise
<1> QED
  BY <1>1 DEF DispatchNext, dispatchVars, Begin, Subscribe, Unsubscribe, Abandon, Halt, Die

LEMMA ClaimedIsProcessed ==
  ASSUME Apart, ClaimsHeld, NEW c \in Consumers, NEW m \in Messages,
         HasKey(m), ~ Owns(c, m), Claim(c, m) \in claims, processed \subseteq Messages
  PROVE  m \in processed
<1>1. CASE \E n \in processed : KeyOf[n] = Claim(c, m)[2]
  BY <1>1 DEF Apart, Claim, HasKey
<1>2. ASSUME NEW b \in Consumers, NEW n \in Messages, Owns(b, n), Claim(b, n) = Claim(c, m)
      PROVE  FALSE
  BY <1>2 DEF Apart, Claim, HasKey
<1> QED
  BY <1>1, <1>2 DEF ClaimsHeld, Held

LEMMA DuplicatesStep ==
  ASSUME Orderly, Apart, CalmInv, ClaimsHeld, DuplicatesHandled, [Next]_vars
  PROVE  DuplicatesHandled'
<1> SUFFICES ASSUME NEW c \in Consumers, NEW m \in Messages, Duplicate(c, m)'
             PROVE  m \in processed'
  BY DEF DuplicatesHandled
<1> DEFINE d == <<c, m>>
<1>t. DispatchTypeOK /\ KeyedPoints /\ d \in Deliveries /\ Kept(c, m)
  BY DEF CalmInv, IInv, EarnedInv, PointsEarned, Deliveries
<1>1. processed \subseteq processed'
  BY StepIsLifecycle, ProcessedGrows
<1>2. CASE pc'[d] = pc[d] /\ outcome'[d] = outcome[d]
  BY <1>1, <1>2 DEF DuplicatesHandled, Duplicate
<1>3. ASSUME NEW D, Forget(D)
      PROVE  m \in processed'
  BY <1>t, <1>2, <1>3 DEF Forget, Duplicate
<1>4. ASSUME NEW b \in Consumers, NEW B \in SUBSET Messages, Begin(b, B)
      PROVE  m \in processed'
  BY <1>t, <1>2, <1>4 DEF Begin, Duplicate
<1>5. ASSUME NEW b \in Consumers, NEW n \in Messages, Step(b, n), <<b, n>> # d
      PROVE  m \in processed'
  BY <1>t, <1>2, <1>3, <1>5 DEF Step, ClaimKey, ClaimRaises, Receive, SubscriberDone, Gathered,
     ReleaseClaim, ReleaseRaises, Notify, VerbReturns, VerbRaisesError, ReleaseAndRaise, GoTo,
     DispatchTypeOK
<1>6. CASE Step(c, m)
  <2>1. CASE ClaimKey(c, m)
    <3>1. Claim(c, m) \in claims
      BY <1>t, <2>1 DEF ClaimKey, GoTo, DispatchTypeOK, Duplicate
    <3>2. HasKey(m) /\ ~ Owns(c, m)
      BY <2>1, <1>t DEF ClaimKey, KeyedPoints, Owns
    <3> QED
      BY <1>1, <1>t, <3>1, <3>2, ClaimedIsProcessed DEF DispatchTypeOK
  <2>2. CASE Notify(c, m)
    <3>1. pc[d] = "notify" /\ outcome[d] = "duplicate"
      BY <2>2 DEF Notify, Duplicate
    <3> QED
      BY <1>1, <1>t, <3>1 DEF Kept
  <2>3. CASE ~ ClaimKey(c, m) /\ ~ Notify(c, m)
    BY <1>t, <1>2, <1>3, <1>6, <2>3 DEF Step, ClaimRaises, Receive, SubscriberDone,
       Gathered, ReleaseClaim, ReleaseRaises, VerbReturns, VerbRaisesError, ReleaseAndRaise,
       GoTo, DispatchTypeOK, Duplicate
  <2> QED
    BY <2>1, <2>2, <2>3
<1> QED
  BY <1>2, <1>3, <1>4, <1>5, <1>6, StepIsLifecycle
     DEF DispatchNext, dispatchVars, Subscribe, Unsubscribe, Abandon, Halt, Die

(* DeleteMessage by who has handled the message or diverted it. *)
LEMMA DeleteKeepsPromise ==
  ASSUME NEW m \in Messages, UNCHANGED <<processed, deadQueue>>,
         removed' \in {removed, removed \union {m}}, m \in processed \union deadQueue
  PROVE  [Promise!Next]_(Promise!vars)
BY DEF Promise!Next, Promise!Remove, Promise!vars

LEMMA PromiseStep ==
  ASSUME Orderly, CalmInv, DuplicatesHandled, [Next]_vars
  PROVE  [Promise!Next]_(Promise!vars)
<1>1. CASE UNCHANGED <<processed, deadQueue, removed>>
  BY <1>1 DEF Promise!vars
<1>2. CASE UNCHANGED vars \/ \E m \in Messages : VisibilityExpires(m)
  BY <1>1, <1>2 DEF vars, dispatchVars, sqsVars, queueVars, VisibilityExpires
<1>3. ASSUME NEW c \in Consumers
      PROVE  /\ ~ Stop(c) /\ ~ ParseFails(c) /\ ~ PollCrashes(c)
             /\ \A m \in Messages : ~ TaskFails(c, m) /\ ~ VerbFails(c, m)
  BY DEF Stop, ParseFails, PollCrashes, TaskFails, VerbFails, VerbRaisesError, Orderly, CalmInv, TamedInv,
     LoopInv, NeverRaises, Deliveries, Tamed, Tame, Calm
<1>4. ASSUME NEW c \in Consumers, Start(c) \/ PollFails(c) \/ BatchDone(c) \/ ProcessDies(c)
      PROVE  [Promise!Next]_(Promise!vars)
  BY <1>1, <1>4 DEF Start, PollFails, BatchDone, ProcessDies, Die, LoopEnds, dispatchVars, queueVars
<1>5. ASSUME NEW c \in Consumers, NEW s \in Subscribers, Wire(c, s) \/ Unwire(c, s)
      PROVE  [Promise!Next]_(Promise!vars)
  BY <1>1, <1>5 DEF Wire, Unwire, Subscribe, Unsubscribe, sqsVars, queueVars
<1>6. ASSUME NEW c \in Consumers, NEW B \in SUBSET Messages, ReceiveBatch(c, B)
      PROVE  [Promise!Next]_(Promise!vars)
  BY <1>1, <1>6 DEF ReceiveBatch, Begin
<1>7. ASSUME NEW c \in Consumers, NEW m \in Messages, Advance(c, m)
      PROVE  [Promise!Next]_(Promise!vars)
  <2>1. UNCHANGED <<deadQueue, removed>> /\ processed' \in {processed, processed \union {m}}
    BY <1>7 DEF Advance, ClaimKey, ClaimRaises, Receive, SubscriberDone, Gathered, ReleaseClaim,
       ReleaseRaises, Notify, ReleaseAndRaise, sqsVars, queueVars
  <2> QED
    BY <2>1 DEF Promise!Next, Promise!Process, Promise!vars
<1>8. ASSUME NEW c \in Consumers, NEW m \in Messages, SendToDlq(c, m)
      PROVE  [Promise!Next]_(Promise!vars)
  BY <1>8 DEF SendToDlq, dispatchVars, Promise!Next, Promise!Divert
<1>9. ASSUME NEW c \in Consumers, NEW m \in Messages, Ack(c, m) \/ FinishDlq(c, m) \/ Retry(c, m)
      PROVE  [Promise!Next]_(Promise!vars)
  <2>1. UNCHANGED <<processed, deadQueue>>
    BY <1>9 DEF Ack, FinishDlq, Retry, Settled, VerbReturns
  <2>2. CASE removed' = removed
    BY <1>1, <2>1, <2>2
  <2>3. CASE removed' # removed
    <3>1. removed' = removed \union {m} /\ (pc[<<c, m>>] = "ack" \/ <<c, m>> \in diverting)
      BY <1>9, <2>3 DEF Ack, FinishDlq, Retry, DeleteMessage, UnchangedQueue, MakeVisible
    <3>2. m \in processed \union deadQueue
      BY <3>1 DEF CalmInv, EarnedInv, PointsEarned, Kept, DivertedKept, DuplicatesHandled, Duplicate
    <3> QED
      BY <2>1, <3>1, <3>2, DeleteKeepsPromise
  <2> QED
    BY <2>2, <2>3
<1> QED
  BY <1>2, <1>3, <1>4, <1>5, <1>6, <1>7, <1>8, <1>9 DEF Next, ConsumerNext

(* KeepsPromise (sqs.py:100-180): the consumer implements AtLeastOnce, step by *)
(* step: a message leaves the queue only after a delivery in which every       *)
(* subscriber handled it, or with a copy in the dead-letter queue.             *)
THEOREM KeepsPromiseHolds == ASSUME Orderly, Apart PROVE Spec => KeepsPromise
<1>1. CalmInv /\ ClaimsHeld /\ DuplicatesHandled /\ [Next]_vars
        => (CalmInv /\ ClaimsHeld /\ DuplicatesHandled)'
  BY CalmStep, ClaimsStep, DuplicatesStep
<1>2. Init => CalmInv /\ ClaimsHeld /\ DuplicatesHandled
  BY CalmInit DEF Init, DispatchInit, DuplicatesHandled, Duplicate, Deliveries
<1>3. Init => Promise!Init
  BY DEF Init, DispatchInit, Promise!Init
<1>4. CalmInv /\ DuplicatesHandled /\ [Next]_vars => [Promise!Next]_(Promise!vars)
  BY PromiseStep
<1> QED
  BY <1>1, <1>2, <1>3, <1>4, PTL DEF Spec, KeepsPromise
================================================================================
