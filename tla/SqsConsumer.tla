----------------------------- MODULE SqsConsumer -----------------------------
(***************************************************************************)
(* Replicas of one SQSConsumer (event/consumer/sqs.py, strategies/pull.py) *)
(* reading one queue: the poll loop, a task group per batch, the three     *)
(* verbs, start/stop and the death of a process, around the lifecycle of   *)
(* module Dispatch.  The queue is the external part: a received message is *)
(* invisible until it is deleted, made visible, or its visibility timeout  *)
(* runs out; only the receipt of the latest receive is sure to work.       *)
(***************************************************************************)
EXTENDS Dispatch, Naturals

CONSTANTS Unparsable,   \* messages whose body ConsumerMessage rejects
          MaxBatch,     \* max_number_of_messages
          HasDlq,       \* a dlq_url is configured
          ClientErrors, \* AWS calls that may fail with a ClientError
          SlowHandlers, \* a delivery may outlive its visibility timeout
          Stops,        \* stop() may be called
          Deaths,       \* processes may die
          StartUnwired  \* start() may be called with no subscriber registered

MaxAttempts == 3        \* _DEFAULT_MAX_ATTEMPTS of the poll loop's retry policy

ASSUME SqsAssumption ==
  /\ Unparsable \subseteq Messages
  /\ MaxBatch \in Nat \ {0}
  /\ HasDlq \in BOOLEAN /\ SlowHandlers \in BOOLEAN /\ Stops \in BOOLEAN
  /\ Deaths \in BOOLEAN /\ StartUnwired \in BOOLEAN
  /\ ClientErrors \subseteq {"poll", "ack", "retry", "dlq"}

VARIABLES visible,    \* messages a receive may return
          removed,    \* messages deleted from the queue
          deadQueue,  \* messages with a copy in the dead-letter queue
          latest,     \* consumer whose receipt of the message is the newest
          running,    \* _running
          loop,       \* the loop task: off, poll, batch or dead
          attempts,   \* attempts of the retry policy around _poll_loop
          broken,     \* tasks of the batch that could not parse their message
          diverting   \* deliveries between dlq()'s send and its delete

queueVars == <<visible, removed, deadQueue, latest>>
loopVars == <<running, loop, attempts, broken, diverting>>
sqsVars == <<queueVars, loopVars>>
vars == <<dispatchVars, sqsVars>>

TypeOK ==
  /\ DispatchTypeOK
  /\ visible \subseteq Messages /\ removed \subseteq Messages
  /\ deadQueue \subseteq Messages
  /\ latest \in [Messages -> Consumers \union {None}]
  /\ running \in [Consumers -> BOOLEAN]
  /\ loop \in [Consumers -> {"off", "poll", "batch", "dead"}]
  /\ attempts \in [Consumers -> 1..MaxAttempts]
  /\ broken \in [Consumers -> SUBSET Unparsable]
  /\ diverting \subseteq Deliveries

Init ==
  /\ DispatchInit
  /\ visible = Messages /\ removed = {} /\ deadQueue = {}
  /\ latest = [m \in Messages |-> None]
  /\ running = [c \in Consumers |-> FALSE]
  /\ loop = [c \in Consumers |-> "off"]
  /\ attempts = [c \in Consumers |-> 1]
  /\ broken = [c \in Consumers |-> {}]
  /\ diverting = {}
-------------------------------------------------------------------------------
(* The queue.                                                              *)
InFlight(m) == m \notin visible \union removed

(* DeleteMessage: with an old receipt it may be accepted and do nothing. *)
DeleteMessage(c, m) ==
  \/ removed' = removed \union {m} /\ visible' = visible \ {m}
  \/ latest[m] # c /\ UNCHANGED <<removed, visible>>

(* ChangeMessageVisibility; it fails for a message no longer in flight or  *)
(* received anew since.  The backoff delay is abstracted away.             *)
MakeVisible(c, m) ==
  /\ visible' = IF InFlight(m) /\ latest[m] = c THEN visible \union {m} ELSE visible
  /\ UNCHANGED removed

UnchangedQueue == UNCHANGED <<visible, removed>>

VisibilityExpires(m) ==
  /\ InFlight(m)
  /\ SlowHandlers \/ \A c \in Consumers : ~ Active(c, m) /\ m \notin broken[c]
  /\ visible' = visible \union {m}
  /\ UNCHANGED <<dispatchVars, removed, deadQueue, latest, loopVars>>
-------------------------------------------------------------------------------
(* The application registers its subscribers; usually before start(). *)
Wire(c, s) == /\ StableWiring => loop[c] = "off"
              /\ Subscribe(c, s)
              /\ UNCHANGED sqsVars

(* ... and never takes the last one away from a running consumer. *)
Unwire(c, s) == /\ ~ StableWiring /\ subs[c] # {s}
                /\ Unsubscribe(c, s)
                /\ UNCHANGED sqsVars

Start(c) == /\ ~ running[c]
            /\ StartUnwired \/ subs[c] = Subscribers
            /\ running' = [running EXCEPT ![c] = TRUE]
            /\ loop' = [loop EXCEPT ![c] = "poll"]
            /\ attempts' = [attempts EXCEPT ![c] = 1]
            /\ UNCHANGED <<dispatchVars, queueVars, broken, diverting>>

(* receive_message returns a batch; the task group has one task for each.  *)
(* A task whose message cannot be parsed never gets to dispatch it.        *)
ReceiveBatch(c, B) ==
  /\ running[c] /\ loop[c] = "poll"
  /\ B # {} /\ B \subseteq visible /\ Cardinality(B) <= MaxBatch
  /\ Begin(c, B \ Unparsable)
  /\ visible' = visible \ B
  /\ latest' = [m \in Messages |-> IF m \in B THEN c ELSE latest[m]]
  /\ loop' = [loop EXCEPT ![c] = "batch"]
  /\ broken' = [broken EXCEPT ![c] = B \intersect Unparsable]
  /\ UNCHANGED <<removed, deadQueue, running, attempts, diverting>>

MutPollFails(c) ==
  /\ "poll" \in ClientErrors
  /\ loop[c] = "poll"
  /\ IF attempts[c] < MaxAttempts - 1
     THEN attempts' = [attempts EXCEPT ![c] = @ + 1] /\ UNCHANGED loop
     ELSE loop' = [loop EXCEPT ![c] = "dead"] /\ UNCHANGED attempts
  /\ UNCHANGED <<dispatchVars, queueVars, running, broken, diverting>>

MutPollFailsForever(c) ==
  /\ "poll" \in ClientErrors
  /\ loop[c] = "poll"
  /\ attempts' = [attempts EXCEPT ![c] = @ + 1]
  /\ UNCHANGED <<dispatchVars, queueVars, loop, running, broken, diverting>>

(* A ClientError while polling: AsyncRetry runs _poll_loop again, until it *)
(* has been run MaxAttempts times since start().                           *)
PollFails(c) ==
  /\ "poll" \in ClientErrors
  /\ loop[c] = "poll"
  /\ IF attempts[c] < MaxAttempts
     THEN attempts' = [attempts EXCEPT ![c] = @ + 1] /\ UNCHANGED loop
     ELSE loop' = [loop EXCEPT ![c] = "dead"] /\ UNCHANGED attempts
  /\ UNCHANGED <<dispatchVars, queueVars, running, broken, diverting>>

(* Any other error of receive_message ends the loop at once. *)
PollCrashes(c) == /\ VerbsRaise /\ loop[c] = "poll"
                  /\ loop' = [loop EXCEPT ![c] = "dead"]
                  /\ UNCHANGED <<dispatchVars, queueVars, running, attempts, broken, diverting>>

BatchDone(c) == /\ loop[c] = "batch" /\ Running(c) = {} /\ broken[c] = {}
                /\ loop' = [loop EXCEPT ![c] = "poll"]
                /\ UNCHANGED <<dispatchVars, queueVars, running, attempts, broken, diverting>>
-------------------------------------------------------------------------------
(* One step of _dispatch short of its verb. *)
Advance(c, m) ==
  /\ \/ ClaimKey(c, m) \/ ClaimRaises(c, m) \/ Receive(c, m)
     \/ \E s \in Subscribers, r \in Results : SubscriberDone(c, m, s, r)
     \/ Gathered(c, m) \/ ReleaseClaim(c, m) \/ ReleaseRaises(c, m) \/ Notify(c, m)
     \/ ReleaseAndRaise(c, m)
  /\ UNCHANGED sqsVars

Settled(c, m) == /\ VerbReturns(c, m)
                 /\ diverting' = diverting \ {<<c, m>>}
                 /\ UNCHANGED <<deadQueue, latest, running, loop, attempts, broken>>

MutAckForgets(c, m) == pc[<<c, m>>] = "ack" /\ UnchangedQueue /\ Settled(c, m)

(* ack(): a ClientError is logged and swallowed. *)
Ack(c, m) == /\ pc[<<c, m>>] = "ack"
             /\ DeleteMessage(c, m) \/ ("ack" \in ClientErrors /\ UnchangedQueue)
             /\ Settled(c, m)

(* retry(), which is also what dlq() does without a dlq_url. *)
Retry(c, m) == /\ pc[<<c, m>>] = "retry" \/ (pc[<<c, m>>] = "dlq" /\ ~ HasDlq)
               /\ MakeVisible(c, m) \/ ("retry" \in ClientErrors /\ UnchangedQueue)
               /\ Settled(c, m)

(* dlq() sends the copy, from _handle_outcome or from _process_message's   *)
(* exception handler.                                                      *)
SendToDlq(c, m) ==
  /\ HasDlq /\ pc[<<c, m>>] \in {"dlq", "raised"} /\ <<c, m>> \notin diverting
  /\ deadQueue' = deadQueue \union {m}
  /\ diverting' = diverting \union {<<c, m>>}
  /\ UNCHANGED <<dispatchVars, visible, removed, latest, running, loop, attempts, broken>>

(* ... then deletes the original; it gives up silently if the send failed. *)
FinishDlq(c, m) ==
  /\ HasDlq /\ pc[<<c, m>>] = "dlq"
  /\ \/ <<c, m>> \in diverting /\ DeleteMessage(c, m)
     \/ <<c, m>> \in diverting /\ "ack" \in ClientErrors /\ UnchangedQueue
     \/ <<c, m>> \notin diverting /\ "dlq" \in ClientErrors /\ UnchangedQueue
  /\ Settled(c, m)

(* A verb raises what it does not catch; its request may have been served. *)
VerbFails(c, m) ==
  /\ VerbRaisesError(c, m)
  /\ \/ UnchangedQueue
     \/ (pc[<<c, m>>] = "ack" \/ <<c, m>> \in diverting) /\ DeleteMessage(c, m)
     \/ pc[<<c, m>>] = "retry" /\ MakeVisible(c, m)
  /\ diverting' = diverting \ {<<c, m>>}
  /\ UNCHANGED <<deadQueue, latest, running, loop, attempts, broken>>

MutGroupFails(c) == /\ Abandon(c, {d \in Running(c) : pc[d] = "raised"})
                    /\ loop' = [loop EXCEPT ![c] = "dead"]
                    /\ broken' = [broken EXCEPT ![c] = {}]
                    /\ UNCHANGED <<diverting, deadQueue, latest, running, attempts>>

(* A task of the batch raises: the group cancels its siblings, and the     *)
(* ExceptionGroup ends the loop.  _running stays True.                     *)
GroupFails(c) == /\ Abandon(c, Running(c))
                 /\ loop' = [loop EXCEPT ![c] = "dead"]
                 /\ broken' = [broken EXCEPT ![c] = {}]
                 /\ diverting' = diverting \ ({c} \X Messages)
                 /\ UNCHANGED <<deadQueue, latest, running, attempts>>

(* _process_message's handler is through with dlq() and re-raises. *)
TaskFails(c, m) ==
  /\ pc[<<c, m>>] = "raised"
  /\ \/ <<c, m>> \in diverting /\ DeleteMessage(c, m)
     \/ <<c, m>> \in diverting /\ "ack" \in ClientErrors /\ UnchangedQueue
     \/ <<c, m>> \notin diverting /\ ~ HasDlq /\ MakeVisible(c, m)
     \/ <<c, m>> \notin diverting /\ "dlq" \in ClientErrors /\ UnchangedQueue
     \/ VerbsRaise /\ UnchangedQueue
  /\ GroupFails(c)

ParseFails(c) == broken[c] # {} /\ UnchangedQueue /\ GroupFails(c)
-------------------------------------------------------------------------------
LoopEnds(c) == /\ running' = [running EXCEPT ![c] = FALSE]
               /\ loop' = [loop EXCEPT ![c] = "off"]
               /\ broken' = [broken EXCEPT ![c] = {}]
               /\ diverting' = diverting \ ({c} \X Messages)
               /\ UNCHANGED <<queueVars, attempts>>

(* stop(): clear the subscribers, cancel the loop task and wait for it. *)
Stop(c) == Stops /\ running[c] /\ Halt(c, Running(c)) /\ LoopEnds(c)

ProcessDies(c) == Deaths /\ running[c] /\ Die(c) /\ LoopEnds(c)

ConsumerNext(c) ==
  \/ Start(c) \/ Stop(c) \/ ProcessDies(c) \/ PollFails(c) \/ PollCrashes(c)
  \/ BatchDone(c) \/ ParseFails(c)
  \/ \E B \in SUBSET Messages : ReceiveBatch(c, B)
  \/ \E s \in Subscribers : Wire(c, s) \/ Unwire(c, s)
  \/ \E m \in Messages :
       \/ Advance(c, m) \/ Ack(c, m) \/ Retry(c, m) \/ SendToDlq(c, m)
       \/ FinishDlq(c, m) \/ VerbFails(c, m) \/ TaskFails(c, m)

Next == (\E c \in Consumers : ConsumerNext(c)) \/ \E m \in Messages : VisibilityExpires(m)

Spec == Init /\ [][Next]_vars

(* The event loop runs what is ready, subscribers and AWS calls end, a     *)
(* visibility timeout runs out, and no visible message is passed over for  *)
(* ever by the receives of a consumer that keeps polling.                  *)
Fairness ==
  /\ \A c \in Consumers :
       /\ WF_vars(Start(c)) /\ WF_vars(BatchDone(c))
       /\ \A s \in Subscribers : WF_vars(Wire(c, s))
       /\ \A m \in Messages :
            /\ WF_vars(Advance(c, m))
            /\ WF_vars(Ack(c, m)) /\ WF_vars(Retry(c, m))
            /\ WF_vars(SendToDlq(c, m)) /\ WF_vars(FinishDlq(c, m))
            /\ SF_vars(\E B \in SUBSET Messages : m \in B /\ ReceiveBatch(c, B))
  /\ \A m \in Messages : WF_vars(VisibilityExpires(m))

FairSpec == Spec /\ Fairness
-------------------------------------------------------------------------------
(* Properties of the composition.                                          *)

(* A message leaves the queue only after a delivery in which every         *)
(* subscriber handled it, or with a copy in the dead-letter queue: ack()   *)
(* of a duplicate or of a success never loses a message (sqs.py:100-180).  *)
Promise == INSTANCE AtLeastOnce WITH diverted <- deadQueue
KeepsPromise == Promise!Init /\ [][Promise!Next]_(Promise!vars)

(* A message without an idempotency key is never lost, whatever fails: it  *)
(* is removed only when it was handled or its copy diverted, however often *)
(* stop(), uncaught errors and poison siblings cancel its deliveries.      *)
KeylessKept ==
  [][\A m \in removed' \ removed : ~ HasKey(m) => m \in processed \union deadQueue]_vars

(* Every claim in the store is there for a reason: a delivery that is not  *)
(* over holds it, or a message with that key was processed.  A claim that  *)
(* is neither makes the redelivery look like a duplicate (base.py:184-186).*)
ClaimsOwned ==
  \A k \in claims :
    \/ \E d \in Deliveries : Claim(d[1], d[2]) = k /\ pc[d] \notin {"idle", "claim"}
    \/ \E m \in processed : KeyOf[m] = k[2]

(* Whatever subscribers, acknowledgements and dead-letter sends do, only a *)
(* poll that failed MaxAttempts times ends the loop of a running consumer  *)
(* (sqs.py:182-231, 267-276).                                              *)
OnlyPollingKillsLoop ==
  \A c \in Consumers : running[c] /\ loop[c] = "dead" => attempts[c] = MaxAttempts

(* A copy goes to the dead-letter queue only as the disposition of a       *)
(* failed outcome, which on_dead_letter has reported (base.py:343-352).    *)
DiversionsReported ==
  [][\A m \in deadQueue' \ deadQueue :
       \E c \in Consumers : <<c, m>> \in diverting' /\ pc[<<c, m>>] = "dlq"]_vars

(* No delivery outlives its batch: when the loop is stopped, dead or back  *)
(* at polling, every task of the group has ended, however it ended         *)
(* (sqs.py:221-223, pull.py:122-135).                                      *)
NoDeliveryOutlivesItsBatch ==
  \A c \in Consumers :
    loop[c] # "batch" => Running(c) = {} /\ broken[c] = {} /\ diverting \intersect ({c} \X Messages) = {}

(* on_complete is notified only of messages that every subscriber handled  *)
(* without an error (hooks.py:74-81).                                      *)
CompleteMeansHandled ==
  [][\A c \in Consumers, m \in Messages :
       pc[<<c, m>>] = "notify" /\ pc'[<<c, m>>] = "ack" => m \in processed]_vars

(* Every message is eventually removed from the queue for good, or some    *)
(* delivery of it fails or asks for a retry again and again.               *)
EveryMessageSettles ==
  \A m \in Messages :
    \/ <>[](m \in removed)
    \/ []<>(\E c \in Consumers : pc[<<c, m>>] \in {"retry", "dlq"})

(* What the hooks are told is what becomes of the message: no copy goes to *)
(* the dead-letter queue unreported, no completion is reported of what is  *)
(* not handled (base.py:323-361, hooks.py:74-81).                          *)
HooksTellTheTruth == DiversionsReported /\ CompleteMeansHandled
===============================================================================
