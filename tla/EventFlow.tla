------------------------------- MODULE EventFlow -------------------------------
(***************************************************************************)
(* One event's way through a chain of services: published, consumed under  *)
(* a span, reported by one envelope, published on by the handler, retried, *)
(* dead-lettered and redriven.  Task 0 is the gateway that publishes the   *)
(* first message outside of any span; task h handles queue h and its       *)
(* handler publishes to queue h+1.  The code: Observation and              *)
(* PublishObservation (event/observability/observer.py), the two telemetry *)
(* hooks (emitter.py), the span helpers (event/otel.py), the producers     *)
(* (event/producer), SQSConsumer.dlq() and SQSDlqRedriver.  Brokers lose   *)
(* nothing, but an answer may be lost.  A span is its index in `spans`, 0  *)
(* is no span; the context variable of each task is `current`.             *)
(***************************************************************************)
EXTENDS Integers, Sequences, FiniteSets, TLC

CONSTANTS Hops,           \* services in the chain
          Transport,      \* how handlers publish: "observed", "sqs" or "redis"
          Marks,          \* what a handler may record itself
          Errors,         \* what a handler may end with, besides nothing
          Headers,        \* headers a publisher sends besides the traceparent
          SystemAttributes, \* attributes SQS itself adds to a message
          MaxAttributes,  \* _MAX_SQS_ATTRIBUTES
          SinkFails,      \* emit() may raise
          MaxSpans, MaxMessages    \* bounds

ASSUME FlowAssumption ==
  /\ Hops \in Nat \ {0} /\ Headers \in Nat \ {0} /\ SystemAttributes \in Nat
  /\ MaxAttributes \in Nat \ {0} /\ SinkFails \in BOOLEAN
  /\ Marks \subseteq {"success", "retrying", "dlq", "failed", "duplicate"}
  /\ Errors \subseteq {"retryable", "fatal", "other", "cancelled"}
  /\ Transport \in {"observed", "sqs", "redis"}
  /\ MaxSpans \in Nat /\ MaxMessages \in Nat

Tasks == 0..Hops

VARIABLES spans,      \* started so far: kind, trace, parent, and the step it is about
          current,    \* the active span of each task
          queue,      \* per step: messages in the source queue, in flight or not
          dead,       \* messages in the dead-letter queue
          work,       \* what each task is doing
          pub,        \* the publish a handler is in
          redrive,    \* the redriver's loop
          envelopes,  \* what the sink has accepted
          published,  \* history: messages sent so far
          resent      \* history: dead letters the redriver has sent

flowVars == <<spans, current, queue, dead, work, pub, redrive, envelopes, published, resent>>

(* A message: transport id, step of the chain, its attributes traceparent, *)
(* idempotency_key and replayed_from, and how often dlq() has wrapped its  *)
(* body.                                                                   *)
Message == [id : 1..MaxMessages, step : 1..Hops, ctx : 0..MaxSpans, keyed : BOOLEAN,
            from : 0..MaxSpans, wraps : Nat]
NoMessage == [id |-> 0]

Idle == [at |-> "idle", msg |-> NoMessage, span |-> 0, saved |-> 0, marked |-> "none"]
NoPublish == [at |-> "none", wire |-> 0, saved |-> 0]
AtRest == [at |-> "rest", batch |-> {}, msg |-> NoMessage]

FlowTypeOK ==
  /\ Len(spans) <= MaxSpans /\ published \in 0..MaxMessages
  /\ \A s \in DOMAIN spans : spans[s].trace \in 1..s /\ spans[s].parent \in 0..s-1
  /\ current \in [Tasks -> 0..Len(spans)]
  /\ \A h \in 1..Hops : \A m \in queue[h] : m \in Message /\ m.step = h
  /\ dead \subseteq Message /\ redrive.batch \subseteq Message /\ resent \subseteq 1..MaxMessages
  /\ \A t \in Tasks : /\ work[t].at \in {"idle", "handling", "settling"}
                      /\ pub[t].at \in {"none", "sending", "done"}
  /\ redrive.at \in {"rest", "next", "sent"}

FlowInit ==
  /\ spans = << >> /\ current = [t \in Tasks |-> 0]
  /\ queue = [h \in 1..Hops |-> {}] /\ dead = {}
  /\ work = [t \in Tasks |-> IF t = 0 THEN [Idle EXCEPT !.at = "handling"] ELSE Idle]
  /\ pub = [t \in Tasks |-> NoPublish] /\ redrive = AtRest
  /\ envelopes = {} /\ published = 0 /\ resent = {}
-------------------------------------------------------------------------------
NextSpan == Len(spans) + 1

(* start_as_current_span: a child of the parent, or the root of a trace. *)
Start(kind, parent, step) ==
  /\ Len(spans) < MaxSpans
  /\ spans' = Append(spans, [kind |-> kind, parent |-> parent, step |-> step,
                             trace |-> IF parent = 0 THEN NextSpan ELSE spans[parent].trace])

SetCurrent(t, s) == current' = [current EXCEPT ![t] = s]

(* build_sqs_message_attributes keeps the first ten; the traceparent was   *)
(* injected last.                                                          *)
Carried(ctx, before) == IF before < MaxAttributes THEN ctx ELSE 0

(* current_span_ids(): the ids of an envelope come from the active span.   *)
ActiveSpan(t) == current[t]

Envelope(kind, m, status, active) ==
  [kind |-> kind, step |-> m.step, id |-> m.id, status |-> status, span |-> active,
   parent |-> IF active = 0 THEN 0 ELSE spans[active].parent,
   trace |-> IF active = 0 THEN 0 ELSE spans[active].trace,
   key |-> IF m.keyed THEN "key" ELSE "id", from |-> m.from,
   wraps |-> m.wraps]

(* A sink that raises is logged and forgotten. *)
Ship(e) == envelopes' \in {envelopes \union {e}} \union (IF SinkFails THEN {envelopes} ELSE {})
-------------------------------------------------------------------------------
MutWire(t) == NextSpan

(* The context a publish puts on the wire: the enclosing one; the Redis    *)
(* producer injects inside its own span.                                   *)
Wire(t) == IF Transport = "redis" THEN NextSpan ELSE current[t]

(* publish() of a producer, or the start of an observed publish. *)
OpenPublish(t) ==
  /\ work[t].at = "handling" /\ pub[t].at = "none" /\ t < Hops
  /\ Start("producer", current[t], t + 1)
  /\ pub' = [pub EXCEPT ![t] =
       [at |-> "sending", wire |-> Wire(t), saved |-> current[t]]]
  /\ SetCurrent(t, NextSpan)
  /\ UNCHANGED <<queue, dead, work, redrive, envelopes, published, resent>>

MutOutgoing(t, id, ctx) ==
  [id |-> id, step |-> t, ctx |-> ctx, keyed |-> TRUE, from |-> 0, wraps |-> 0]

(* The message a task publishes, with its routing attributes.              *)
Outgoing(t, id, ctx) ==
  [id |-> id, step |-> t + 1, ctx |-> ctx, keyed |-> TRUE, from |-> 0, wraps |-> 0]

(* The send, taken by the broker or not, ends with an answer, an error or a *)
(* cancellation.  A produced or a failed envelope goes out, none for a     *)
(* cancellation, and the span is closed.                                   *)
Send(t, taken, result) ==
  LET told == Outgoing(t, IF result = "none" THEN published + 1 ELSE 0, 0)
  IN /\ pub[t].at = "sending" /\ (result = "none" => taken)
     /\ IF taken
        THEN /\ published < MaxMessages /\ published' = published + 1
             /\ queue' = [queue EXCEPT ![t + 1] = @ \union
                            {Outgoing(t, published', Carried(pub[t].wire, Headers))}]
        ELSE UNCHANGED <<published, queue>>
     /\ IF result = "cancelled" \/ Transport = "redis" THEN UNCHANGED envelopes
        ELSE Ship(Envelope("producer", told, IF result = "none" THEN "success" ELSE "failed",
                         ActiveSpan(t)))
     /\ SetCurrent(t, pub[t].saved)
     /\ pub' = [pub EXCEPT ![t] = [NoPublish EXCEPT !.at = "done"]]
     /\ UNCHANGED <<spans, dead, work, redrive, resent>>
-------------------------------------------------------------------------------
InFlight(m) == \E t \in Tasks : work[t].msg.id = m.id

(* observe(...).__aenter__, or dispatch(): the CONSUMER span continues the *)
(* trace of the message's carrier, whatever span the task was in.          *)
Enter(t, m) ==
  /\ work[t].at = "idle" /\ m \in queue[t] /\ ~ InFlight(m)
  /\ Start("consumer", m.ctx, t)
  /\ work' = [work EXCEPT ![t] = [at |-> "handling", msg |-> m, span |-> NextSpan,
                                  saved |-> current[t], marked |-> "none"]]
  /\ pub' = [pub EXCEPT ![t] = NoPublish]
  /\ SetCurrent(t, NextSpan)
  /\ UNCHANGED <<queue, dead, redrive, envelopes, published, resent>>

(* The handler records the outcome itself. *)
Mark(t, status) ==
  /\ t > 0 /\ work[t].at = "handling" /\ work[t].marked = "none"
  /\ work' = [work EXCEPT ![t].marked = status]
  /\ UNCHANGED <<spans, current, queue, dead, pub, redrive, envelopes, published, resent>>

(* default_classification *)
Classify(error) == CASE error = "retryable" -> "retrying"
                     [] error = "fatal" -> "dlq"
                     [] OTHER -> "failed"

(* _resolve: the mark wins, a clean exit is a success, a cancellation no   *)
(* outcome at all.                                                         *)
Resolution(t, error) ==
  IF work[t].marked # "none" THEN work[t].marked
  ELSE CASE error = "none" -> "success"
         [] error = "cancelled" -> "none"
         [] OTHER -> Classify(error)

(* The handler ends.  The envelope goes out while the span is active, unless *)
(* the task is cancelled before; then the span is closed, in any case.     *)
Exit(t, error, emits) ==
  LET status == IF emits THEN Resolution(t, error) ELSE "none"
  IN /\ t > 0 /\ work[t].at = "handling" /\ pub[t].at # "sending"
     /\ IF status = "none" THEN UNCHANGED envelopes
        ELSE Ship(Envelope("consumer", work[t].msg, status, ActiveSpan(t)))
     /\ SetCurrent(t, work[t].saved)
     /\ work' = [work EXCEPT ![t].at = "settling", ![t].marked = status]
     /\ UNCHANGED <<spans, queue, dead, pub, redrive, published, resent>>

(* The copy dlq() sends: the whole message as its body, its carrier as the *)
(* first ten attributes after those of SQS; the id is new.                 *)
Buried(m) == LET own == IF m.from # 0 \/ ~ m.keyed THEN 0 ELSE Headers IN
  [id |-> published + 1, step |-> m.step, ctx |-> Carried(m.ctx, SystemAttributes + own),
   keyed |-> m.keyed /\ SystemAttributes + own <= MaxAttributes, from |-> m.from,
   wraps |-> m.wraps + 1]

(* What becomes of the message: removed, offered again, or diverted to the *)
(* dead-letter queue and then removed, which may fail.                     *)
Settle(t) ==
  LET m == work[t].msg
      gone == [queue EXCEPT ![t] = @ \ {m}]
  IN /\ work[t].at = "settling"
     /\ CASE work[t].marked \in {"success", "duplicate"} ->
               queue' \in {gone, queue} /\ UNCHANGED <<dead, published>>
          [] work[t].marked \in {"dlq", "failed"} ->
               /\ published < MaxMessages
               /\ \/ /\ published' = published + 1 /\ dead' = dead \union {Buried(m)}
                     /\ queue' \in {gone, queue}
                  \/ UNCHANGED <<queue, dead, published>>
          [] OTHER -> UNCHANGED <<queue, dead, published>>
     /\ work' = [work EXCEPT ![t] = Idle]
     /\ UNCHANGED <<spans, current, pub, redrive, envelopes, resent>>
-------------------------------------------------------------------------------
(* redrive(): receive a batch; send each message and then delete it.       *)
ReceiveDead(batch) ==
  /\ redrive.at = "rest" /\ batch \subseteq dead /\ batch # {} /\ Cardinality(batch) <= 10
  /\ redrive' = [at |-> "next", batch |-> batch, msg |-> NoMessage]
  /\ UNCHANGED <<spans, current, queue, dead, work, pub, envelopes, published, resent>>

(* replay_span: the root of a trace, which names the one it replays.       *)
ReplayParent(m) == 0
ReplayedFrom(m) == IF m.ctx = 0 THEN 0 ELSE spans[m.ctx].trace

(* The copy carries the replay's own trace and where it came from, nothing *)
(* else of the attributes, and the body of the dead letter.                *)
Resend(m) ==
  /\ redrive.at = "next" /\ m \in redrive.batch /\ published < MaxMessages
  /\ Start("replay", ReplayParent(m), m.step)
  /\ published' = published + 1 /\ resent' = resent \union {m.id}
  /\ queue' = [queue EXCEPT ![m.step] = @ \union
       {[id |-> published', step |-> m.step, ctx |-> NextSpan, keyed |-> FALSE,
         from |-> ReplayedFrom(m), wraps |-> m.wraps]}]
  /\ redrive' \in {[at |-> "sent", batch |-> redrive.batch, msg |-> m], AtRest}  \* its answer is lost
  /\ UNCHANGED <<current, dead, work, pub, envelopes>>

MutDeleteDead ==
  /\ redrive.at = "next" /\ redrive' = redrive
  /\ \E m \in redrive.batch : dead' = dead \ {m}
  /\ UNCHANGED <<spans, current, queue, work, pub, envelopes, published, resent>>

DeleteDead ==
  /\ redrive.at = "sent"
  /\ dead' = dead \ {redrive.msg}
  /\ redrive' = IF redrive.batch = {redrive.msg} THEN AtRest
                ELSE [at |-> "next", batch |-> redrive.batch \ {redrive.msg}, msg |-> NoMessage]
  /\ UNCHANGED <<spans, current, queue, work, pub, envelopes, published, resent>>

(* An error or the end of the process: the rest of the batch becomes       *)
(* visible again.                                                          *)
RedriveFails ==
  /\ redrive.at # "rest" /\ redrive' = AtRest
  /\ UNCHANGED <<spans, current, queue, dead, work, pub, envelopes, published, resent>>

FlowNext ==
  \/ DeleteDead \/ RedriveFails
  \/ \E batch \in SUBSET dead : ReceiveDead(batch)
  \/ \E m \in redrive.batch : Resend(m)
  \/ \E t \in Tasks :
       \/ OpenPublish(t) \/ Settle(t)
       \/ \E taken \in BOOLEAN, result \in {"none", "other", "cancelled"} : Send(t, taken, result)
       \/ \E s \in Marks : Mark(t, s)
       \/ \E error \in Errors \union {"none"}, emits \in BOOLEAN : Exit(t, error, emits)
  \/ \E t \in 1..Hops : \E m \in queue[t] : Enter(t, m)

FlowSpec == FlowInit /\ [][FlowNext]_flowVars
-------------------------------------------------------------------------------
(* One envelope at most for a delivery or a publish, with the ids of its   *)
(* own span: no span stays active beyond its block, whoever raises or is   *)
(* cancelled inside (observer.py:136-142, 201-214).                        *)
OneEnvelope ==
  /\ \A e, f \in envelopes : e.span = f.span => e = f
  /\ \A e \in envelopes : e.span # 0 /\ spans[e.span].kind = e.kind /\ spans[e.span].step = e.step

(* "a clean consumer->consumer chain" (sqs.py:67-75, observer.py:385-389): *)
(* a delivery is the child of the delivery that published the message, or  *)
(* of its replay, never of a producer span; without one it is a first hop  *)
(* or the attributes had no room.                                          *)
LineageIsConsumerChain ==
  \A e \in envelopes : e.kind = "consumer" =>
    IF e.parent = 0 THEN e.step = 1 \/ Headers >= MaxAttributes
    ELSE \/ spans[e.parent].kind = "consumer" /\ spans[e.parent].step = e.step - 1
         \/ spans[e.parent].kind = "replay" /\ spans[e.parent].step = e.step

(* A dead letter leaves the dead-letter queue only after it was sent to    *)
(* its source (redriver.py:93-96).                                         *)
RedriveLosesNothing == [][\A m \in dead \ dead' : m.id \in resent]_flowVars

(* A replay runs in a trace of its own and names the trace of the message  *)
(* it replays, if that message had one and it fits among the attributes of *)
(* the dead letter; nothing else calls itself a replay (otel.py:139-143,   *)
(* sqs.py:159-161).                                                        *)
ReplayLinked ==
  \A e \in envelopes : e.kind = "consumer" =>
    IF e.parent # 0 /\ spans[e.parent].kind = "replay"
    THEN /\ e.trace # e.from
         /\ e.step > 1 /\ SystemAttributes + Headers < MaxAttributes => e.from # 0
    ELSE e.from = 0

(* "stable across retries, redeliveries and replays of one hop"            *)
(* (envelope.py:50), and the body the publisher sent.                      *)
ReplayIsSameStep == \A e \in envelopes : e.kind = "consumer" => e.key = "key" /\ e.wraps = 0

(* What the observatory is told is what happened: one envelope for each    *)
(* span, of that span, below the delivery that published the message, or   *)
(* the replay, which names the trace it repeats (observer.py:134-245,      *)
(* sqs.py:27-36, otel.py:98-156).                                          *)
EnvelopesTellTheTruth == OneEnvelope /\ LineageIsConsumerChain /\ ReplayLinked
===============================================================================
