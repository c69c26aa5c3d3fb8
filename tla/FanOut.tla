------------------------------- MODULE FanOut -------------------------------
(***************************************************************************)
(* The two compositions the examples ship: one event fanned out into       *)
(* branches (examples/event/sqs_fanout) and a chain of services that ends  *)
(* in a flaky one (examples/sqs_localstack_saga.py).  Each service is a    *)
(* consumer with a claim store of its own in memory; its handler publishes *)
(* to the queues of the next services.  A delivery is taken as what the    *)
(* consumer promises for handlers that end within the visibility timeout:  *)
(* a duplicate of a claimed key is removed, a failed delivery gives up its *)
(* claim and comes again, a dead letter is sent before the message goes.   *)
(***************************************************************************)
EXTENDS Integers, Sequences, FiniteSets

CONSTANTS Orders,
          Branches,    \* services the fan-out reaches, in order
          MaxCopies,   \* bound: copies of one message
          MaxFaults    \* bound: failed calls and crashes

ASSUME FanOutAssumption ==
  /\ Branches \in Seq({"shipping-svc", "billing-svc", "loyalty-svc", "receipt-svc"})
  /\ MaxCopies \in Nat /\ MaxFaults \in Nat

VARIABLES demo,       \* "fanout" or "saga"
          cursed,     \* per service: orders its backend refuses, by the hash of this process
          queues,     \* messages: service, order, number of the copy, receives
          copies,     \* copies sent so far, per service and order
          busy,       \* deliveries being handled, and how many branches are done
          held,       \* <<service, key>> claimed
          successes,    \* history: successes per service and order
          deadLetters,  \* <<service, order, receives>> of the dead-letter queue
          faults      \* history: per service

fanVars == <<demo, cursed, queues, copies, busy, held, successes, deadLetters, faults>>

Chain == <<"booking-svc", "payment-svc", "shipment-svc", "email-worker">>
Services == {"order-svc"} \union {Branches[i] : i \in DOMAIN Branches} \union {Chain[i] : i \in DOMAIN Chain}
Source == IF demo = "fanout" THEN "order-svc" ELSE Chain[1]

(* FLOW and BRANCHES: where the handler of a service publishes to. *)
NextServices(s) ==
  IF s = "order-svc" THEN Branches
  ELSE IF s \in {Chain[1], Chain[2], Chain[3]}
       THEN <<Chain[1 + CHOOSE i \in 1..3 : Chain[i] = s]>> ELSE << >>

(* The services with a dlq_url, and when their handler gives up.           *)
Flaky == {"loyalty-svc", "email-worker"}
GiveUp(s) == IF s = "loyalty-svc" THEN 3 ELSE 4

TotalFaults == Cardinality({f \in Services \X (1..MaxFaults) : f[2] <= faults[f[1]]})

FanOutTypeOK ==
  /\ demo \in {"fanout", "saga"} /\ cursed \in [Flaky -> SUBSET Orders]
  /\ \A m \in queues : /\ m.service \in Services /\ m.copy \in 1..copies[m.service][m.order]
                       /\ m.receives \in 0..GiveUp(m.service) + MaxFaults
  /\ copies \in [Services -> [Orders -> 0..MaxCopies]]
  /\ \A w \in busy : w.msg \in queues /\ w.done \in 0..Len(NextServices(w.msg.service))
                     /\ \E h \in held : h[1] = w.msg.service
  /\ \A d \in deadLetters : d[1] \in Flaky /\ d[3] >= GiveUp(d[1])

FanOutInit ==
  /\ demo \in {"fanout", "saga"} /\ cursed \in [Flaky -> SUBSET Orders]
  /\ queues = {} /\ busy = {} /\ held = {} /\ deadLetters = {}
  /\ copies = [s \in Services |-> [o \in Orders |-> 0]] /\ successes = copies
  /\ faults = [s \in Services |-> 0]
-------------------------------------------------------------------------------
MutKeyOf(m) == <<m.order, m.copy>>

(* idempotency_key(): of the event, not of the message that carries it. *)
KeyOf(m) == m.order

SendTo(s, o) ==
  /\ copies[s][o] < MaxCopies
  /\ copies' = [copies EXCEPT ![s][o] = @ + 1]

Carry(s, o) == [service |-> s, order |-> o, copy |-> copies[s][o] + 1, receives |-> 0]

(* The driver emits an order, and now and then the same again. *)
Emit(o) ==
  /\ SendTo(Source, o) /\ queues' = queues \union {Carry(Source, o)}
  /\ copies[Source][o] < 2
  /\ UNCHANGED <<demo, cursed, busy, held, successes, deadLetters, faults>>

Faulty(s, fails) ==
  /\ fails => TotalFaults < MaxFaults
  /\ faults' = IF fails THEN [faults EXCEPT ![s] = @ + 1] ELSE faults

(* A message is received: claimed, or a duplicate, which is removed.       *)
Receive(m, fails) ==
  LET got == [m EXCEPT !.receives = @ + 1]
      claim == <<m.service, KeyOf(m)>>
  IN /\ \A w \in busy : w.msg # m
     /\ IF claim \in held
        THEN /\ queues' = (queues \ {m}) \union (IF fails THEN {got} ELSE {})
             /\ Faulty(m.service, fails) /\ UNCHANGED <<held, busy>>
        ELSE /\ ~ fails /\ held' = held \union {claim}
             /\ queues' = (queues \ {m}) \union {got}
             /\ busy' = busy \union {[msg |-> got, done |-> 0]} /\ UNCHANGED faults
     /\ UNCHANGED <<demo, cursed, copies, successes, deadLetters>>

Left(w) == busy \ {w}
Released(w) == held \ {<<w.msg.service, KeyOf(w.msg)>>}

(* The handler publishes to the next branch. *)
PublishBranch(w) ==
  LET s == w.msg.service
      to == NextServices(s)[w.done + 1]
  IN /\ w.done < Len(NextServices(s)) /\ SendTo(to, w.msg.order)
     /\ queues' = queues \union {Carry(to, w.msg.order)}
     /\ busy' = Left(w) \union {[w EXCEPT !.done = @ + 1]}
     /\ UNCHANGED <<demo, cursed, held, successes, deadLetters, faults>>

(* A publish raises, whether the broker took the message or not: the       *)
(* delivery fails, there is no dead-letter queue, the whole event comes    *)
(* again.                                                                  *)
PublishRaises(w, taken) ==
  LET s == w.msg.service
      to == NextServices(s)[w.done + 1]
  IN /\ w.done < Len(NextServices(s)) /\ Faulty(s, TRUE)
     /\ IF taken THEN SendTo(to, w.msg.order) /\ queues' = queues \union {Carry(to, w.msg.order)}
        ELSE UNCHANGED <<copies, queues>>
     /\ busy' = Left(w) /\ held' = Released(w)
     /\ UNCHANGED <<demo, cursed, successes, deadLetters>>

Cursed(w) == w.msg.service \in Flaky /\ w.msg.order \in cursed[w.msg.service]

MutSucceeds(w) == w.done >= Len(NextServices(w.msg.service)) - 1

Succeeds(w) == w.done = Len(NextServices(w.msg.service))

(* Handled: the claim stays; an acknowledgement that fails gives it up.    *)
Handled(w, fails) ==
  LET s == w.msg.service IN
  /\ Succeeds(w) /\ ~ Cursed(w) /\ Faulty(s, fails)
  /\ successes' = [successes EXCEPT ![s][w.msg.order] = @ + 1]
  /\ busy' = Left(w)
  /\ IF fails THEN held' = Released(w) /\ UNCHANGED queues
     ELSE queues' = queues \ {w.msg} /\ UNCHANGED held
  /\ UNCHANGED <<demo, cursed, copies, deadLetters>>

GivesUpNow(w) == w.msg.receives >= GiveUp(w.msg.service)

(* The backend is busy: retried until the receives are used up, then sent  *)
(* to the dead-letter queue and removed, either of which may fail.         *)
Refused(w, sent, removed) ==
  LET s == w.msg.service IN
  /\ Cursed(w) /\ busy' = Left(w) /\ held' = Released(w)
  /\ IF GivesUpNow(w)
     THEN /\ Faulty(s, ~ sent \/ ~ removed) /\ (removed => sent)
          /\ deadLetters' = IF sent THEN deadLetters \union {<<s, w.msg.order, w.msg.receives>>} ELSE deadLetters
          /\ queues' = IF removed THEN queues \ {w.msg} ELSE queues
     ELSE sent /\ removed /\ UNCHANGED <<deadLetters, queues, faults>>
  /\ UNCHANGED <<demo, cursed, copies, successes>>

(* The service restarts: its claims are gone, and str hashes are seeded    *)
(* anew, so that other orders are refused.                                 *)
RestartService(s) ==
  /\ Faulty(s, TRUE)
  /\ busy' = {w \in busy : w.msg.service # s} /\ held' = {h \in held : h[1] # s}
  /\ IF s \in Flaky THEN \E now \in SUBSET Orders : cursed' = [cursed EXCEPT ![s] = now]
     ELSE UNCHANGED cursed
  /\ UNCHANGED <<demo, queues, copies, successes, deadLetters>>

FanOutNext ==
  \/ \E o \in Orders : Emit(o)
  \/ \E m \in queues, fails \in BOOLEAN : Receive(m, fails)
  \/ \E w \in busy : PublishBranch(w) \/ \E b \in BOOLEAN : PublishRaises(w, b) \/ Handled(w, b)
  \/ \E w \in busy, sent \in BOOLEAN, removed \in BOOLEAN : Refused(w, sent, removed)
  \/ \E s \in Services : RestartService(s)

FanOutSpec == FanOutInit /\ [][FanOutNext]_fanVars
-------------------------------------------------------------------------------
Waits(s, o) == \E m \in queues : m.service = s /\ m.order = o

(* Nothing gets lost along the way: an event that was sent to a service    *)
(* waits there, was handled or is a dead letter, and once it was handled   *)
(* every next service has been sent it, whatever was sent twice, failed    *)
(* half-way or was interrupted (subscribers.py:53-64,                      *)
(* sqs_localstack_saga.py:111-137).                                        *)
EveryBranchReached ==
  \A s \in Services, o \in Orders :
    /\ copies[s][o] > 0 => Waits(s, o) \/ successes[s][o] > 0 \/ \E d \in deadLetters : d[1] = s /\ d[2] = o
    /\ successes[s][o] > 0 => \A i \in DOMAIN NextServices(s) : copies[NextServices(s)[i]][o] > 0

(* A fan-out that is repeated in full is still handled once per branch: a  *)
(* service handles an order again only after a fault of its own, however   *)
(* many copies the service before it or the driver has sent                *)
(* ("idempotency should catch it", sqs_localstack_saga.py:221).            *)
RepeatsNeedOwnFault == \A s \in Services, o \in Orders : successes[s][o] <= 1 + faults[s]
===============================================================================
