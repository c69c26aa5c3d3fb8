------------------------------- MODULE Webhook -------------------------------
(***************************************************************************)
(* Replicas of one WebhookConsumer (event/consumer/webhook.py) around the  *)
(* lifecycle of module Dispatch.  A message is one POST; its id is a hash  *)
(* of its body, so the POSTs of one event share their idempotency key.     *)
(* The verbs are Acknowledger's no-ops: what the sender sees is the reply. *)
(***************************************************************************)
EXTENDS Dispatch

CONSTANTS Deaths,  \* processes may die
          Stops    \* stop() may be called

ASSUME WebhookAssumption == Deaths \in BOOLEAN /\ Stops \in BOOLEAN

VARIABLE reply     \* of each POST: none yet, open, ok (200), refused (400), lost

vars == <<dispatchVars, reply>>

TypeOK ==
  /\ DispatchTypeOK
  /\ reply \in [Messages -> {None, "open", "ok", "refused", "lost"}]

Init == DispatchInit /\ reply = [m \in Messages |-> None]
-------------------------------------------------------------------------------
(* _handler: the request reaches replica c, and dispatch() is called. *)
Post(c, m) == /\ reply[m] = None
              /\ Begin(c, {m})
              /\ reply' = [reply EXCEPT ![m] = "open"]

(* A body that is no JSON, or no MessageBody, never reaches dispatch(). *)
Reject(m) == /\ reply[m] = None
             /\ reply' = [reply EXCEPT ![m] = "refused"]
             /\ UNCHANGED dispatchVars

(* One step of _dispatch short of its return. *)
Advance(c, m) ==
  /\ \/ ClaimKey(c, m) \/ ClaimRaises(c, m) \/ Receive(c, m)
     \/ \E s \in Subscribers, r \in Results : SubscriberDone(c, m, s, r)
     \/ Gathered(c, m) \/ ReleaseClaim(c, m) \/ ReleaseRaises(c, m) \/ Notify(c, m)
     \/ ReleaseAndRaise(c, m)
  /\ UNCHANGED reply

(* The verb did nothing, dispatch() returns, and the reply is 200 whatever *)
(* the outcome was.                                                        *)
Accept(c, m) == VerbReturns(c, m) /\ reply' = [reply EXCEPT ![m] = "ok"]

MutRefuse(c, m) == /\ pc[<<c, m>>] = "raised"
                   /\ Forget({<<c, m>>})
                   /\ claims' = claims \ {Claim(c, m)}
                   /\ reply' = [reply EXCEPT ![m] = "refused"]
                   /\ UNCHANGED <<subs, processed>>

(* dispatch() raised: the reply is 400. *)
Refuse(c, m) == /\ pc[<<c, m>>] = "raised"
                /\ Abandon(c, {<<c, m>>})
                /\ reply' = [reply EXCEPT ![m] = "refused"]

(* stop() clears the subscribers; requests go on being served. *)
Stop(c) == Stops /\ subs[c] # {} /\ Halt(c, {}) /\ UNCHANGED reply

ProcessDies(c) ==
  /\ Deaths /\ Running(c) # {}
  /\ Die(c)
  /\ reply' = [m \in Messages |-> IF Active(c, m) THEN "lost" ELSE reply[m]]

Wiring(c, s) == (Subscribe(c, s) \/ Unsubscribe(c, s)) /\ UNCHANGED reply

Next ==
  \/ \E m \in Messages : Reject(m)
  \/ \E c \in Consumers :
       \/ \E m \in Messages : Post(c, m) \/ Advance(c, m) \/ Accept(c, m) \/ Refuse(c, m)
       \/ \E s \in Subscribers : Wiring(c, s)
       \/ Stop(c) \/ ProcessDies(c)

Spec == Init /\ [][Next]_vars
-------------------------------------------------------------------------------
SameEvent(m, n) == HasKey(m) /\ KeyOf[m] = KeyOf[n]

(* Nobody who has only been told 400 is shut out: a claim that no request  *)
(* in progress owns is there because a POST of the event was answered 200 *)
(* or not at all.  So the sender's next POST of a refused event is not     *)
(* taken for a duplicate (base.py:237-244, webhook.py:63-67).              *)
RefusedNotShutOut ==
  \A k \in claims :
    \/ \E c \in Consumers, m \in Messages : Owns(c, m) /\ Claim(c, m) = k
    \/ \E m \in Messages : KeyOf[m] = k[2] /\ reply[m] \in {"ok", "lost"}

(* An event that was handled and answered with 200 is not handed to the    *)
(* subscribers again by a later POST of it, to whichever replica; changes  *)
(* of the subscribers meanwhile do not matter (base.py:189-199, 227-230).  *)
AnsweredNotRerun ==
  [][\A c \in Consumers, m, n \in Messages :
       /\ pc[<<c, m>>] = "receive" /\ pc'[<<c, m>>] = "gather"
       /\ SameEvent(m, n) /\ n \in processed
       => reply[n] # "ok"]_vars
===============================================================================
