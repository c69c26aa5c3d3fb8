---------------------------- MODULE Webhook_proofs ----------------------------
(* Proofs about the webhook, for any replicas, POSTs and subscribers: it runs  *)
(* the dispatch lifecycle, what was answered with 200 after being handled is   *)
(* not run again, and a sender that was told 400 is not shut out.              *)
EXTENDS Webhook, Dispatch_proofs

(* Every step of the webhook is one of the lifecycle or leaves it alone. *)
LEMMA WebhookStep == [Next]_vars => [DispatchNext]_dispatchVars
<1>1. ASSUME NEW m \in Messages, Reject(m)
      PROVE  [DispatchNext]_dispatchVars
  BY <1>1 DEF Reject
<1>2. ASSUME NEW c \in Consumers, NEW m \in Messages,
             Post(c, m) \/ Advance(c, m) \/ Accept(c, m) \/ Refuse(c, m)
      PROVE  [DispatchNext]_dispatchVars
  <2>1. CASE Post(c, m)
    <3>1. {m} \in SUBSET Messages
      OBVIOUS
    <3> QED
      BY <2>1, <3>1 DEF Post, DispatchNext
  <2>2. CASE Advance(c, m)
    BY <2>2 DEF Advance, Step, DispatchNext
  <2>3. CASE Accept(c, m)
    BY <2>3 DEF Accept, Step, DispatchNext
  <2>4. CASE Refuse(c, m)
    <3>1. {<<c, m>>} \in SUBSET Running(c)
      BY <2>4 DEF Refuse, Running, Active
    <3> QED
      BY <2>4, <3>1 DEF Refuse, DispatchNext
  <2> QED
    BY <1>2, <2>1, <2>2, <2>3, <2>4
<1>3. ASSUME NEW c \in Consumers, NEW s \in Subscribers, Wiring(c, s)
      PROVE  [DispatchNext]_dispatchVars
  BY <1>3 DEF Wiring, DispatchNext
<1>4. ASSUME NEW c \in Consumers, Stop(c) \/ ProcessDies(c)
      PROVE  [DispatchNext]_dispatchVars
  <2>1. {} \in SUBSET Running(c)
    OBVIOUS
  <2> QED
    BY <1>4, <2>1 DEF Stop, ProcessDies, DispatchNext
<1>5. CASE UNCHANGED vars
  BY <1>5 DEF vars
<1> QED
  BY <1>1, <1>2, <1>3, <1>4, <1>5 DEF Next

(* The webhook implements the lifecycle. *)
THEOREM WebhookImplementsDispatch == Spec => DispatchSpec
<1>1. Init => DispatchInit
  BY DEF Init
<1> QED
  BY <1>1, WebhookStep, PTL DEF Spec, DispatchSpec

(* The inductive invariant of the lifecycle holds, and with it OneOwner. *)
THEOREM WebhookInvariant == ASSUME Calm PROVE Spec => []IInv
<1>1. DispatchInit => IInv
  BY Inductive
<1>2. IInv /\ [DispatchNext]_dispatchVars => IInv'
  BY Inductive
<1> QED
  BY <1>1, <1>2, WebhookImplementsDispatch, PTL DEF DispatchSpec
--------------------------------------------------------------------------------
(* Each POST is dispatched once, and is open as long as its delivery lasts.    *)
PostedOnce ==
  /\ \A c \in Consumers, m \in Messages : Active(c, m) => reply[m] = "open"
  /\ \A c, d \in Consumers, m \in Messages : Active(c, m) /\ Active(d, m) => c = d
  /\ \A n \in processed : reply[n] # None

(* A delivery that every subscriber handled ends in success, or in an error    *)
(* because the subscribers have changed.                                       *)
HandledEnds ==
  \A c \in Consumers, n \in Messages :
    Active(c, n) /\ n \in processed =>
      \/ pc[<<c, n>>] \in {"notify", "ack"} /\ outcome[<<c, n>>] = "success"
      \/ pc[<<c, n>>] \in {"except", "raised"}

Served == TypeOK /\ IInv /\ PostedOnce /\ HandledEnds

(* The key of an event that was handled and answered with 200 stays claimed,   *)
(* and no owner of it is at a point where subscribers run or a claim is given  *)
(* up.                                                                         *)
AnsweredKept ==
  \A n \in processed : HasKey(n) /\ reply[n] = "ok" =>
    /\ <<"redis", KeyOf[n]>> \in claims
    /\ \A c \in Consumers, m \in Messages :
         Owns(c, m) /\ KeyOf[m] = KeyOf[n] => pc[<<c, m>>] \in {"notify", "ack"}

(* What one step of a delivery short of its return does to that delivery, and  *)
(* that it does nothing to the others.                                         *)
LEMMA AdvanceEffect ==
  ASSUME Calm, IInv, NEW c \in Consumers, NEW m \in Messages, Advance(c, m)
  PROVE  /\ reply' = reply
         /\ \A d \in Deliveries : d # <<c, m>> => pc'[d] = pc[d] /\ outcome'[d] = outcome[d]
         /\ Active(c, m) /\ Active(c, m)'
         /\ \/ UNCHANGED processed
            \/ /\ processed' = processed \union {m}
               /\ \/ pc'[<<c, m>>] = "notify" /\ outcome'[<<c, m>>] = "success"
                  \/ pc'[<<c, m>>] = "except"
         /\ pc[<<c, m>>] \in {"notify", "ack"} /\ outcome[<<c, m>>] = "success"
              => pc'[<<c, m>>] = "ack" /\ outcome'[<<c, m>>] = "success"
         /\ pc[<<c, m>>] \in {"except", "raised"} => pc'[<<c, m>>] = "raised"
         /\ Owns(c, m)' => Owns(c, m) \/ Claim(c, m) \notin claims
         /\ \/ claims \subseteq claims'
            \/ Owns(c, m) /\ pc[<<c, m>>] \in {"release", "except"} /\ claims' = claims \ {Claim(c, m)}
         /\ Owns(c, m) => Owns(c, m)' \/ Claim(c, m) \notin claims'
         /\ claims' \subseteq claims \union (IF Owns(c, m)' THEN {Claim(c, m)} ELSE {})
<1>c. <<c, m>> \in Deliveries /\ DispatchTypeOK /\ ~ StoreRaises
  BY DEF Deliveries, IInv, Calm
<1>r. reply' = reply
  BY DEF Advance
<1>1. CASE ClaimKey(c, m)
  BY <1>1, <1>c, <1>r
  DEF ClaimKey, GoTo, Owns, Active, HasKey, IInv, DispatchTypeOK, Outcomes, OutcomePending, KeyedPoints, None, Deliveries
<1>2. CASE Receive(c, m)
  BY <1>2, <1>c, <1>r
  DEF Receive, GoTo, Owns, Active, HasKey, IInv, DispatchTypeOK, OutcomePending, Outcomes, None, Deliveries
<1>3. CASE \E s \in Subscribers, r \in Results : SubscriberDone(c, m, s, r)
  BY <1>3, <1>c, <1>r
  DEF SubscriberDone, Owns, Active, HasKey, Deliveries
<1>4. CASE Gathered(c, m)
  <2>1. Collected(c, m) = {"ok"} => Resolve(Collected(c, m)) = "success"
    BY DEF Resolve
  <2>2. Resolve(Collected(c, m)) \in {"success", "retry", "failure"}
    BY DEF Resolve
  <2> QED
    BY <1>4, <1>c, <1>r, <2>1, <2>2
    DEF Gathered, GoTo, Owns, Active, HasKey, IInv, DispatchTypeOK, OutcomePending, Outcomes, None, Deliveries
<1>5. CASE ReleaseClaim(c, m)
  BY <1>5, <1>c, <1>r
  DEF ReleaseClaim, GoTo, Owns, Active, HasKey, IInv, DispatchTypeOK, KeyedPoints, OutcomePending, None, Deliveries
<1>6. CASE Notify(c, m)
  BY <1>6, <1>c, <1>r
  DEF Notify, VerbOf, GoTo, Owns, Active, HasKey, IInv, DispatchTypeOK, Outcomes, None, Deliveries
<1>7. CASE ReleaseAndRaise(c, m)
  BY <1>7, <1>c, <1>r
  DEF ReleaseAndRaise, GoTo, Owns, Active, HasKey, IInv, DispatchTypeOK, OutcomePending, None, Deliveries
<1> QED
  BY <1>1, <1>2, <1>3, <1>4, <1>5, <1>6, <1>7, <1>c
  DEF Advance, ClaimRaises, ReleaseRaises

(* What the other steps do: they end deliveries or start one, keep claims      *)
(* unless a process dies, and leave what was processed alone.                  *)
LEMMA OtherEffect ==
  ASSUME IInv, NEW c \in Consumers, NEW m \in Messages,
         \/ Post(c, m) \/ Accept(c, m) \/ Refuse(c, m) \/ Stop(c) \/ ProcessDies(c)
         \/ \E s \in Subscribers : Wiring(c, s)
  PROVE  /\ UNCHANGED processed
         /\ SharedStore => UNCHANGED claims
         /\ claims' \subseteq claims
         /\ \A d \in Deliveries :
              \/ pc'[d] = pc[d] /\ outcome'[d] = outcome[d]
              \/ pc'[d] = "idle" /\ outcome'[d] = None
              \/ /\ Post(c, m) /\ d = <<c, m>> /\ pc[d] = "idle" /\ outcome'[d] = None
                 /\ pc'[d] = IF HasKey(m) THEN "claim" ELSE "receive"
<1>c. <<c, m>> \in Deliveries /\ DispatchTypeOK
  BY DEF Deliveries, IInv
<1>1. CASE Post(c, m)
  <2>1. pc[<<c, m>>] = "idle" /\ outcome[<<c, m>>] = None
    BY <1>1, <1>c DEF Post, Begin, Active, IInv, OutcomePending
  <2>2. \A d \in Deliveries : pc'[d] = IF d = <<c, m>> THEN (IF HasKey(m) THEN "claim" ELSE "receive") ELSE pc[d]
    BY <1>1, <1>c DEF Post, Begin, Deliveries
  <2> QED
    BY <1>1, <2>1, <2>2 DEF Post, Begin
<1>2. CASE Accept(c, m)
  BY <1>2, <1>c, ForgetResets DEF Accept, VerbReturns
<1>3. CASE Refuse(c, m)
  BY <1>3, <1>c, ForgetResets DEF Refuse, Abandon
<1>4. CASE Stop(c)
  BY <1>4, <1>c, ForgetResets DEF Stop, Halt
<1>5. CASE ProcessDies(c)
  <2>1. Die(c)
    BY <1>5 DEF ProcessDies
  <2>2. claims' \subseteq claims /\ (SharedStore => claims' = claims)
    BY <2>1 DEF Die
  <2> QED
    BY <2>1, <2>2, <1>c, ForgetResets DEF Die
<1>6. CASE \E s \in Subscribers : Wiring(c, s)
  BY <1>6 DEF Wiring, Subscribe, Unsubscribe
<1> QED
  BY <1>1, <1>2, <1>3, <1>4, <1>5, <1>6

(* The reply changes as it should. *)
LEMMA ReplyType ==
  ASSUME TypeOK, DispatchTypeOK', [Next]_vars
  PROVE  TypeOK'
<1>1. \A m \in Messages, r \in {"open", "ok", "refused"} :
        [reply EXCEPT ![m] = r] \in [Messages -> {None, "open", "ok", "refused", "lost"}]
  BY DEF TypeOK
<1>2. ASSUME NEW c \in Consumers, ProcessDies(c)
      PROVE  reply' \in [Messages -> {None, "open", "ok", "refused", "lost"}]
  BY <1>2 DEF ProcessDies, TypeOK
<1> QED
  BY <1>1, <1>2 DEF TypeOK, Next, vars, Post, Reject, Advance, Accept, Refuse, Stop, Wiring

(* A step of a delivery moves that delivery only.                              *)
LEMMA AdvanceMovesOne ==
  ASSUME DispatchTypeOK, NEW c \in Consumers, NEW m \in Messages, Advance(c, m)
  PROVE  \A d \in Deliveries : d # <<c, m>> => pc'[d] = pc[d]
<1>1. UNCHANGED pc \/ \E p : GoTo(c, m, p)
  BY DEF Advance, ClaimKey, ClaimRaises, Receive, SubscriberDone, Gathered, ReleaseClaim,
         ReleaseRaises, Notify, ReleaseAndRaise
<1> QED
  BY <1>1 DEF GoTo, DispatchTypeOK

LEMMA PostedOnceStep ==
  ASSUME Calm, TypeOK, IInv, PostedOnce, [Next]_vars
  PROVE  PostedOnce'
<1>t. reply \in [Messages -> {None, "open", "ok", "refused", "lost"}]
  BY DEF TypeOK
<1>d. \A c \in Consumers, m \in Messages : <<c, m>> \in Deliveries
  BY DEF Deliveries
<1>1. ASSUME NEW m \in Messages, Reject(m)
      PROVE  PostedOnce'
  BY <1>1, <1>t DEF Reject, dispatchVars, PostedOnce, Active, None
<1>2. ASSUME NEW c \in Consumers, NEW m \in Messages, Advance(c, m)
      PROVE  PostedOnce'
  <2>1. \A b \in Consumers, n \in Messages : Active(b, n)' <=> Active(b, n)
    <3>1. \A d \in Deliveries : d # <<c, m>> => pc'[d] = pc[d]
      BY <1>2, AdvanceMovesOne DEF IInv
    <3>2. pc[<<c, m>>] # "idle" /\ pc'[<<c, m>>] # "idle"
      BY <1>2, AdvanceEffect DEF Active
    <3> QED
      BY <1>d, <3>1, <3>2 DEF Active
  <2>2. processed' \subseteq processed \union {m} /\ Active(c, m) /\ reply' = reply
    BY <1>2, AdvanceEffect
  <2> QED
    BY <2>1, <2>2 DEF PostedOnce, None
<1>3. ASSUME NEW c \in Consumers, NEW m \in Messages, Post(c, m)
      PROVE  PostedOnce'
  <2>1. \A b \in Consumers, n \in Messages : Active(b, n)' => Active(b, n) \/ (b = c /\ n = m)
    BY <1>3, <1>d, OtherEffect DEF Active
  <2>2. reply[m] = None /\ reply' = [reply EXCEPT ![m] = "open"] /\ processed' = processed
    BY <1>3, OtherEffect DEF Post
  <2> QED
    BY <2>1, <2>2, <1>t DEF PostedOnce, None
<1>4. ASSUME NEW c \in Consumers, NEW m \in Messages, Accept(c, m) \/ Refuse(c, m)
      PROVE  PostedOnce'
  <2>1. \A b \in Consumers, n \in Messages : Active(b, n)' => Active(b, n) /\ ~ (b = c /\ n = m)
    BY <1>4, <1>d, OtherEffect, ForgetResets
    DEF Active, Accept, Refuse, VerbReturns, Abandon, IInv, Post
  <2>2. Active(c, m) /\ processed' = processed
    BY <1>4, OtherEffect DEF Active, Accept, Refuse, VerbReturns, AtVerb
  <2>3. reply' = [reply EXCEPT ![m] = "ok"] \/ reply' = [reply EXCEPT ![m] = "refused"]
    BY <1>4 DEF Accept, Refuse
  <2>4. processed \subseteq Messages
    BY DEF IInv, DispatchTypeOK
  <2> QED
    BY <2>1, <2>2, <2>3, <2>4, <1>t DEF PostedOnce, None
<1>5. ASSUME NEW c \in Consumers, Stop(c) \/ \E s \in Subscribers : Wiring(c, s)
      PROVE  PostedOnce'
  <2>1. \A b \in Consumers, n \in Messages : Active(b, n)' => Active(b, n)
    BY <1>5, <1>d, ForgetResets DEF Active, Stop, Halt, Wiring, Subscribe, Unsubscribe, IInv
  <2>2. processed' = processed /\ reply' = reply
    BY <1>5 DEF Stop, Halt, Wiring, Subscribe, Unsubscribe
  <2> QED
    BY <2>1, <2>2 DEF PostedOnce
<1>6. ASSUME NEW c \in Consumers, ProcessDies(c)
      PROVE  PostedOnce'
  <2>1. \A b \in Consumers, n \in Messages : Active(b, n)' => Active(b, n) /\ b # c
    BY <1>6, <1>d, ForgetResets DEF Active, ProcessDies, Die, IInv
  <2>2. processed' = processed
    BY <1>6 DEF ProcessDies, Die
  <2>3. \A n \in Messages : reply'[n] = IF Active(c, n) THEN "lost" ELSE reply[n]
    BY <1>6 DEF ProcessDies
  <2>4. processed \subseteq Messages
    BY DEF IInv, DispatchTypeOK
  <2> QED
    BY <2>1, <2>2, <2>3, <2>4 DEF PostedOnce, None
<1>7. CASE UNCHANGED vars
  BY <1>7 DEF vars, dispatchVars, PostedOnce, Active
<1> QED
  BY <1>1, <1>2, <1>3, <1>4, <1>5, <1>6, <1>7 DEF Next

LEMMA HandledEndsStep ==
  ASSUME Calm, TypeOK, IInv, PostedOnce, HandledEnds, [Next]_vars
  PROVE  HandledEnds'
<1>d. \A c \in Consumers, m \in Messages : <<c, m>> \in Deliveries
  BY DEF Deliveries
<1>1. ASSUME NEW m \in Messages, Reject(m)
      PROVE  HandledEnds'
  BY <1>1 DEF Reject, dispatchVars, HandledEnds, Active
<1>2. ASSUME NEW c \in Consumers, NEW m \in Messages, Advance(c, m)
      PROVE  HandledEnds'
  <2> SUFFICES ASSUME NEW b \in Consumers, NEW n \in Messages, Active(b, n)', n \in processed'
               PROVE  \/ pc'[<<b, n>>] \in {"notify", "ack"} /\ outcome'[<<b, n>>] = "success"
                      \/ pc'[<<b, n>>] \in {"except", "raised"}
    BY DEF HandledEnds
  <2>1. CASE b = c /\ n = m
    <3>1. CASE m \in processed
      BY <2>1, <3>1, <1>2, AdvanceEffect DEF HandledEnds
    <3>2. CASE m \notin processed
      BY <2>1, <3>2, <1>2, AdvanceEffect
    <3> QED
      BY <3>1, <3>2
  <2>2. CASE <<b, n>> # <<c, m>>
    <3>0. /\ \A d \in Deliveries : d # <<c, m>> => pc'[d] = pc[d] /\ outcome'[d] = outcome[d]
          /\ Active(c, m)
          /\ processed' \subseteq processed \union {m}
      BY <1>2, AdvanceEffect
    <3>1. pc'[<<b, n>>] = pc[<<b, n>>] /\ outcome'[<<b, n>>] = outcome[<<b, n>>] /\ Active(b, n)
      BY <3>0, <2>2, <1>d DEF Active
    <3>2. n # m
      BY <3>0, <3>1, <2>2 DEF PostedOnce
    <3>3. n \in processed
      BY <3>0, <3>2
    <3> QED
      BY <3>1, <3>3 DEF HandledEnds
  <2> QED
    BY <2>1, <2>2
<1>3. ASSUME NEW c \in Consumers, NEW m \in Messages,
             \/ Post(c, m) \/ Accept(c, m) \/ Refuse(c, m) \/ Stop(c) \/ ProcessDies(c)
             \/ \E s \in Subscribers : Wiring(c, s)
      PROVE  HandledEnds'
  <2> SUFFICES ASSUME NEW b \in Consumers, NEW n \in Messages, Active(b, n)', n \in processed'
               PROVE  \/ pc'[<<b, n>>] \in {"notify", "ack"} /\ outcome'[<<b, n>>] = "success"
                      \/ pc'[<<b, n>>] \in {"except", "raised"}
    BY DEF HandledEnds
  <2>1. n \in processed
    BY <1>3, OtherEffect
  <2>2. ~ (Post(c, m) /\ <<b, n>> = <<c, m>>)
    BY <2>1 DEF Post, PostedOnce
  <2>3. pc'[<<b, n>>] = pc[<<b, n>>] /\ outcome'[<<b, n>>] = outcome[<<b, n>>]
    BY <1>3, <1>d, <2>2, OtherEffect DEF Active
  <2> QED
    BY <2>1, <2>3 DEF HandledEnds, Active
<1>4. CASE UNCHANGED vars
  BY <1>4 DEF vars, dispatchVars, HandledEnds, Active
<1>5. CASE Messages = {}
  BY <1>5 DEF HandledEnds
<1> QED
  BY <1>1, <1>2, <1>3, <1>4, <1>5 DEF Next

(* Served is an inductive invariant of the webhook. *)
LEMMA ServedInductive == ASSUME Calm PROVE (Init => Served) /\ (Served /\ [Next]_vars => Served')
<1>1. Init => Served
  <2>1. Init => IInv
    BY Inductive DEF Init
  <2>2. Init => TypeOK
    BY <2>1 DEF Init, TypeOK, IInv
  <2> QED
    BY <2>1, <2>2
    DEF Init, DispatchInit, Served, PostedOnce, HandledEnds, Active, Deliveries
<1>2. ASSUME Served, [Next]_vars
      PROVE  Served'
  <2>1. IInv'
    BY <1>2, WebhookStep, Inductive DEF Served
  <2>2. TypeOK'
    BY <1>2, <2>1, ReplyType DEF Served, IInv
  <2> QED
    BY <1>2, <2>1, <2>2, PostedOnceStep, HandledEndsStep DEF Served
<1> QED
  BY <1>1, <1>2
--------------------------------------------------------------------------------
LEMMA AnsweredStep ==
  ASSUME Calm, SharedStore, Served, AnsweredKept, [Next]_vars
  PROVE  AnsweredKept'
<1>d. /\ \A c \in Consumers, m \in Messages : <<c, m>> \in Deliveries
      /\ \A c \in Consumers, m \in Messages : Claim(c, m) = <<"redis", KeyOf[m]>>
  BY DEF Deliveries, Claim, StoreOf
<1>i. IInv /\ PostedOnce /\ HandledEnds /\ TypeOK /\ processed \subseteq Messages
  BY DEF Served, IInv, DispatchTypeOK
<1>1. ASSUME NEW m \in Messages, Reject(m)
      PROVE  AnsweredKept'
  BY <1>1, <1>i DEF Reject, dispatchVars, AnsweredKept, Owns, TypeOK
<1>2. ASSUME NEW c \in Consumers, NEW m \in Messages, Advance(c, m)
      PROVE  AnsweredKept'
  <2> SUFFICES ASSUME NEW n \in processed', HasKey(n), reply'[n] = "ok"
               PROVE  /\ <<"redis", KeyOf[n]>> \in claims'
                      /\ \A b \in Consumers, k \in Messages :
                           Owns(b, k)' /\ KeyOf[k] = KeyOf[n] => pc'[<<b, k>>] \in {"notify", "ack"}
    BY DEF AnsweredKept, HasKey
  <2>1. /\ reply' = reply
        /\ Active(c, m)
        /\ processed' \subseteq processed \union {m}
        /\ Owns(c, m)' => Owns(c, m) \/ Claim(c, m) \notin claims
        /\ \A d \in Deliveries : d # <<c, m>> => pc'[d] = pc[d] /\ outcome'[d] = outcome[d]
    BY <1>2, <1>i, AdvanceEffect
  <2>2. n \in processed /\ reply[n] = "ok"
    BY <2>1, <1>i DEF PostedOnce
  <2>3. <<"redis", KeyOf[n]>> \in claims
    BY <2>2 DEF AnsweredKept
  <2>4. Owns(c, m) /\ KeyOf[m] = KeyOf[n] => pc[<<c, m>>] \in {"notify", "ack"}
    BY <2>2 DEF AnsweredKept
  <2>5. <<"redis", KeyOf[n]>> \in claims'
    <3>1. \/ claims \subseteq claims'
          \/ Owns(c, m) /\ pc[<<c, m>>] \in {"release", "except"} /\ claims' = claims \ {Claim(c, m)}
      BY <1>2, <1>i, AdvanceEffect
    <3> QED
      BY <3>1, <2>3, <2>4, <1>d
  <2>6. ASSUME NEW b \in Consumers, NEW k \in Messages, Owns(b, k)', KeyOf[k] = KeyOf[n]
        PROVE  pc'[<<b, k>>] \in {"notify", "ack"}
    <3>1. CASE <<b, k>> = <<c, m>>
      <4>1. Owns(c, m) /\ pc[<<c, m>>] \in {"notify", "ack"}
        BY <3>1, <2>6, <2>1, <2>3, <2>4, <1>d
      <4>2. Notify(c, m)
        BY <4>1, <1>2, <1>d
        DEF Advance, ClaimKey, ClaimRaises, Receive, SubscriberDone, Gathered, ReleaseClaim,
            ReleaseRaises, ReleaseAndRaise
      <4>3. pc'[<<c, m>>] = VerbOf(outcome[<<c, m>>]) /\ outcome' = outcome
        BY <4>2, <1>d, <1>i DEF Notify, GoTo, IInv, DispatchTypeOK
      <4>4. VerbOf(outcome[<<c, m>>]) = "ack"
        <5>1. outcome[<<c, m>>] \notin {"retry", "failure"}
          BY <4>1 DEF Owns, None
        <5> QED
          BY <5>1 DEF VerbOf
      <4> QED
        BY <3>1, <4>3, <4>4
    <3>2. CASE <<b, k>> # <<c, m>>
      <4>1. pc'[<<b, k>>] = pc[<<b, k>>] /\ Owns(b, k)
        BY <3>2, <2>1, <2>6, <1>d DEF Owns, HasKey
      <4> QED
        BY <4>1, <2>2, <2>6 DEF AnsweredKept
    <3> QED
      BY <3>1, <3>2
  <2> QED
    BY <2>5, <2>6
<1>3. ASSUME NEW c \in Consumers, NEW m \in Messages, Accept(c, m)
      PROVE  AnsweredKept'
  <2> SUFFICES ASSUME NEW n \in processed', HasKey(n), reply'[n] = "ok"
               PROVE  /\ <<"redis", KeyOf[n]>> \in claims'
                      /\ \A b \in Consumers, k \in Messages :
                           Owns(b, k)' /\ KeyOf[k] = KeyOf[n] => pc'[<<b, k>>] \in {"notify", "ack"}
    BY DEF AnsweredKept, HasKey
  <2>1. /\ processed' = processed /\ claims' = claims
        /\ \A d \in Deliveries : pc'[d] # "idle" => pc'[d] = pc[d] /\ outcome'[d] = outcome[d]
        /\ pc'[<<c, m>>] = "idle"
    BY <1>3, <1>d, <1>i, ForgetResets DEF Accept, VerbReturns, IInv
  <2>2. \A b \in Consumers, k \in Messages :
          Owns(b, k)' => Owns(b, k) /\ pc'[<<b, k>>] = pc[<<b, k>>] /\ <<b, k>> # <<c, m>>
    BY <2>1, <1>d DEF Owns, HasKey
  <2>3. CASE n = m
    <3>1. Owns(c, m)
      <4>1. Active(c, m) /\ pc[<<c, m>>] \in {"ack", "retry", "dlq"}
        BY <1>3 DEF Accept, VerbReturns, AtVerb, Active
      <4>2. pc[<<c, m>>] = "ack" /\ outcome[<<c, m>>] = "success"
        BY <4>1, <1>i, <2>1, <2>3 DEF HandledEnds
      <4> QED
        BY <4>2, <2>3 DEF Owns
    <3>2. <<"redis", KeyOf[n]>> \in claims
      BY <3>1, <2>3, <1>i, <1>d DEF IInv, OwnersClaim
    <3>3. \A b \in Consumers, k \in Messages : Owns(b, k) /\ KeyOf[k] = KeyOf[m] => <<b, k>> = <<c, m>>
      <4>1. \A d, e \in Deliveries :
              Owns(d[1], d[2]) /\ Owns(e[1], e[2]) /\ Claim(d[1], d[2]) = Claim(e[1], e[2]) => d = e
        BY <1>i DEF IInv, OneOwner
      <4> QED
        BY <4>1, <3>1, <1>d
    <3> QED
      BY <2>1, <2>2, <2>3, <3>2, <3>3
  <2>4. CASE n # m
    <3>1. n \in processed /\ reply[n] = "ok"
      BY <2>1, <2>4, <1>3, <1>i DEF Accept, TypeOK
    <3> QED
      BY <2>1, <2>2, <3>1 DEF AnsweredKept
  <2> QED
    BY <2>3, <2>4
<1>4. ASSUME NEW c \in Consumers, NEW m \in Messages,
             \/ Post(c, m) \/ Refuse(c, m) \/ Stop(c) \/ ProcessDies(c)
             \/ \E s \in Subscribers : Wiring(c, s)
      PROVE  AnsweredKept'
  <2>1. /\ processed' = processed /\ claims' = claims
        /\ \A d \in Deliveries :
             \/ pc'[d] = pc[d] /\ outcome'[d] = outcome[d]
             \/ pc'[d] = "idle"
             \/ Post(c, m) /\ d = <<c, m>> /\ pc'[d] = IF HasKey(m) THEN "claim" ELSE "receive"
    BY <1>4, <1>i, OtherEffect
  <2>2. \A b \in Consumers, k \in Messages :
          Owns(b, k)' => Owns(b, k) /\ pc'[<<b, k>>] = pc[<<b, k>>]
    BY <2>1, <1>d DEF Owns, HasKey
  <2>3. \A n \in Messages : reply'[n] = "ok" => reply[n] = "ok"
    BY <1>4, <1>i DEF Post, Refuse, Stop, ProcessDies, Wiring, TypeOK
  <2> QED
    BY <2>1, <2>2, <2>3, <1>i DEF AnsweredKept, HasKey
<1>5. CASE UNCHANGED vars
  BY <1>5 DEF vars, dispatchVars, AnsweredKept, Owns, HasKey
<1>6. CASE Messages = {}
  <2>1. processed' = {}
    BY <1>6, WebhookStep, Inductive DEF Served, IInv, DispatchTypeOK
  <2> QED
    BY <2>1 DEF AnsweredKept
<1> QED
  BY <1>1, <1>2, <1>3, <1>4, <1>5, <1>6 DEF Next

(* What was handled and answered with 200 is not run again by any later POST   *)
(* to any replica that shares the store, whatever the subscribers do meanwhile.*)
THEOREM AnsweredNotRerunHolds == ASSUME Calm, SharedStore PROVE Spec => AnsweredNotRerun
<1>1. Init => Served /\ AnsweredKept
  BY ServedInductive DEF Init, DispatchInit, AnsweredKept
<1>2. Served /\ AnsweredKept /\ [Next]_vars => (Served /\ AnsweredKept)'
  BY ServedInductive, AnsweredStep
<1>3. AnsweredKept => [\A c \in Consumers, m, n \in Messages :
                         /\ pc[<<c, m>>] = "receive" /\ pc'[<<c, m>>] = "gather"
                         /\ SameEvent(m, n) /\ n \in processed
                         => reply[n] # "ok"]_vars
  BY DEF AnsweredKept, SameEvent, Owns, HasKey
<1> QED
  BY <1>1, <1>2, <1>3, PTL DEF Spec, AnsweredNotRerun
--------------------------------------------------------------------------------
LEMMA RefusedStep ==
  ASSUME Calm, Served, RefusedNotShutOut, [Next]_vars
  PROVE  RefusedNotShutOut'
<1>d. \A c \in Consumers, m \in Messages : <<c, m>> \in Deliveries
  BY DEF Deliveries
<1>i. IInv /\ PostedOnce /\ HandledEnds /\ TypeOK
  BY DEF Served
<1>c. \A c \in Consumers, m \in Messages : Claim(c, m)' = Claim(c, m)
  BY DEF Claim, StoreOf
<1>1. ASSUME NEW m \in Messages, Reject(m)
      PROVE  RefusedNotShutOut'
  <2>1. \A b \in Consumers, k \in Messages : Owns(b, k)' <=> Owns(b, k)
    BY <1>1 DEF Reject, dispatchVars, Owns, HasKey
  <2>2. claims' = claims
    BY <1>1 DEF Reject, dispatchVars
  <2>3. \A k \in Messages : reply[k] \in {"ok", "lost"} => reply'[k] = reply[k]
    BY <1>1, <1>i DEF Reject, TypeOK, None
  <2> QED
    BY <2>1, <2>2, <2>3, <1>c DEF RefusedNotShutOut
<1>2. ASSUME NEW c \in Consumers, NEW m \in Messages, Advance(c, m)
      PROVE  RefusedNotShutOut'
  <2>1. /\ reply' = reply
        /\ Owns(c, m) => Owns(c, m)' \/ Claim(c, m) \notin claims'
        /\ \A d \in Deliveries : d # <<c, m>> => pc'[d] = pc[d] /\ outcome'[d] = outcome[d]
        /\ claims' \subseteq claims \union (IF Owns(c, m)' THEN {Claim(c, m)} ELSE {})
    BY <1>2, <1>i, AdvanceEffect
  <2>2. \A b \in Consumers, k \in Messages : Owns(b, k) => Owns(b, k)' \/ Claim(b, k) \notin claims'
    BY <2>1, <1>d DEF Owns, HasKey
  <2> QED
    BY <2>1, <2>2, <1>c DEF RefusedNotShutOut
<1>3. ASSUME NEW c \in Consumers, NEW m \in Messages,
             \/ Post(c, m) \/ Accept(c, m) \/ Refuse(c, m) \/ Stop(c) \/ ProcessDies(c)
             \/ \E s \in Subscribers : Wiring(c, s)
      PROVE  RefusedNotShutOut'
  <2>1. claims' \subseteq claims
    BY <1>3, <1>i, OtherEffect
  <2>2. \A n \in Messages : reply[n] \in {"ok", "lost"} => reply'[n] \in {"ok", "lost"}
    <3>1. CASE Refuse(c, m)
      <4>1. reply[m] = "open"
        BY <3>1, <1>i DEF Refuse, PostedOnce, Active
      <4> QED
        BY <3>1, <4>1, <1>i DEF Refuse, TypeOK
    <3> QED
      BY <1>3, <3>1, <1>i DEF Post, Accept, Stop, ProcessDies, Wiring, TypeOK, None
  <2>3. ASSUME NEW b \in Consumers, NEW k \in Messages, Owns(b, k)
        PROVE  Owns(b, k)' \/ reply'[k] \in {"ok", "lost"}
    <3>1. CASE pc'[<<b, k>>] = pc[<<b, k>>] /\ outcome'[<<b, k>>] = outcome[<<b, k>>]
      BY <2>3, <3>1 DEF Owns, HasKey
    <3>2. CASE Accept(c, m) \/ Refuse(c, m)
      <4>1. <<b, k>> # <<c, m>> => pc'[<<b, k>>] = pc[<<b, k>>] /\ outcome'[<<b, k>>] = outcome[<<b, k>>]
        BY <3>2, <1>d, <1>i, ForgetResets DEF Accept, Refuse, VerbReturns, Abandon, IInv
      <4>2. ~ (<<b, k>> = <<c, m>> /\ Refuse(c, m))
        BY <2>3 DEF Refuse, Owns
      <4>3. <<b, k>> = <<c, m>> /\ Accept(c, m) => reply'[k] = "ok"
        BY <1>i DEF Accept, TypeOK
      <4> QED
        BY <3>1, <3>2, <4>1, <4>2, <4>3
    <3>3. CASE Post(c, m)
      <4>1. <<b, k>> # <<c, m>>
        BY <3>3, <2>3, <1>i DEF Post, PostedOnce, Active, Owns, None
      <4>2. pc'[<<b, k>>] = pc[<<b, k>>] /\ outcome'[<<b, k>>] = outcome[<<b, k>>]
        BY <4>1, <3>3, <1>d DEF Post, Begin
      <4> QED
        BY <3>1, <4>2
    <3>4. CASE Stop(c) \/ \E s \in Subscribers : Wiring(c, s)
      <4>1. pc'[<<b, k>>] = pc[<<b, k>>] /\ outcome'[<<b, k>>] = outcome[<<b, k>>]
        BY <3>4, <1>d, <1>i, ForgetResets DEF Stop, Halt, Wiring, Subscribe, Unsubscribe, IInv
      <4> QED
        BY <3>1, <4>1
    <3>5. CASE ProcessDies(c)
      <4>1. b # c => pc'[<<b, k>>] = pc[<<b, k>>] /\ outcome'[<<b, k>>] = outcome[<<b, k>>]
        BY <3>5, <1>d, <1>i, ForgetResets DEF ProcessDies, Die, IInv
      <4>2. b = c => reply'[k] = "lost"
        BY <3>5, <2>3 DEF ProcessDies, Active, Owns
      <4> QED
        BY <3>1, <4>1, <4>2
    <3> QED
      BY <1>3, <3>2, <3>3, <3>4, <3>5
  <2>4. \A b \in Consumers, k \in Messages : KeyOf[k] = Claim(b, k)[2]
    BY DEF Claim
  <2> QED
    BY <2>1, <2>2, <2>3, <2>4, <1>c DEF RefusedNotShutOut
<1>4. CASE UNCHANGED vars
  BY <1>4, <1>c DEF vars, dispatchVars, RefusedNotShutOut, Owns, HasKey
<1>5. CASE Messages = {}
  <2>1. [DispatchNext]_dispatchVars
    BY WebhookStep
  <2>2. \A c \in Consumers, s \in Subscribers : Wiring(c, s) => claims' = claims
    BY DEF Wiring, Subscribe, Unsubscribe
  <2>3. claims' \subseteq claims
    BY <1>5, <2>2 DEF Next, Stop, ProcessDies, Halt, Die, vars, dispatchVars
  <2>4. claims = {}
    BY <1>5 DEF RefusedNotShutOut
  <2> QED
    BY <2>3, <2>4 DEF RefusedNotShutOut
<1> QED
  BY <1>1, <1>2, <1>3, <1>4, <1>5 DEF Next

(* Whoever has only been told 400 may POST the event again and is served.      *)
THEOREM RefusedNotShutOutHolds == ASSUME Calm PROVE Spec => []RefusedNotShutOut
<1>1. Init => Served /\ RefusedNotShutOut
  BY ServedInductive DEF Init, DispatchInit, RefusedNotShutOut
<1>2. Served /\ RefusedNotShutOut /\ [Next]_vars => (Served /\ RefusedNotShutOut)'
  BY ServedInductive, RefusedStep
<1> QED
  BY <1>1, <1>2, PTL DEF Spec
===============================================================================
