------------------------------ MODULE MCWebhook ------------------------------
(* Two replicas of a webhook with one Redis store; three POSTs, two of which *)
(* carry the same event.                                                     *)
EXTENDS Webhook, TLC

CONSTANTS c1, c2, m1, m2, m3, s1, s2, k1, k2

MCConsumers == {c1, c2}
MCMessages == {m1, m2, m3}
MCTwoPosts == {m1, m2}
MCSubscribers == {s1, s2}
MCSubscriber == {s1}
MCKeys == {k1, k2}
MCKeyOf == [m \in Messages |-> IF m = m3 THEN NoKey ELSE k1]
MCResults == {"ok", "retry", "error"}
Replicas == Permutations(MCConsumers)
===============================================================================
