---------------------------- MODULE MCSqsConsumer ----------------------------
(* Instances of the SQS consumer: one process with two messages and two      *)
(* subscribers, and two replicas of a process that share a store.            *)
EXTENDS SqsConsumer, TLC

CONSTANTS c1, c2, m1, m2, m3, s1, s2, k1, k2

MCOne == {c1}
MCTwo == {c1, c2}
MCMessage == {m1}
MCMessages == {m1, m2}
MCThree == {m1, m2, m3}
MCSubscriber == {s1}
MCSubscribers == {s1, s2}
MCKeys == {k1, k2}
MCOwnKeys == [m \in Messages |-> IF m = m1 THEN k1 ELSE k2]
MCMixedKeys == [m \in Messages |-> IF m = m3 THEN NoKey ELSE k1]
MCAllResults == {"ok", "retry", "error", "cancelled"}
MCResults == {"ok", "retry", "error"}
MCAllErrors == {"poll", "ack", "retry", "dlq"}
MCSettleErrors == {"ack", "retry"}
MCRetryErrors == {"retry"}
MCVerdicts == {"ok", "error"}
MCNone == {}
MCPoison == {m2}
Replicas == Permutations(MCTwo)
SwappedSubscribers == Permutations(MCSubscribers)
==============================================================================
