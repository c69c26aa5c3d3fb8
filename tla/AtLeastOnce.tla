----------------------------- MODULE AtLeastOnce -----------------------------
(***************************************************************************)
(* What a consumer promises for every message of its queue: it leaves the  *)
(* queue only after all subscribers handled it without error, or after a   *)
(* copy was diverted to the dead-letter queue (acknowledgement.py:6-8).    *)
(***************************************************************************)
CONSTANT Messages

VARIABLES processed,  \* messages all subscribers have handled
          diverted,   \* messages with a copy in the dead-letter queue
          removed     \* messages deleted from the source queue

vars == <<processed, diverted, removed>>

Init == processed = {} /\ diverted = {} /\ removed = {}

Process(m) == processed' = processed \union {m} /\ UNCHANGED <<diverted, removed>>

Divert(m) == diverted' = diverted \union {m} /\ UNCHANGED <<processed, removed>>

Remove(m) == /\ m \in processed \union diverted
             /\ removed' = removed \union {m}
             /\ UNCHANGED <<processed, diverted>>

Next == \E m \in Messages : Process(m) \/ Divert(m) \/ Remove(m)

(* A message that has been dealt with does not stay in the queue. *)
Spec == /\ Init /\ [][Next]_vars
        /\ \A m \in Messages : WF_vars(Remove(m))
==============================================================================
