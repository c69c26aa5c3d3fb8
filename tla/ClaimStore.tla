------------------------------ MODULE ClaimStore ------------------------------
(***************************************************************************)
(* What an idempotency store promises its callers, whatever it is made of  *)
(* (the interface IdempotencyStore, event/idempotency/store.py:18-36): a   *)
(* claim is granted to the first caller only; a granted key stays refused  *)
(* until somebody releases it or, if it was claimed with a TTL, until the  *)
(* TTL runs out.  Time itself is abstracted away: an expiry is a step that *)
(* may happen to a mortal key at any moment.                               *)
(***************************************************************************)
CONSTANTS Clients,  \* callers of claim() and release(): one per delivery
          Keys      \* idempotency keys

VARIABLES claimed,  \* keys the store refuses to grant
          mortal,   \* claimed keys that carry a TTL
          holders   \* <<client, key>>: claim() said True and the client is not done

vars == <<claimed, mortal, holders>>

Init == /\ claimed = {}
        /\ mortal = {}
        /\ holders = {}

(* claim() returns True. *)
Grant(c, k) == /\ k \notin claimed /\ <<c, k>> \notin holders
               /\ claimed' = claimed \union {k}
               /\ mortal' \in {mortal \ {k}, mortal \union {k}}
               /\ holders' = holders \union {<<c, k>>}

(* claim() with a TTL of zero: granted, and expired on the spot. *)
GrantSpent(c, k) == /\ k \notin claimed /\ <<c, k>> \notin holders
                    /\ holders' = holders \union {<<c, k>>}
                    /\ UNCHANGED <<claimed, mortal>>

(* release() by a client that was granted the key; it is not fenced.  *)
Release(c, k) == /\ <<c, k>> \in holders
                 /\ claimed' = claimed \ {k}
                 /\ mortal' = mortal \ {k}
                 /\ holders' = holders \ {<<c, k>>}

(* A holder is done and leaves its claim in place: the work succeeded. *)
Keep(c, k) == /\ <<c, k>> \in holders
              /\ holders' = holders \ {<<c, k>>}
              /\ UNCHANGED <<claimed, mortal>>

(* Time passes the expiry of some mortal keys. *)
Expire == /\ \E K \in SUBSET mortal : claimed' = claimed \ K /\ mortal' = mortal \ K
          /\ UNCHANGED holders

Next == \/ \E c \in Clients, k \in Keys :
             Grant(c, k) \/ GrantSpent(c, k) \/ Release(c, k) \/ Keep(c, k)
        \/ Expire

Spec == Init /\ [][Next]_vars
===============================================================================
