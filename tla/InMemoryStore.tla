---------------------------- MODULE InMemoryStore ----------------------------
(***************************************************************************)
(* InMemoryIdempotencyStore (event/idempotency/store.py:39-72): a dict     *)
(* from key to expiry, swept of expired entries only when a claim finds it *)
(* full.  claim() and release() contain no await besides the lock, so each *)
(* is one step; the clients are the deliveries that call them.             *)
(***************************************************************************)
EXTENDS Integers, FiniteSets, Functions

CONSTANTS Clients, Keys,
          MaxEntries,   \* max_entries of the store
          Ttls,         \* the ttl_seconds a policy may carry; NoTtl is None
          StoreMaxTime       \* bound: the clock stops here

NoTtl == -1
Never == -1             \* math.inf, the expiry of a claim without a TTL

ASSUME StoreAssumption == /\ MaxEntries \in Nat
                          /\ StoreMaxTime \in Nat
                          /\ Ttls \subseteq Nat \union {NoTtl}

VARIABLES claims,       \* _claims: key -> expiry
          time,          \* time.monotonic()
          holders       \* <<client, key>>: claim() returned True, the caller is not done

storeVars == <<claims, time, holders>>

StoreTypeOK ==
  /\ DOMAIN claims \subseteq Keys
  /\ \A k \in DOMAIN claims : claims[k] \in Nat \union {Never}
  /\ time \in 0..StoreMaxTime
  /\ holders \subseteq Clients \X Keys

StoreInit == claims = << >> /\ time = 0 /\ holders = {}

------------------------------------------------------------------------------
Unexpired(k) == k \in DOMAIN claims /\ (claims[k] = Never \/ claims[k] > time)

LiveKeys == {k \in Keys : Unexpired(k)}

MutEvictAll == << >>
(* _evict_expired: the dict without its expired entries. *)
EvictExpired == Restrict(claims, {k \in DOMAIN claims : Unexpired(k)})

Expiry(ttl) == IF ttl = NoTtl THEN Never ELSE time + ttl

MutClaimGranted(c, k, ttl) ==
  /\ k \in DOMAIN claims => claims[k] <= time + 1
  /\ <<c, k>> \notin holders
  /\ claims' = [x \in DOMAIN claims \union {k} |-> IF x = k THEN Expiry(ttl) ELSE claims[x]]
  /\ holders' = holders \union {<<c, k>>}
  /\ UNCHANGED time

ClaimGranted(c, k, ttl) ==
  /\ ~ Unexpired(k)
  /\ <<c, k>> \notin holders   \* a delivery claims once
  /\ LET kept == IF Cardinality(DOMAIN claims) >= MaxEntries THEN EvictExpired ELSE claims
     IN  claims' = [x \in DOMAIN kept \union {k} |-> IF x = k THEN Expiry(ttl) ELSE kept[x]]
  /\ holders' = holders \union {<<c, k>>}
  /\ UNCHANGED time

ClaimRefused(c, k) == Unexpired(k) /\ UNCHANGED storeVars

ReleaseKey(c, k) == /\ <<c, k>> \in holders
                    /\ claims' = Restrict(claims, DOMAIN claims \ {k})
                    /\ holders' = holders \ {<<c, k>>}
                    /\ UNCHANGED time

(* The caller succeeds and leaves the claim in place (base.py:227-230). *)
KeepClaim(c, k) == /\ <<c, k>> \in holders
                   /\ holders' = holders \ {<<c, k>>}
                   /\ UNCHANGED <<claims, time>>

StoreTick == time < StoreMaxTime /\ time' = time + 1 /\ UNCHANGED <<claims, holders>>

StoreNext ==
  \/ \E c \in Clients, k \in Keys :
       \/ \E ttl \in Ttls : ClaimGranted(c, k, ttl)
       \/ ClaimRefused(c, k)
       \/ ReleaseKey(c, k)
       \/ KeepClaim(c, k)
  \/ StoreTick

StoreSpec == StoreInit /\ [][StoreNext]_storeVars
------------------------------------------------------------------------------
(* The promise it implements: an entry that has expired, swept or not, is  *)
(* no claim.                                                               *)
MortalKeys == {k \in LiveKeys : claims[k] # Never}

Promise == INSTANCE ClaimStore WITH claimed <- LiveKeys, mortal <- MortalKeys

(* Seen through the claims that are still live, the dict with lazy         *)
(* eviction behaves as the store's interface promises: first caller wins,  *)
(* a claim without TTL outlives any sweep, duplicates are refused.         *)
ImplementsClaimStore == Promise!Spec

(* A live claim goes away only because its time ran out or because a       *)
(* holder of that key released it: the sweep of a full store never takes   *)
(* one (_evict_expired).                                                   *)
SweepSparesLive ==
  [][\A k \in LiveKeys \ LiveKeys' :
       \/ time' > time
       \/ \E c \in Clients : <<c, k>> \in holders \ holders']_storeVars

(* "TTL'd workloads stay bounded" (store.py:42-45): when a claim leaves    *)
(* the store beyond max_entries, every other entry is still live.          *)
OverfullOnlyWithLive ==
  [][\A k \in DOMAIN claims' \ DOMAIN claims :
       Cardinality(DOMAIN claims') > MaxEntries
         => DOMAIN claims' \ {k} \subseteq LiveKeys']_storeVars

(* The sweep of a full store takes the expired entries and no other        *)
(* (store.py:61-72).                                                       *)
SweepIsExact == SweepSparesLive /\ OverfullOnlyWithLive
===============================================================================
