------------------------------ MODULE Web_proofs ------------------------------
(* Proofs about the HTTP client, for any number of requests, any lifetimes and *)
(* any buffer of at least two timeouts; and about the edge of the web          *)
(* application, for any requests, key ids, rotations and mappings.             *)
EXTENDS MCWeb, Pages_proofs, Documents_proofs, FiniteSetTheorems, TLAPS

USE NoTaskIsNone

States == {"start", "fetch", "fetched", "send", "sleep", "returned", "raised"}

(* A step that moves one task and sets its timer. *)
LEMMA Moves ==
  ASSUME TypeOK, NEW t \in Tasks, NEW p \in States, GoTo(t, p)
  PROVE  /\ pc' \in [Tasks -> States]
         /\ pc'[t] = p
         /\ \A u \in Tasks : u # t => pc'[u] = pc[u]
BY DEF TypeOK, GoTo, States

LEMMA Timers ==
  ASSUME TypeOK, NEW t \in Tasks, NEW n \in Nat, SetTimer(t, n)
  PROVE  /\ timer' \in [Tasks -> Nat]
         /\ timer'[t] = n
         /\ \A u \in Tasks : u # t => timer'[u] = timer[u]
BY DEF TypeOK, SetTimer

(* After a failed attempt the task sleeps, and only its timer has changed. *)
LEMMA Backs ==
  ASSUME TypeOK, NEW t \in Tasks, Backoff(t)
  PROVE  /\ pc' \in [Tasks -> States] /\ pc'[t] = "sleep"
         /\ \A u \in Tasks : u # t => pc'[u] = pc[u]
         /\ timer' \in [Tasks -> Nat]
         /\ \A u \in Tasks : u # t => timer'[u] = timer[u]
<1>1. GoTo(t, "sleep") /\ "sleep" \in States
  BY DEF Backoff, States
<1>2. PICK d \in 0..MaxDelay : SetTimer(t, now + d)
  BY DEF Backoff
<1>3. now + d \in Nat
  BY HttpAssumption DEF TypeOK
<1> QED
  BY <1>1, <1>2, <1>3, Moves, Timers

LEMMA TypeStep == TypeOK /\ [Next]_vars => TypeOK'
<1> SUFFICES ASSUME TypeOK, [Next]_vars
             PROVE  TypeOK'
  OBVIOUS
<1> USE HttpAssumption
<1>1. CASE Tick
  BY <1>1 DEF Tick, TypeOK, request
<1>2. ASSUME NEW t \in Tasks, UseCached(t)
      PROVE  TypeOK'
  BY <1>2 DEF UseCached, TypeOK, GoTo, SetTimer, request
<1>3. ASSUME NEW t \in Tasks, FetchToken(t)
      PROVE  TypeOK'
  BY <1>3 DEF FetchToken, TypeOK, GoTo, SetTimer, request
<1>4. ASSUME NEW t \in Tasks, TokenArrives(t)
      PROVE  TypeOK'
  <2>1. cached' \in Tokens
    BY <1>4 DEF TokenArrives, TypeOK, Tokens
  <2> QED
    BY <1>4, <2>1 DEF TokenArrives, TypeOK, GoTo, SetTimer, request
<1>5. ASSUME NEW t \in Tasks, FetchFails(t)
      PROVE  TypeOK'
  BY <1>5 DEF FetchFails, TypeOK, GoTo, request
<1>6. ASSUME NEW t \in Tasks, Wake(t)
      PROVE  TypeOK'
  <2>1. attempt' \in [Tasks -> 1..MaxAttempts]
    BY <1>6 DEF Wake, TypeOK
  <2> QED
    BY <1>6, <2>1 DEF Wake, TypeOK, GoTo, SetTimer
<1>7. ASSUME NEW t \in Tasks, NextRequest(t)
      PROVE  TypeOK'
  BY <1>7 DEF NextRequest, TypeOK, GoTo, SetTimer, NoToken, Tokens
<1>8. ASSUME NEW t \in Tasks, NEW life \in Lifetimes, Issue(t, life)
      PROVE  TypeOK'
  <2>1. [exp |-> life, valid |-> now + life] \in Tokens
    BY DEF TypeOK, Tokens
  <2> QED
    BY <1>8, <2>1 DEF Issue, TypeOK, GoTo, request
<1>9. ASSUME NEW t \in Tasks, NEW s \in Statuses, Answer(t, s)
      PROVE  TypeOK'
  <2>1. pc' \in [Tasks -> States] /\ timer' \in [Tasks -> Nat]
    <3>1. CASE Retries(t, s)
      BY <1>9, <3>1, Backs DEF Answer
    <3>2. CASE ~ Retries(t, s)
      BY <1>9, <3>2 DEF Answer, GoTo, TypeOK, States
    <3> QED
      BY <3>1, <3>2
  <2>2. served' \in [Tasks -> Nat]
    BY <1>9 DEF Answer, TypeOK
  <2>3. answered' \in [Tasks -> 0..MaxAttempts]
    BY <1>9 DEF Answer, TypeOK
  <2> QED
    BY <1>9, <2>1, <2>2, <2>3 DEF Answer, TypeOK, States
<1>10. ASSUME NEW t \in Tasks, NEW kind \in {"error", "other"}, SendFails(t, kind)
       PROVE  TypeOK'
  <2>1. pc' \in [Tasks -> States] /\ timer' \in [Tasks -> Nat]
    <3>1. CASE Retries(t, kind)
      BY <1>10, <3>1, Backs DEF SendFails
    <3>2. CASE ~ Retries(t, kind)
      BY <1>10, <3>2 DEF SendFails, GoTo, TypeOK, States
    <3> QED
      BY <3>1, <3>2
  <2>2. served' \in [Tasks -> Nat]
    BY <1>10 DEF SendFails, TypeOK
  <2> QED
    BY <1>10, <2>1, <2>2 DEF SendFails, TypeOK, States
<1>11. CASE UNCHANGED vars
  BY <1>11 DEF vars, TypeOK
<1> QED
  BY <1>1, <1>2, <1>3, <1>4, <1>5, <1>6, <1>7, <1>8, <1>9, <1>10, <1>11 DEF Next
--------------------------------------------------------------------------------
(* What the buffer is worth.  The client's expiry of a cached token is late by *)
(* at most one timeout; a token on its way was issued at most one timeout ago; *)
(* and a first attempt, once it is sent, ends before its token does.           *)
CachedFresh == cached.exp <= cached.valid + Timeout

InTime == \A t \in Tasks :
  pc[t] \in {"fetch", "fetched", "send"} => now <= timer[t] /\ timer[t] <= now + Timeout

IssuedFresh == \A t \in Tasks :
  pc[t] = "fetched" => /\ token[t].exp \in Lifetimes
                       /\ timer[t] + token[t].exp <= token[t].valid + Timeout

SentFresh == \A t \in Tasks : pc[t] = "send" /\ attempt[t] = 1 => timer[t] < token[t].valid

TokensFresh == CachedFresh /\ InTime /\ IssuedFresh /\ SentFresh

LEMMA FreshStep == TypeOK /\ TypeOK' /\ TokensFresh /\ [Next]_vars => TokensFresh'
<1> SUFFICES ASSUME TypeOK, TypeOK', TokensFresh, [Next]_vars
             PROVE  TokensFresh'
  OBVIOUS
<1> USE HttpAssumption
<1>1. CASE Tick
  BY <1>1 DEF Tick, TypeOK, request, TokensFresh, CachedFresh, InTime, IssuedFresh, SentFresh
<1>2. ASSUME NEW t \in Tasks, UseCached(t)
      PROVE  TokensFresh'
  <2>1. now + Timeout < cached.valid
    BY <1>2 DEF UseCached, Expired, TokensFresh, CachedFresh, TypeOK, Tokens
  <2> QED
    BY <1>2, <2>1 DEF UseCached, GoTo, SetTimer, TypeOK, request, TokensFresh, CachedFresh, InTime, IssuedFresh, SentFresh
<1>3. ASSUME NEW t \in Tasks, FetchToken(t)
      PROVE  TokensFresh'
  BY <1>3 DEF FetchToken, GoTo, SetTimer, TypeOK, request, TokensFresh, CachedFresh, InTime, IssuedFresh, SentFresh
<1>4. ASSUME NEW t \in Tasks, TokenArrives(t)
      PROVE  TokensFresh'
  <2>1. /\ now + token[t].exp <= token[t].valid + Timeout
        /\ now + Timeout < token[t].valid
    BY <1>4 DEF TokenArrives, TokensFresh, InTime, IssuedFresh, TypeOK, Tokens
  <2>2. cached'.exp = now + token[t].exp /\ cached'.valid = token[t].valid
    BY <1>4 DEF TokenArrives
  <2>3. CachedFresh'
    BY <2>1, <2>2 DEF CachedFresh
  <2>4. InTime' /\ IssuedFresh' /\ SentFresh'
    BY <1>4, <2>1, <2>2 DEF TokenArrives, GoTo, SetTimer, TypeOK, request, TokensFresh, InTime, IssuedFresh, SentFresh
  <2> QED
    BY <2>3, <2>4 DEF TokensFresh
<1>5. ASSUME NEW t \in Tasks, FetchFails(t)
      PROVE  TokensFresh'
  BY <1>5 DEF FetchFails, GoTo, TypeOK, request, TokensFresh, CachedFresh, InTime, IssuedFresh, SentFresh
<1>6. ASSUME NEW t \in Tasks, Wake(t)
      PROVE  TokensFresh'
  BY <1>6 DEF Wake, GoTo, SetTimer, TypeOK, TokensFresh, CachedFresh, InTime, IssuedFresh, SentFresh
<1>7. ASSUME NEW t \in Tasks, NextRequest(t)
      PROVE  TokensFresh'
  BY <1>7 DEF NextRequest, GoTo, SetTimer, TypeOK, TokensFresh, CachedFresh, InTime, IssuedFresh, SentFresh
<1>8. ASSUME NEW t \in Tasks, NEW life \in Lifetimes, Issue(t, life)
      PROVE  TokensFresh'
  <2>1. token'[t].exp = life /\ token'[t].valid = now + life
    BY <1>8 DEF Issue, TypeOK
  <2>2. timer[t] + life <= now + life + Timeout
    BY <1>8 DEF Issue, TokensFresh, InTime, TypeOK
  <2> QED
    BY <1>8, <2>1, <2>2 DEF Issue, GoTo, TypeOK, request, TokensFresh, CachedFresh, InTime, IssuedFresh, SentFresh
<1>9. ASSUME NEW t \in Tasks, NEW s \in Statuses, Answer(t, s)
      PROVE  TokensFresh'
  <2>1. /\ pc'[t] \in {"sleep", "returned"}
        /\ \A u \in Tasks : u # t => pc'[u] = pc[u] /\ timer'[u] = timer[u]
    <3>1. CASE Retries(t, s)
      BY <1>9, <3>1, Backs DEF Answer
    <3>2. CASE ~ Retries(t, s)
      BY <1>9, <3>2 DEF Answer, GoTo, TypeOK
    <3> QED
      BY <3>1, <3>2
  <2> QED
    BY <1>9, <2>1 DEF Answer, TypeOK, TokensFresh, CachedFresh, InTime, IssuedFresh, SentFresh
<1>10. ASSUME NEW t \in Tasks, NEW kind \in {"error", "other"}, SendFails(t, kind)
       PROVE  TokensFresh'
  <2>1. /\ pc'[t] \in {"sleep", "raised"}
        /\ \A u \in Tasks : u # t => pc'[u] = pc[u] /\ timer'[u] = timer[u]
    <3>1. CASE Retries(t, kind)
      BY <1>10, <3>1, Backs DEF SendFails
    <3>2. CASE ~ Retries(t, kind)
      BY <1>10, <3>2 DEF SendFails, GoTo, TypeOK
    <3> QED
      BY <3>1, <3>2
  <2> QED
    BY <1>10, <2>1 DEF SendFails, TypeOK, TokensFresh, CachedFresh, InTime, IssuedFresh, SentFresh
<1>11. CASE UNCHANGED vars
  BY <1>11 DEF vars, TokensFresh, CachedFresh, InTime, IssuedFresh, SentFresh
<1> QED
  BY <1>1, <1>2, <1>3, <1>4, <1>5, <1>6, <1>7, <1>8, <1>9, <1>10, <1>11 DEF Next

LEMMA InitOK == Init => TypeOK /\ TokensFresh
BY HttpAssumption
   DEF Init, TypeOK, NoToken, Tokens, TokensFresh, CachedFresh, InTime, IssuedFresh, SentFresh

(* No request's first attempt is refused for an expired token, whatever the    *)
(* lifetimes, and however tasks, fetches and the cache interleave.             *)
THEOREM FirstAttemptAuthorizedHolds == Spec => []FirstAttemptAuthorized
<1>1. Init => TypeOK /\ TokensFresh
  BY InitOK
<1>2. TypeOK /\ TokensFresh /\ [Next]_vars => (TypeOK /\ TokensFresh)'
  BY TypeStep, FreshStep
<1>3. TypeOK /\ TokensFresh => FirstAttemptAuthorized
  BY HttpAssumption DEF TypeOK, Tokens, TokensFresh, InTime, SentFresh, FirstAttemptAuthorized
<1> QED
  BY <1>1, <1>2, <1>3, PTL DEF Spec
--------------------------------------------------------------------------------
(* Only the task that holds the lock is fetching: this is inductive as it is.  *)
LEMMA OneFetchStep == TypeOK /\ OneFetch /\ [Next]_vars => OneFetch'
<1> SUFFICES ASSUME TypeOK, OneFetch, [Next]_vars
             PROVE  OneFetch'
  OBVIOUS
<1>1. CASE Tick \/ UNCHANGED vars
  BY <1>1 DEF Tick, vars, OneFetch
<1>2. ASSUME NEW t \in Tasks,
             \/ UseCached(t) \/ FetchToken(t) \/ TokenArrives(t) \/ FetchFails(t)
             \/ Wake(t) \/ NextRequest(t) \/ \E life \in Lifetimes : Issue(t, life)
      PROVE  OneFetch'
  BY <1>2 DEF UseCached, FetchToken, TokenArrives, FetchFails, Wake, NextRequest, Issue, GoTo, TypeOK, OneFetch
<1>3. ASSUME NEW t \in Tasks,
             \/ \E s \in Statuses : Answer(t, s)
             \/ \E kind \in {"error", "other"} : SendFails(t, kind)
      PROVE  OneFetch'
  <2>1. \E p \in {"sleep", "returned", "raised"} : GoTo(t, p)
    BY <1>3 DEF Answer, SendFails, Backoff
  <2>2. pc[t] = "send" /\ lock' = lock
    BY <1>3 DEF Answer, SendFails
  <2> QED
    BY <2>1, <2>2 DEF GoTo, TypeOK, OneFetch
<1> QED
  BY <1>1, <1>2, <1>3 DEF Next

(* At most one token request is on the wire, and the lock is held as long.     *)
THEOREM OneFetchHolds == Spec => []OneFetch
<1>1. Init => TypeOK /\ OneFetch
  BY InitOK DEF Init, OneFetch
<1>2. TypeOK /\ OneFetch /\ [Next]_vars => (TypeOK /\ OneFetch)'
  BY TypeStep, OneFetchStep
<1> QED
  BY <1>1, <1>2, PTL DEF Spec

(* A request that must not be repeated is not executed before its one exchange *)
(* is over, and never waits for another.                                       *)
SentOnce ==
  \A t \in Tasks \ Idempotent :
    /\ pc[t] # "sleep" /\ served[t] <= 1
    /\ pc[t] \in {"start", "fetch", "fetched", "send"} => served[t] = 0

LEMMA SentOnceStep == TypeOK /\ SentOnce /\ [Next]_vars => SentOnce'
<1> SUFFICES ASSUME TypeOK, SentOnce, [Next]_vars
             PROVE  SentOnce'
  OBVIOUS
<1>1. CASE Tick \/ UNCHANGED vars
  BY <1>1 DEF Tick, vars, request, SentOnce
<1>2. ASSUME NEW t \in Tasks,
             \/ UseCached(t) \/ FetchToken(t) \/ TokenArrives(t) \/ FetchFails(t)
             \/ \E life \in Lifetimes : Issue(t, life)
      PROVE  SentOnce'
  BY <1>2 DEF UseCached, FetchToken, TokenArrives, FetchFails, Issue, GoTo, request, TypeOK, SentOnce
<1>3. ASSUME NEW t \in Tasks, Wake(t) \/ NextRequest(t)
      PROVE  SentOnce'
  BY <1>3 DEF Wake, NextRequest, GoTo, TypeOK, SentOnce
<1>4. ASSUME NEW t \in Tasks,
             \/ \E s \in Statuses : Answer(t, s)
             \/ \E kind \in {"error", "other"} : SendFails(t, kind)
      PROVE  SentOnce'
  <2>1. \E p \in {"sleep", "returned", "raised"} : GoTo(t, p) /\ (t \notin Idempotent => p # "sleep")
    BY <1>4 DEF Answer, SendFails, Backoff, Retries
  <2>2. served' = served \/ served' = [served EXCEPT ![t] = @ + 1]
    BY <1>4 DEF Answer, SendFails, TypeOK
  <2>3. pc[t] = "send"
    BY <1>4 DEF Answer, SendFails
  <2> QED
    BY <2>1, <2>2, <2>3 DEF GoTo, TypeOK, SentOnce
<1> QED
  BY <1>1, <1>2, <1>3, <1>4 DEF Next

(* A request whose method is not retryable is executed at most once.           *)
THEOREM ExecutedOnceHolds == Spec => []ExecutedOnce
<1>1. Init => TypeOK /\ SentOnce
  BY InitOK DEF Init, SentOnce
<1>2. TypeOK /\ SentOnce /\ [Next]_vars => (TypeOK /\ SentOnce)'
  BY TypeStep, SentOnceStep
<1>3. SentOnce => ExecutedOnce
  BY DEF SentOnce, ExecutedOnce
<1> QED
  BY <1>1, <1>2, <1>3, PTL DEF Spec
-------------------------------------------------------------------------------
(* The web edge.  A request, and the errors it may carry.                      *)
Errors == [class : Classes \union {"none"}, status : Int]

Stages == {"new", "lookup", "waiting", "relookup", "verify", "route", "inner", "auth", "outer", "done"}

RequestRecord ==
  [at : Stages, token : BearerTokens, client : Nat, error : Errors, cause : Errors, status : Int,
   failed : Nat, steady : BOOLEAN]

(* Requests beyond the lock: each has replaced the client once at most.        *)
PastTheDoor == {r \in Requests : req[r].at \notin {"new", "lookup", "waiting"}}

EdgeTyped ==
  /\ style \in {"middleware", "dependency"} /\ pool \subseteq Kids
  /\ keys \in [Clients -> SUBSET Kids]
  /\ req \in [Requests -> RequestRecord]
  /\ client \in Nat /\ client <= Cardinality(PastTheDoor)
  /\ \A r \in Requests : req[r].client <= client
  /\ \A r \in Requests : req[r].at \in {"inner", "auth", "outer"} =>
       req[r].error.class # "none" /\ req[r].cause.class # "none"

(* Before the route nothing was raised; a steady token's key is in the pool,   *)
(* and one that waits for the second lookup has seen the endpoint fail.        *)
LookupsCounted ==
  \A r \in Requests :
    /\ req[r].at \in {"new", "lookup", "waiting", "relookup", "verify", "route"} => req[r].cause = NoError
    /\ req[r].steady => req[r].token.kid \in pool
    /\ req[r].steady /\ req[r].at \in {"waiting", "relookup"} => req[r].failed = 1

(* What an error has become when it has passed the middleware.                 *)
Passed(cause) ==
  IF style = "middleware" /\ IsA(cause.class, "AuthorizationError")
  THEN [class |-> "HTTPException", status |-> 401] ELSE cause

(* An error travels outward as it was raised, or as the middleware made it.    *)
ErrorCarried ==
  \A r \in Requests :
    /\ req[r].at = "auth" => style = "middleware"
    /\ req[r].at \in {"inner", "auth"} => req[r].error = req[r].cause
    /\ req[r].at = "outer" => req[r].error = Passed(req[r].cause)

EdgeInv == EdgeTyped /\ LookupsCounted /\ ErrorCarried

LEMMA ErrorsOK == NoError \in Errors /\ Refused \in Errors /\ NoError # Refused
BY DEF NoError, Refused, Errors, Classes

LEMMA BeyondFinite ==
  /\ IsFiniteSet(PastTheDoor) /\ Cardinality(PastTheDoor) \in Nat
  /\ Cardinality(PastTheDoor) <= Cardinality(Requests) /\ Cardinality(Requests) \in Nat
<1>1. PastTheDoor \subseteq Requests
  BY DEF PastTheDoor
<1> QED
  BY <1>1, EdgeAssumption, FS_Subset, FS_CardinalityType

LEMMA EdgeInitOK == EdgeInit => EdgeInv
<1> SUFFICES ASSUME EdgeInit
             PROVE  EdgeInv
  OBVIOUS
<1>1. \A t \in BearerTokens : Fresh(t) \in RequestRecord
  BY ErrorsOK DEF Fresh, RequestRecord, Stages
<1>2. req \in [Requests -> RequestRecord]
  BY <1>1 DEF EdgeInit
<1>3. \A r \in Requests : \E t \in BearerTokens : req[r] = Fresh(t)
  BY DEF EdgeInit
<1>4. \A r \in Requests :
        req[r].at = "new" /\ req[r].cause = NoError /\ req[r].steady = FALSE /\ req[r].client = 0
  <2> SUFFICES ASSUME NEW r \in Requests
               PROVE  /\ req[r].at = "new" /\ req[r].cause = NoError
                      /\ req[r].steady = FALSE /\ req[r].client = 0
    OBVIOUS
  <2>1. PICK t \in BearerTokens : req[r] = Fresh(t)
    BY <1>3
  <2> QED
    BY <2>1 DEF Fresh
<1>5. keys \in [Clients -> SUBSET Kids]
  BY DEF EdgeInit
<1> QED
  BY <1>2, <1>4, <1>5, BeyondFinite DEF EdgeInit, EdgeInv, EdgeTyped, LookupsCounted, ErrorCarried

(* What a step of one request leaves as it was.                                *)
Others(r) == \A u \in Requests : u # r => req'[u] = req[u]

(* A request that moves on keeps the types, and replaces the client only when  *)
(* it has waited for the lock.                                                 *)
LEMMA MovesOn ==
  ASSUME EdgeTyped, NEW r \in Requests, req' \in [Requests -> RequestRecord], Others(r),
         req[r].at \notin {"new", "lookup", "waiting"} => req'[r].at \notin {"new", "lookup", "waiting"},
         \/ client' = client
         \/ client' = client + 1 /\ req[r].at = "waiting" /\ req'[r].at = "relookup",
         req'[r].client <= client',
         req'[r].at \in {"inner", "auth", "outer"} =>
           req'[r].error.class # "none" /\ req'[r].cause.class # "none",
         style' = style, pool' = pool, keys' \in [Clients -> SUBSET Kids]
  PROVE  EdgeTyped'
<1>0. /\ r \in PastTheDoor => r \in PastTheDoor'
      /\ client' = client \/ (client' = client + 1 /\ r \notin PastTheDoor /\ r \in PastTheDoor')
  BY DEF PastTheDoor
<1>1. PastTheDoor' \subseteq Requests /\ IsFiniteSet(PastTheDoor') /\ Cardinality(PastTheDoor') \in Nat
  <2>1. PastTheDoor' \subseteq Requests
    BY DEF PastTheDoor
  <2> QED
    BY <2>1, EdgeAssumption, FS_Subset, FS_CardinalityType
<1>2. PastTheDoor \subseteq PastTheDoor'
  BY <1>0 DEF Others, PastTheDoor
<1>3. Cardinality(PastTheDoor) \in Nat /\ Cardinality(PastTheDoor) <= Cardinality(PastTheDoor')
  BY <1>1, <1>2, BeyondFinite, FS_Subset
<1>4. ASSUME r \notin PastTheDoor, r \in PastTheDoor'
      PROVE  Cardinality(PastTheDoor) + 1 <= Cardinality(PastTheDoor')
  <2>1. IsFiniteSet(PastTheDoor \union {r}) /\ Cardinality(PastTheDoor \union {r}) = Cardinality(PastTheDoor) + 1
    BY <1>4, BeyondFinite, FS_AddElement
  <2>2. PastTheDoor \union {r} \subseteq PastTheDoor'
    BY <1>2, <1>4
  <2> QED
    BY <1>1, <2>1, <2>2, FS_Subset
<1>5. client' \in Nat /\ client' <= Cardinality(PastTheDoor') /\ client <= client'
  BY <1>0, <1>1, <1>3, <1>4 DEF EdgeTyped
<1>6. \A u \in Requests : req'[u].client \in Nat /\ req'[u].client <= client'
  BY <1>5 DEF EdgeTyped, Others, RequestRecord
<1>7. \A u \in Requests : req'[u].at \in {"inner", "auth", "outer"} =>
        req'[u].error.class # "none" /\ req'[u].cause.class # "none"
  BY DEF EdgeTyped, Others
<1> QED
  BY <1>5, <1>6, <1>7 DEF EdgeTyped

LEMMA ToSetOfFew ==
  /\ \A a : ToSet(<<a>>) = {a}
  /\ \A a, b : ToSet(<<a, b>>) = {a, b}
  /\ \A a, b, c : ToSet(<<a, b, c>>) = {a, b, c}
  /\ \A a, b, c, d : ToSet(<<a, b, c, d>>) = {a, b, c, d}
  /\ \A a, b, c, d, e : ToSet(<<a, b, c, d, e>>) = {a, b, c, d, e}
BY DEF ToSet

(* The class hierarchy of exceptions.py.                                       *)
LEMMA Hierarchy ==
  /\ Mro("Exception") = <<"Exception">>
  /\ Mro("HTTPException") = <<"HTTPException", "Exception">>
  /\ Mro("RequestValidationError") = <<"RequestValidationError", "Exception">>
  /\ Mro("MidilError") = <<"MidilError", "Exception">>
  /\ Mro("BaseAuthError") = <<"BaseAuthError", "MidilError", "Exception">>
  /\ Mro("CursorError") = <<"CursorError", "MidilError", "Exception">>
  /\ Mro("AuthenticationError") = <<"AuthenticationError", "BaseAuthError", "MidilError", "Exception">>
  /\ Mro("AuthorizationError") = <<"AuthorizationError", "BaseAuthError", "MidilError", "Exception">>
  /\ Mro("CognitoAuthorizationError") = <<"CognitoAuthorizationError", "AuthorizationError", "BaseAuthError", "MidilError", "Exception">>
  /\ Mro("Forbidden") = <<"Forbidden", "AuthorizationError", "BaseAuthError", "MidilError", "Exception">>
  /\ Mro("ExpiredCursorError") = <<"ExpiredCursorError", "CursorError", "MidilError", "Exception">>
BY DEF Mro

LEMMA Bases ==
  /\ ToSet(Mro("Exception")) = {"Exception"}
  /\ ToSet(Mro("HTTPException")) = {"HTTPException", "Exception"}
  /\ ToSet(Mro("RequestValidationError")) = {"RequestValidationError", "Exception"}
  /\ ToSet(Mro("MidilError")) = {"MidilError", "Exception"}
  /\ ToSet(Mro("BaseAuthError")) = {"BaseAuthError", "MidilError", "Exception"}
  /\ ToSet(Mro("CursorError")) = {"CursorError", "MidilError", "Exception"}
  /\ ToSet(Mro("AuthenticationError")) = {"AuthenticationError", "BaseAuthError", "MidilError", "Exception"}
  /\ ToSet(Mro("AuthorizationError")) = {"AuthorizationError", "BaseAuthError", "MidilError", "Exception"}
  /\ ToSet(Mro("CognitoAuthorizationError")) = {"CognitoAuthorizationError", "AuthorizationError", "BaseAuthError", "MidilError", "Exception"}
  /\ ToSet(Mro("Forbidden")) = {"Forbidden", "AuthorizationError", "BaseAuthError", "MidilError", "Exception"}
  /\ ToSet(Mro("ExpiredCursorError")) = {"ExpiredCursorError", "CursorError", "MidilError", "Exception"}
BY Hierarchy, ToSetOfFew

LEMMA FewIndices ==
  /\ 1..1 = {1} /\ 1..2 = {1, 2} /\ 1..3 = {1, 2, 3}
  /\ 1..4 = {1, 2, 3, 4} /\ 1..5 = {1, 2, 3, 4, 5}
OBVIOUS

(* The bases of a class after its i-th are those of the i-th.                  *)
Chain(m) ==
  /\ DOMAIN m = 1..Len(m) /\ Len(m) \in 1..5 /\ m[Len(m)] = "Exception"
  /\ ToSet(m) = {m[i] : i \in 1..Len(m)}
  /\ \A i, j \in 1..Len(m) : m[j] \in ToSet(Mro(m[i])) <=> i <= j

LEMMA MroIsChain == \A c \in Classes : Chain(Mro(c))
<1>1. Chain(Mro("Exception"))
  <2> DEFINE m == Mro("Exception")
  <2>1. /\ Len(m) = 1
        /\ m[1] = "Exception"
    BY Hierarchy
  <2> HIDE DEF m
  <2>2. ToSet(m) = {m[i] : i \in 1..1}
    BY <2>1, Bases, FewIndices DEF m
  <2>3. \A i, j \in 1..1 : m[j] \in ToSet(Mro(m[i])) <=> i <= j
    BY <2>1, Bases
  <2>4. Chain(m)
    BY <2>1, <2>2, <2>3 DEF Chain
  <2> QED
    BY <2>4 DEF m
<1>2. Chain(Mro("HTTPException"))
  <2> DEFINE m == Mro("HTTPException")
  <2>1. /\ Len(m) = 2
        /\ m[1] = "HTTPException" /\ m[2] = "Exception"
    BY Hierarchy
  <2> HIDE DEF m
  <2>2. ToSet(m) = {m[i] : i \in 1..2}
    BY <2>1, Bases, FewIndices DEF m
  <2>3. \A i, j \in 1..2 : m[j] \in ToSet(Mro(m[i])) <=> i <= j
    BY <2>1, Bases
  <2>4. Chain(m)
    BY <2>1, <2>2, <2>3 DEF Chain
  <2> QED
    BY <2>4 DEF m
<1>3. Chain(Mro("RequestValidationError"))
  <2> DEFINE m == Mro("RequestValidationError")
  <2>1. /\ Len(m) = 2
        /\ m[1] = "RequestValidationError" /\ m[2] = "Exception"
    BY Hierarchy
  <2> HIDE DEF m
  <2>2. ToSet(m) = {m[i] : i \in 1..2}
    BY <2>1, Bases, FewIndices DEF m
  <2>3. \A i, j \in 1..2 : m[j] \in ToSet(Mro(m[i])) <=> i <= j
    BY <2>1, Bases
  <2>4. Chain(m)
    BY <2>1, <2>2, <2>3 DEF Chain
  <2> QED
    BY <2>4 DEF m
<1>4. Chain(Mro("MidilError"))
  <2> DEFINE m == Mro("MidilError")
  <2>1. /\ Len(m) = 2
        /\ m[1] = "MidilError" /\ m[2] = "Exception"
    BY Hierarchy
  <2> HIDE DEF m
  <2>2. ToSet(m) = {m[i] : i \in 1..2}
    BY <2>1, Bases, FewIndices DEF m
  <2>3. \A i, j \in 1..2 : m[j] \in ToSet(Mro(m[i])) <=> i <= j
    BY <2>1, Bases
  <2>4. Chain(m)
    BY <2>1, <2>2, <2>3 DEF Chain
  <2> QED
    BY <2>4 DEF m
<1>5. Chain(Mro("BaseAuthError"))
  <2> DEFINE m == Mro("BaseAuthError")
  <2>1. /\ Len(m) = 3
        /\ m[1] = "BaseAuthError" /\ m[2] = "MidilError"
        /\ m[3] = "Exception"
    BY Hierarchy
  <2> HIDE DEF m
  <2>2. ToSet(m) = {m[i] : i \in 1..3}
    BY <2>1, Bases, FewIndices DEF m
  <2>3. \A i, j \in 1..3 : m[j] \in ToSet(Mro(m[i])) <=> i <= j
    BY <2>1, Bases
  <2>4. Chain(m)
    BY <2>1, <2>2, <2>3 DEF Chain
  <2> QED
    BY <2>4 DEF m
<1>6. Chain(Mro("CursorError"))
  <2> DEFINE m == Mro("CursorError")
  <2>1. /\ Len(m) = 3
        /\ m[1] = "CursorError" /\ m[2] = "MidilError"
        /\ m[3] = "Exception"
    BY Hierarchy
  <2> HIDE DEF m
  <2>2. ToSet(m) = {m[i] : i \in 1..3}
    BY <2>1, Bases, FewIndices DEF m
  <2>3. \A i, j \in 1..3 : m[j] \in ToSet(Mro(m[i])) <=> i <= j
    BY <2>1, Bases
  <2>4. Chain(m)
    BY <2>1, <2>2, <2>3 DEF Chain
  <2> QED
    BY <2>4 DEF m
<1>7. Chain(Mro("AuthenticationError"))
  <2> DEFINE m == Mro("AuthenticationError")
  <2>1. /\ Len(m) = 4
        /\ m[1] = "AuthenticationError" /\ m[2] = "BaseAuthError"
        /\ m[3] = "MidilError" /\ m[4] = "Exception"
    BY Hierarchy
  <2> HIDE DEF m
  <2>2. ToSet(m) = {m[i] : i \in 1..4}
    BY <2>1, Bases, FewIndices DEF m
  <2>3. \A i, j \in 1..4 : m[j] \in ToSet(Mro(m[i])) <=> i <= j
    BY <2>1, Bases
  <2>4. Chain(m)
    BY <2>1, <2>2, <2>3 DEF Chain
  <2> QED
    BY <2>4 DEF m
<1>8. Chain(Mro("AuthorizationError"))
  <2> DEFINE m == Mro("AuthorizationError")
  <2>1. /\ Len(m) = 4
        /\ m[1] = "AuthorizationError" /\ m[2] = "BaseAuthError"
        /\ m[3] = "MidilError" /\ m[4] = "Exception"
    BY Hierarchy
  <2> HIDE DEF m
  <2>2. ToSet(m) = {m[i] : i \in 1..4}
    BY <2>1, Bases, FewIndices DEF m
  <2>3. \A i, j \in 1..4 : m[j] \in ToSet(Mro(m[i])) <=> i <= j
    BY <2>1, Bases
  <2>4. Chain(m)
    BY <2>1, <2>2, <2>3 DEF Chain
  <2> QED
    BY <2>4 DEF m
<1>9. Chain(Mro("CognitoAuthorizationError"))
  <2> DEFINE m == Mro("CognitoAuthorizationError")
  <2>1. /\ Len(m) = 5
        /\ m[1] = "CognitoAuthorizationError" /\ m[2] = "AuthorizationError"
        /\ m[3] = "BaseAuthError" /\ m[4] = "MidilError"
        /\ m[5] = "Exception"
    BY Hierarchy
  <2> HIDE DEF m
  <2>2. ToSet(m) = {m[i] : i \in 1..5}
    BY <2>1, Bases, FewIndices DEF m
  <2>3. \A i, j \in 1..5 : m[j] \in ToSet(Mro(m[i])) <=> i <= j
    BY <2>1, Bases
  <2>4. Chain(m)
    BY <2>1, <2>2, <2>3 DEF Chain
  <2> QED
    BY <2>4 DEF m
<1>10. Chain(Mro("Forbidden"))
  <2> DEFINE m == Mro("Forbidden")
  <2>1. /\ Len(m) = 5
        /\ m[1] = "Forbidden" /\ m[2] = "AuthorizationError"
        /\ m[3] = "BaseAuthError" /\ m[4] = "MidilError"
        /\ m[5] = "Exception"
    BY Hierarchy
  <2> HIDE DEF m
  <2>2. ToSet(m) = {m[i] : i \in 1..5}
    BY <2>1, Bases, FewIndices DEF m
  <2>3. \A i, j \in 1..5 : m[j] \in ToSet(Mro(m[i])) <=> i <= j
    BY <2>1, Bases
  <2>4. Chain(m)
    BY <2>1, <2>2, <2>3 DEF Chain
  <2> QED
    BY <2>4 DEF m
<1>11. Chain(Mro("ExpiredCursorError"))
  <2> DEFINE m == Mro("ExpiredCursorError")
  <2>1. /\ Len(m) = 4
        /\ m[1] = "ExpiredCursorError" /\ m[2] = "CursorError"
        /\ m[3] = "MidilError" /\ m[4] = "Exception"
    BY Hierarchy
  <2> HIDE DEF m
  <2>2. ToSet(m) = {m[i] : i \in 1..4}
    BY <2>1, Bases, FewIndices DEF m
  <2>3. \A i, j \in 1..4 : m[j] \in ToSet(Mro(m[i])) <=> i <= j
    BY <2>1, Bases
  <2>4. Chain(m)
    BY <2>1, <2>2, <2>3 DEF Chain
  <2> QED
    BY <2>4 DEF m
<1> QED
  BY <1>1, <1>2, <1>3, <1>4, <1>5, <1>6, <1>7, <1>8, <1>9, <1>10, <1>11 DEF Classes

Registered(c) == {i \in 1..Len(Mro(c)) : Mro(c)[i] \in DOMAIN Handlers}

LEMMA HandlersOfBuiltIn ==
  /\ {"Exception", "MidilError", "AuthenticationError", "AuthorizationError",
      "RequestValidationError", "HTTPException"} \subseteq DOMAIN Handlers
  /\ \A c \in DOMAIN Handlers : Handlers[c] \in 400..599 \/ (Handlers[c] = 0 /\ c = "HTTPException")
<1>1. DOMAIN BuiltIn = {"Exception", "MidilError", "AuthenticationError", "AuthorizationError",
                        "RequestValidationError", "HTTPException"}
  BY DEF BuiltIn
<1>2. \A c \in DOMAIN BuiltIn : BuiltIn[c] \in 400..599 \/ (BuiltIn[c] = 0 /\ c = "HTTPException")
  BY DEF BuiltIn
<1>3. ASSUME NEW c \in DOMAIN Handlers, \E m \in Mapped : m[1] = c
      PROVE  Handlers[c] \in 400..599
  BY <1>3, EdgeAssumption DEF Handlers
<1>4. ASSUME NEW c \in DOMAIN Handlers, ~ \E m \in Mapped : m[1] = c
      PROVE  c \in DOMAIN BuiltIn /\ Handlers[c] = BuiltIn[c]
  BY <1>4 DEF Handlers
<1>5. DOMAIN BuiltIn \subseteq DOMAIN Handlers
  BY DEF Handlers
<1> QED
  BY <1>1, <1>2, <1>3, <1>4, <1>5

LEMMA SmallestOfFive ==
  ASSUME NEW S, S \subseteq 1..5, S # {}
  PROVE  Min(S) \in S /\ \A n \in S : Min(S) <= n
<1>1. \E k \in S : \A n \in S : k <= n
  <2>1. \A n \in S : n = 1 \/ n = 2 \/ n = 3 \/ n = 4 \/ n = 5
    BY FewIndices
  <2>2. CASE 1 \in S
    BY <2>1, <2>2
  <2>3. CASE 1 \notin S /\ 2 \in S
    BY <2>1, <2>3
  <2>4. CASE 1 \notin S /\ 2 \notin S /\ 3 \in S
    BY <2>1, <2>4
  <2>5. CASE 1 \notin S /\ 2 \notin S /\ 3 \notin S /\ 4 \in S
    BY <2>1, <2>5
  <2>6. CASE 1 \notin S /\ 2 \notin S /\ 3 \notin S /\ 4 \notin S
    <3>1. PICK e \in S : TRUE
      OBVIOUS
    <3>2. \A n \in S : n = 5
      BY <2>1, <2>6
    <3> QED
      BY <3>1, <3>2
  <2> QED
    BY <2>2, <2>3, <2>4, <2>5, <2>6
<1> QED
  BY <1>1 DEF Min

(* resolve() finds a class, and it is the first of the bases with a handler.   *)
LEMMA ResolveIsFirst ==
  ASSUME NEW c \in Classes
  PROVE  \E k \in Registered(c) : Resolve(c) = Mro(c)[k] /\ \A i \in Registered(c) : k <= i
<1>1. Registered(c) # {} /\ Registered(c) \subseteq 1..5
  <2>1. Chain(Mro(c))
    BY MroIsChain
  <2>2. Len(Mro(c)) \in Registered(c)
    BY <2>1, HandlersOfBuiltIn DEF Registered, Chain
  <2> QED
    BY <2>1, <2>2 DEF Registered, Chain
<1>2. Registered(c) = {i \in DOMAIN Mro(c) : Mro(c)[i] \in DOMAIN Handlers}
  BY MroIsChain DEF Registered, Chain
<1>3. Resolve(c) = Mro(c)[Min(Registered(c))]
  BY <1>2 DEF Resolve
<1>4. Min(Registered(c)) \in Registered(c) /\ \A i \in Registered(c) : Min(Registered(c)) <= i
  BY <1>1, SmallestOfFive
<1> QED
  BY <1>3, <1>4

LEMMA ResolveIsNearest ==
  ASSUME NEW c \in Classes
  PROVE  Resolve(c) = Nearest(c) /\ Resolve(c) \in DOMAIN Handlers /\ IsA(c, Resolve(c))
<1>1. PICK k \in Registered(c) : Resolve(c) = Mro(c)[k] /\ \A i \in Registered(c) : k <= i
  BY ResolveIsFirst
<1>2. Chain(Mro(c))
  BY MroIsChain
<1>3. /\ k \in 1..Len(Mro(c)) /\ Mro(c)[k] \in DOMAIN Handlers
      /\ Mro(c)[k] \in ToSet(Mro(c))
  BY <1>1, <1>2 DEF Registered, Chain
<1>4. ASSUME NEW d \in DOMAIN Handlers, d \in ToSet(Mro(c))
      PROVE  \E i \in 1..Len(Mro(c)) : d = Mro(c)[i] /\ k <= i
  BY <1>1, <1>2, <1>4 DEF Registered, Chain
<1>5. \A d \in DOMAIN Handlers : d \in ToSet(Mro(c)) => d \in ToSet(Mro(Mro(c)[k]))
  BY <1>2, <1>3, <1>4 DEF Chain
<1>6. ASSUME NEW x \in ToSet(Mro(c)) \intersect DOMAIN Handlers,
             \A d \in DOMAIN Handlers : d \in ToSet(Mro(c)) => d \in ToSet(Mro(x))
      PROVE  x = Mro(c)[k]
  <2>1. PICK i \in 1..Len(Mro(c)) : x = Mro(c)[i] /\ k <= i
    BY <1>4
  <2>2. Mro(c)[k] \in ToSet(Mro(Mro(c)[i]))
    BY <1>3, <1>6, <2>1
  <2>3. i <= k
    BY <1>2, <1>3, <2>2 DEF Chain
  <2> QED
    BY <1>2, <1>3, <2>1, <2>3 DEF Chain
<1>7. Nearest(c) = Mro(c)[k]
  <2>1. Mro(c)[k] \in ToSet(Mro(c)) \intersect DOMAIN Handlers
    BY <1>3
  <2> QED
    BY <1>5, <1>6, <2>1 DEF Nearest, IsA
<1> QED
  BY <1>1, <1>3, <1>7 DEF IsA

LEMMA StatusOfError ==
  ASSUME NEW e \in Errors, e.class # "none"
  PROVE  /\ Status(e) \in Int
         /\ Handlers["HTTPException"] = 0 =>
              Status(e) = IF Nearest(e.class) = "HTTPException" THEN e.status ELSE Handlers[Nearest(e.class)]
<1>1. e.class \in Classes /\ e.status \in Int
  BY DEF Errors
<1>2. Nearest(e.class) = Resolve(e.class) /\ Resolve(e.class) \in DOMAIN Handlers
  BY <1>1, ResolveIsNearest
<1> QED
  BY <1>1, <1>2, HandlersOfBuiltIn DEF Status

(* What raising, answering and passing on do to the request.                   *)
LEMMA RaisesOf ==
  ASSUME EdgeTyped, NEW r \in Requests, NEW class \in Classes, NEW status \in Int,
         NEW at \in {"inner", "auth", "outer"}, Raises(r, class, status, at)
  PROVE  /\ req' \in [Requests -> RequestRecord] /\ Others(r)
         /\ req'[r].at = at /\ req'[r].error = [class |-> class, status |-> status]
         /\ req'[r].cause = IF req[r].cause = NoError THEN [class |-> class, status |-> status]
                            ELSE req[r].cause
         /\ req'[r].token = req[r].token /\ req'[r].steady = req[r].steady
         /\ req'[r].failed = req[r].failed /\ req'[r].client = req[r].client
         /\ req'[r].status = req[r].status
<1> DEFINE e == [class |-> class, status |-> status]
<1>1. e \in Errors /\ at \in Stages
  BY DEF Errors, Stages
<1> HIDE DEF e
<1>2. req' = [req EXCEPT ![r].at = at, ![r].error = e,
                         ![r].cause = IF @ = NoError THEN e ELSE @]
  BY DEF Raises, e
<1>3. req[r] \in RequestRecord
  BY DEF EdgeTyped
<1> QED
  BY <1>1, <1>2, <1>3 DEF EdgeTyped, RequestRecord, Others, e

LEMMA GoesOf ==
  ASSUME EdgeTyped, NEW r \in Requests, NEW at \in Stages, Goes(r, at)
  PROVE  /\ req' \in [Requests -> RequestRecord] /\ Others(r)
         /\ req'[r].at = at /\ req'[r].error = req[r].error /\ req'[r].cause = req[r].cause
         /\ req'[r].token = req[r].token /\ req'[r].steady = req[r].steady
         /\ req'[r].failed = req[r].failed /\ req'[r].client = req[r].client
         /\ req'[r].status = req[r].status
BY DEF Goes, EdgeTyped, RequestRecord, Others

LEMMA RespondOf ==
  ASSUME EdgeTyped, NEW r \in Requests, req[r].error.class # "none", Respond(r)
  PROVE  /\ req' \in [Requests -> RequestRecord] /\ Others(r)
         /\ req'[r].at = "done" /\ req'[r].cause = req[r].cause
         /\ req'[r].token = req[r].token /\ req'[r].steady = req[r].steady
         /\ req'[r].failed = req[r].failed /\ req'[r].client = 0
         /\ req'[r].status = Status(req[r].error) /\ req'[r].error = NoError
<1>1. req[r] \in RequestRecord /\ req[r].error \in Errors
  BY DEF EdgeTyped, RequestRecord
<1>2. Status(req[r].error) \in Int
  BY <1>1, StatusOfError
<1>3. NoError \in Errors /\ "done" \in Stages
  BY ErrorsOK DEF Stages
<1> QED
  BY <1>1, <1>2, <1>3 DEF Respond, EdgeTyped, RequestRecord, Others

LEMMA AuthorizationFamily ==
  ASSUME NEW c \in Classes, IsA(c, "AuthorizationError")
  PROVE  ~ IsA(c, "HTTPException") /\ ~ IsA(c, "RequestValidationError")
BY Bases DEF IsA, Classes

(* A step of one request is judged by what it does to that request.            *)
LEMMA OneJudged ==
  ASSUME EdgeInv, NEW r \in Requests, Others(r), style' = style, pool' = pool,
         req'[r].at \in {"new", "lookup", "waiting", "relookup", "verify", "route"} =>
           req'[r].cause = NoError,
         req'[r].steady => req'[r].token.kid \in pool,
         req'[r].steady /\ req'[r].at \in {"waiting", "relookup"} => req'[r].failed = 1,
         req'[r].at = "auth" => style = "middleware",
         req'[r].at \in {"inner", "auth"} => req'[r].error = req'[r].cause,
         req'[r].at = "outer" => req'[r].error = Passed(req'[r].cause)
  PROVE  LookupsCounted' /\ ErrorCarried'
<1>1. LookupsCounted'
  BY DEF EdgeInv, LookupsCounted, Others
<1>2. \A e : Passed(e)' = Passed(e)
  BY DEF Passed
<1>3. ErrorCarried'
  <2> SUFFICES ASSUME NEW u \in Requests
               PROVE  /\ req'[u].at = "auth" => style' = "middleware"
                      /\ req'[u].at \in {"inner", "auth"} => req'[u].error = req'[u].cause
                      /\ req'[u].at = "outer" => req'[u].error = Passed(req[u].cause)'
    BY DEF ErrorCarried
  <2> QED
    BY <1>2 DEF EdgeInv, ErrorCarried, Others, Passed
<1> QED
  BY <1>1, <1>3

LEMMA ArriveStep ==
  ASSUME EdgeInv, NEW r \in Requests, Arrive(r)
  PROVE  EdgeInv' /\ req'[r].cause # Refused /\ Others(r) /\ req'[r].at # "done"
<1>1. req[r].at = "new" /\ req[r].cause = NoError /\ req[r] \in RequestRecord
  BY DEF Arrive, EdgeInv, LookupsCounted, EdgeTyped
<1>2. style' = style /\ pool' = pool /\ client' = client /\ keys' = keys
  BY DEF Arrive
<1>3. CASE Raises(r, "HTTPException", 401, Layer)
  <2>1. Layer \in {"inner", "auth"} /\ (Layer = "auth" => style = "middleware")
    BY DEF Layer
  <2>2. "HTTPException" \in Classes /\ "HTTPException" # "none" /\ "HTTPException" # "CognitoAuthorizationError"
    BY DEF Classes
  <2>3. /\ req' \in [Requests -> RequestRecord] /\ Others(r) /\ req'[r].at = Layer
        /\ req'[r].error = [class |-> "HTTPException", status |-> 401]
        /\ req'[r].cause = req'[r].error /\ req'[r].token = req[r].token
        /\ req'[r].steady = req[r].steady /\ req'[r].client = req[r].client
    BY <1>1, <1>3, <2>1, <2>2, RaisesOf DEF EdgeInv
  <2>4. EdgeTyped'
    BY <1>1, <1>2, <2>1, <2>2, <2>3, MovesOn DEF EdgeInv, EdgeTyped
  <2>5. LookupsCounted' /\ ErrorCarried'
    BY <1>1, <1>2, <2>1, <2>3, OneJudged DEF EdgeInv, LookupsCounted
  <2> QED
    BY <2>1, <2>3, <2>4, <2>5 DEF EdgeInv, Refused
<1>4. CASE req' = [req EXCEPT ![r].at = "lookup", ![r].client = client,
                              ![r].steady = req[r].token.kid \in pool]
  <2> DEFINE known == req[r].token.kid \in pool
  <2>1. known \in BOOLEAN /\ (known <=> req[r].token.kid \in pool)
    OBVIOUS
  <2>2. req' = [req EXCEPT ![r].at = "lookup", ![r].client = client, ![r].steady = known]
    BY <1>4
  <2> HIDE DEF known
  <2>3. /\ req' \in [Requests -> RequestRecord] /\ Others(r) /\ req'[r].at = "lookup"
        /\ req'[r].cause = req[r].cause /\ req'[r].token = req[r].token
        /\ req'[r].steady = known /\ req'[r].client = client
    BY <1>1, <2>1, <2>2 DEF EdgeInv, EdgeTyped, RequestRecord, Others, Stages
  <2>4. EdgeTyped'
    BY <1>1, <1>2, <2>3, MovesOn DEF EdgeInv, EdgeTyped
  <2>5. LookupsCounted' /\ ErrorCarried'
    BY <1>1, <1>2, <2>1, <2>3, OneJudged
  <2> QED
    BY <1>1, <2>3, <2>4, <2>5, ErrorsOK DEF EdgeInv
<1> QED
  BY <1>3, <1>4 DEF Arrive

(* A lookup ends in the key, in the wait for the second one, or in the refusal. *)
LEMMA SigningKeyStep ==
  ASSUME EdgeInv, NEW r \in Requests, NEW fetch \in {"no", "yes", "fails"}, SigningKey(r, fetch)
  PROVE  /\ EdgeInv' /\ Others(r) /\ req'[r].at # "done"
         /\ req'[r].cause = Refused /\ req'[r].steady => req'[r].failed = 2
<1>1. /\ req[r] \in RequestRecord /\ req[r].at \in {"lookup", "relookup"} /\ req[r].cause = NoError
      /\ style' = style /\ pool' = pool /\ client' = client
  BY DEF SigningKey, EdgeInv, LookupsCounted, EdgeTyped
<1>2. keys' \in [Clients -> SUBSET Kids]
  BY DEF SigningKey, EdgeInv, EdgeTyped
<1>3. req[r].client \in Clients
  <2>1. req[r].client \in Nat /\ req[r].client <= Cardinality(PastTheDoor)
    BY <1>1, BeyondFinite DEF EdgeInv, EdgeTyped, RequestRecord
  <2> QED
    BY <2>1, BeyondFinite DEF Clients
<1>4. req[r].token.kid # "malformed" /\ req[r].steady =>
        (fetch = "fails" \/ req[r].token.kid \in keys'[req[r].client])
  BY <1>1, <1>3 DEF SigningKey, EdgeInv, EdgeTyped, LookupsCounted
<1>5. req[r].steady => req[r].token.kid # "malformed"
  BY EdgeAssumption DEF EdgeInv, LookupsCounted, EdgeTyped
<1>6. Layer \in {"inner", "auth"} /\ (Layer = "auth" => style = "middleware")
  BY DEF Layer
<1>7. CASE Goes(r, "verify")
  <2>1. /\ req' \in [Requests -> RequestRecord] /\ Others(r) /\ req'[r].at = "verify"
        /\ req'[r].cause = NoError /\ req'[r].token = req[r].token /\ req'[r].steady = req[r].steady
        /\ req'[r].client = req[r].client
    BY <1>1, <1>7, GoesOf DEF EdgeInv, Stages
  <2>2. EdgeTyped'
    BY <1>1, <1>2, <2>1, MovesOn DEF EdgeInv, EdgeTyped
  <2>3. LookupsCounted' /\ ErrorCarried'
    BY <1>1, <2>1, OneJudged DEF EdgeInv, LookupsCounted
  <2> QED
    BY <2>1, <2>2, <2>3, ErrorsOK DEF EdgeInv
<1>8. CASE /\ ~ (fetch # "fails" /\ req[r].token.kid \in keys'[req[r].client]) /\ RetriesLookup(r)
           /\ req' = [req EXCEPT ![r].at = "waiting", ![r].failed = IF fetch = "fails" THEN 1 ELSE 0]
  <2>1. /\ req' \in [Requests -> RequestRecord] /\ Others(r) /\ req'[r].at = "waiting"
        /\ req'[r].cause = NoError /\ req'[r].token = req[r].token /\ req'[r].steady = req[r].steady
        /\ req'[r].client = req[r].client /\ (fetch = "fails" => req'[r].failed = 1)
    BY <1>1, <1>8 DEF EdgeInv, EdgeTyped, RequestRecord, Others, Stages
  <2>2. EdgeTyped'
    BY <1>1, <1>2, <1>8, <2>1, MovesOn DEF EdgeInv, EdgeTyped, RetriesLookup
  <2>3. LookupsCounted' /\ ErrorCarried'
    BY <1>1, <1>4, <1>5, <1>8, <2>1, OneJudged DEF EdgeInv, LookupsCounted
  <2> QED
    BY <2>1, <2>2, <2>3, ErrorsOK DEF EdgeInv
<1>9. CASE /\ ~ (fetch # "fails" /\ req[r].token.kid \in keys'[req[r].client]) /\ ~ RetriesLookup(r)
           /\ req' = [req EXCEPT ![r].at = Layer, ![r].error = Refused, ![r].cause = Refused,
                                 ![r].failed = IF fetch = "fails" THEN @ + 1 ELSE @]
  <2>1. /\ req' \in [Requests -> RequestRecord] /\ Others(r) /\ req'[r].at = Layer
        /\ req'[r].cause = Refused /\ req'[r].error = Refused /\ req'[r].token = req[r].token
        /\ req'[r].steady = req[r].steady /\ req'[r].client = req[r].client
        /\ (fetch = "fails" => req'[r].failed = req[r].failed + 1)
    BY <1>1, <1>6, <1>9, ErrorsOK DEF EdgeInv, EdgeTyped, RequestRecord, Others, Stages
  <2>2. EdgeTyped'
    BY <1>1, <1>2, <1>6, <2>1, MovesOn DEF EdgeInv, EdgeTyped, Refused
  <2>3. LookupsCounted' /\ ErrorCarried'
    BY <1>1, <1>6, <2>1, OneJudged DEF EdgeInv, LookupsCounted
  <2>4. ASSUME req[r].steady
        PROVE  fetch = "fails" /\ req[r].at = "relookup"
    BY <1>1, <1>4, <1>5, <1>9, <2>4 DEF RetriesLookup
  <2>5. req[r].steady => req'[r].failed = 2
    BY <2>1, <2>4 DEF EdgeInv, LookupsCounted
  <2> QED
    BY <1>6, <2>1, <2>2, <2>3, <2>5 DEF EdgeInv
<1> QED
  BY <1>7, <1>8, <1>9 DEF SigningKey

LEMMA RefreshStep ==
  ASSUME EdgeInv, NEW r \in Requests, Refresh(r)
  PROVE  EdgeInv' /\ Others(r) /\ req'[r].cause # Refused /\ req'[r].at # "done"
<1>1. /\ req[r] \in RequestRecord /\ req[r].at = "waiting" /\ req[r].cause = NoError
      /\ style' = style /\ pool' = pool /\ client' = client + 1 /\ keys' = keys
      /\ client \in Nat
  BY DEF Refresh, SecondClient, EdgeInv, LookupsCounted, EdgeTyped
<1>2. req' = [req EXCEPT ![r].at = "relookup", ![r].client = client + 1]
  BY DEF Refresh, SecondClient
<1>3. /\ req' \in [Requests -> RequestRecord] /\ Others(r) /\ req'[r].at = "relookup"
      /\ req'[r].cause = NoError /\ req'[r].token = req[r].token /\ req'[r].steady = req[r].steady
      /\ req'[r].client = client + 1 /\ req'[r].failed = req[r].failed
  BY <1>1, <1>2 DEF EdgeInv, EdgeTyped, RequestRecord, Others, Stages
<1>4. EdgeTyped'
  BY <1>1, <1>3, MovesOn DEF EdgeInv, EdgeTyped
<1>5. LookupsCounted' /\ ErrorCarried'
  BY <1>1, <1>3, OneJudged DEF EdgeInv, LookupsCounted
<1> QED
  BY <1>3, <1>4, <1>5, ErrorsOK DEF EdgeInv

(* An exception of the authorizer or of the route begins its way outward.      *)
LEMMA RaisingStep ==
  ASSUME EdgeInv, NEW r \in Requests, NEW class \in Classes, NEW status \in Int,
         NEW at \in {"inner", "auth"}, at = "auth" => style = "middleware",
         req[r].at \in {"verify", "route"}, Raises(r, class, status, at),
         UNCHANGED <<style, pool, client, keys>>
  PROVE  /\ EdgeInv' /\ Others(r) /\ req'[r].at # "done"
         /\ req'[r].cause = [class |-> class, status |-> status]
<1>1. req[r] \in RequestRecord /\ req[r].cause = NoError /\ class # "none"
  BY DEF EdgeInv, LookupsCounted, EdgeTyped, Classes
<1>2. /\ req' \in [Requests -> RequestRecord] /\ Others(r) /\ req'[r].at = at
      /\ req'[r].error = [class |-> class, status |-> status] /\ req'[r].cause = req'[r].error
      /\ req'[r].token = req[r].token /\ req'[r].steady = req[r].steady
      /\ req'[r].client = req[r].client
  BY <1>1, RaisesOf DEF EdgeInv
<1>3. EdgeTyped'
  BY <1>1, <1>2, MovesOn DEF EdgeInv, EdgeTyped
<1>4. LookupsCounted' /\ ErrorCarried'
  BY <1>1, <1>2, OneJudged DEF EdgeInv, LookupsCounted
<1> QED
  BY <1>2, <1>3, <1>4 DEF EdgeInv

LEMMA VerifyStep ==
  ASSUME EdgeInv, NEW r \in Requests, Verify(r)
  PROVE  /\ EdgeInv' /\ Others(r) /\ req'[r].at # "done"
         /\ req'[r].cause = Refused => req'[r].token.claims # "ok"
<1>1. /\ req[r] \in RequestRecord /\ req[r].at = "verify" /\ req[r].cause = NoError
      /\ UNCHANGED <<style, pool, client, keys>>
  BY DEF Verify, EdgeInv, LookupsCounted, EdgeTyped
<1>2. req[r].token.claims \in {"ok", "expired", "odd"}
  BY <1>1, EdgeAssumption DEF RequestRecord, BearerTokens
<1>3. CASE Goes(r, "route")
  <2>1. /\ req' \in [Requests -> RequestRecord] /\ Others(r) /\ req'[r].at = "route"
        /\ req'[r].cause = NoError /\ req'[r].token = req[r].token /\ req'[r].steady = req[r].steady
        /\ req'[r].client = req[r].client
    BY <1>1, <1>3, GoesOf DEF EdgeInv, Stages
  <2>2. EdgeTyped'
    BY <1>1, <2>1, MovesOn DEF EdgeInv, EdgeTyped
  <2>3. LookupsCounted' /\ ErrorCarried'
    BY <1>1, <2>1, OneJudged DEF EdgeInv, LookupsCounted
  <2> QED
    BY <2>1, <2>2, <2>3, ErrorsOK DEF EdgeInv
<1>4. CASE Raises(r, ClaimsError(req[r].token.claims), 0, Layer) /\ ClaimsError(req[r].token.claims) # "none"
  <2>1. ClaimsError(req[r].token.claims) \in Classes /\ req[r].token.claims # "ok"
    BY <1>2, <1>4 DEF ClaimsError, Classes
  <2>2. Layer \in {"inner", "auth"} /\ (Layer = "auth" => style = "middleware")
    BY DEF Layer
  <2>3. PICK class \in Classes, at \in {"inner", "auth"} :
          Raises(r, class, 0, at) /\ (at = "auth" => style = "middleware")
    BY <1>4, <2>1, <2>2
  <2>4. 0 \in Int
    OBVIOUS
  <2>5. EdgeInv' /\ Others(r) /\ req'[r].at # "done"
    BY <1>1, <2>3, <2>4, RaisingStep
  <2>6. req'[r].token = req[r].token
    BY <2>3, <2>4, RaisesOf DEF EdgeInv
  <2> QED
    BY <2>1, <2>5, <2>6
<1> QED
  BY <1>3, <1>4 DEF Verify

LEMMA RouteStep ==
  ASSUME EdgeInv, NEW r \in Requests, NEW class \in RouteErrors \union {"none"}, Route(r, class)
  PROVE  /\ EdgeInv' /\ Others(r)
         /\ req'[r].cause = Refused => class = "CognitoAuthorizationError"
         /\ req'[r].at = "done" => req'[r].cause = NoError
<1>1. /\ req[r] \in RequestRecord /\ req[r].at = "route" /\ req[r].cause = NoError
      /\ UNCHANGED <<style, pool, client, keys>>
  BY DEF Route, EdgeInv, LookupsCounted, EdgeTyped
<1>2. CASE class = "none"
  <2>1. /\ req' \in [Requests -> RequestRecord] /\ Others(r) /\ req'[r].at = "done"
        /\ req'[r].cause = NoError /\ req'[r].token = req[r].token /\ req'[r].steady = req[r].steady
        /\ req'[r].client = 0
    BY <1>1, <1>2 DEF Route, EdgeInv, EdgeTyped, RequestRecord, Others, Stages
  <2>2. EdgeTyped'
    BY <1>1, <2>1, MovesOn DEF EdgeInv, EdgeTyped
  <2>3. LookupsCounted' /\ ErrorCarried'
    BY <1>1, <2>1, OneJudged DEF EdgeInv, LookupsCounted
  <2> QED
    BY <2>1, <2>2, <2>3, ErrorsOK DEF EdgeInv
<1>3. CASE class # "none"
  <2> DEFINE status == IF class = "HTTPException" THEN 404 ELSE 0
  <2>1. class \in Classes /\ status \in Int
    BY <1>3, EdgeAssumption
  <2>2. Raises(r, class, status, "inner")
    BY <1>3 DEF Route
  <2> HIDE DEF status
  <2>3. EdgeInv' /\ Others(r) /\ req'[r].cause = [class |-> class, status |-> status]
    BY <1>1, <2>1, <2>2, RaisingStep
  <2>4. req'[r].at = "inner"
    BY <2>1, <2>2, RaisesOf DEF EdgeInv
  <2> QED
    BY <2>3, <2>4 DEF Refused
<1> QED
  BY <1>2, <1>3

(* The error goes through the layers and is answered once.                     *)
LEMMA UnwindStep ==
  ASSUME EdgeInv, NEW r \in Requests, Unwind(r)
  PROVE  /\ EdgeInv' /\ Others(r) /\ req'[r].cause = req[r].cause /\ req[r].cause # NoError
         /\ req'[r].token = req[r].token /\ req'[r].steady = req[r].steady
         /\ req'[r].failed = req[r].failed
         /\ req'[r].at = "done" =>
              /\ req'[r].status = Status(req[r].error)
              /\ \/ req[r].error = Passed(req[r].cause)
                 \/ /\ req[r].error = req[r].cause
                    /\ req[r].cause.class \in {"HTTPException", "RequestValidationError"}
<1>1. /\ req[r] \in RequestRecord /\ req[r].at \in {"inner", "auth", "outer"}
      /\ req[r].error.class # "none" /\ req[r].cause.class # "none"
      /\ UNCHANGED <<style, pool, client, keys>> /\ client \in Nat
      /\ req[r].cause # NoError
  BY DEF Unwind, EdgeInv, EdgeTyped, NoError
<1>2. CASE Respond(r) /\ (req[r].at = "outer" \/ (req[r].at = "inner"
                          /\ req[r].error.class \in {"HTTPException", "RequestValidationError"}))
  <2>1. /\ req' \in [Requests -> RequestRecord] /\ Others(r) /\ req'[r].at = "done"
        /\ req'[r].cause = req[r].cause /\ req'[r].token = req[r].token
        /\ req'[r].steady = req[r].steady /\ req'[r].failed = req[r].failed /\ req'[r].client = 0
        /\ req'[r].status = Status(req[r].error)
    BY <1>1, <1>2, RespondOf DEF EdgeInv
  <2>2. EdgeTyped'
    BY <1>1, <2>1, MovesOn DEF EdgeInv, EdgeTyped
  <2>3. LookupsCounted' /\ ErrorCarried'
    BY <1>1, <2>1, OneJudged DEF EdgeInv, LookupsCounted
  <2> QED
    BY <1>1, <1>2, <2>1, <2>2, <2>3 DEF EdgeInv, ErrorCarried
<1>3. CASE Goes(r, IF style = "middleware" THEN "auth" ELSE "outer") /\ req[r].at = "inner"
           /\ req[r].error.class \notin {"HTTPException", "RequestValidationError"}
  <2> DEFINE next == IF style = "middleware" THEN "auth" ELSE "outer"
  <2>1. next \in Stages
    BY DEF Stages
  <2>2. /\ req' \in [Requests -> RequestRecord] /\ Others(r) /\ req'[r].at = next
        /\ req'[r].cause = req[r].cause /\ req'[r].error = req[r].error
        /\ req'[r].token = req[r].token /\ req'[r].steady = req[r].steady
        /\ req'[r].failed = req[r].failed /\ req'[r].client = req[r].client
    BY <1>1, <1>3, <2>1, GoesOf DEF EdgeInv
  <2>3. EdgeTyped'
    BY <1>1, <2>2, MovesOn DEF EdgeInv, EdgeTyped
  <2>4. LookupsCounted' /\ ErrorCarried'
    <3>1. req[r].error = req[r].cause
      BY <1>3 DEF EdgeInv, ErrorCarried
    <3> QED
      BY <1>1, <2>2, <3>1, OneJudged DEF EdgeInv, LookupsCounted, Passed
  <2> QED
    BY <1>1, <2>2, <2>3, <2>4 DEF EdgeInv
<1>4. CASE req[r].at = "auth" /\ Converts(req[r].error.class) /\ Raises(r, "HTTPException", 401, "outer")
  <2>1. "HTTPException" \in Classes /\ "HTTPException" # "none"
    BY DEF Classes
  <2>2. /\ req' \in [Requests -> RequestRecord] /\ Others(r) /\ req'[r].at = "outer"
        /\ req'[r].cause = req[r].cause /\ req'[r].error = [class |-> "HTTPException", status |-> 401]
        /\ req'[r].token = req[r].token /\ req'[r].steady = req[r].steady
        /\ req'[r].failed = req[r].failed /\ req'[r].client = req[r].client
    BY <1>1, <1>4, <2>1, RaisesOf DEF EdgeInv
  <2>3. EdgeTyped'
    BY <1>1, <2>1, <2>2, MovesOn DEF EdgeInv, EdgeTyped
  <2>4. LookupsCounted' /\ ErrorCarried'
    <3>1. style = "middleware" /\ IsA(req[r].cause.class, "AuthorizationError")
      BY <1>4 DEF EdgeInv, ErrorCarried, Converts
    <3> QED
      BY <1>1, <2>2, <3>1, OneJudged DEF EdgeInv, LookupsCounted, Passed
  <2> QED
    BY <1>1, <2>2, <2>3, <2>4 DEF EdgeInv
<1>5. CASE req[r].at = "auth" /\ ~ Converts(req[r].error.class) /\ Goes(r, "outer")
  <2>1. "outer" \in Stages
    BY DEF Stages
  <2>2. /\ req' \in [Requests -> RequestRecord] /\ Others(r) /\ req'[r].at = "outer"
        /\ req'[r].cause = req[r].cause /\ req'[r].error = req[r].error
        /\ req'[r].token = req[r].token /\ req'[r].steady = req[r].steady
        /\ req'[r].failed = req[r].failed /\ req'[r].client = req[r].client
    BY <1>1, <1>5, <2>1, GoesOf DEF EdgeInv
  <2>3. EdgeTyped'
    BY <1>1, <2>2, MovesOn DEF EdgeInv, EdgeTyped
  <2>4. LookupsCounted' /\ ErrorCarried'
    <3>1. req[r].error = req[r].cause /\ ~ IsA(req[r].cause.class, "AuthorizationError")
      BY <1>5 DEF EdgeInv, ErrorCarried, Converts
    <3> QED
      BY <1>1, <2>2, <3>1, OneJudged DEF EdgeInv, LookupsCounted, Passed
  <2> QED
    BY <1>1, <2>2, <2>3, <2>4 DEF EdgeInv
<1> QED
  BY <1>2, <1>3, <1>4, <1>5 DEF Unwind

(* Other keys are published: a token that loses its key is steady no longer.   *)
LEMMA RotateStep ==
  ASSUME EdgeInv, NEW kids \in SUBSET Kids, Rotate(kids)
  PROVE  /\ EdgeInv' /\ style' = style
         /\ \A r \in Requests :
              /\ req'[r].at = req[r].at /\ req'[r].cause = req[r].cause /\ req'[r].token = req[r].token
              /\ req'[r].failed = req[r].failed /\ req'[r].status = req[r].status
              /\ req'[r].steady => req[r].steady
<1>1. /\ UNCHANGED <<style, client, keys>> /\ pool' = kids
      /\ req' = [r \in Requests |-> [req[r] EXCEPT !.steady = @ /\ req[r].token.kid \in kids]]
  BY DEF Rotate
<1>2. ASSUME NEW r \in Requests
      PROVE  /\ req'[r] \in RequestRecord
             /\ req'[r].at = req[r].at /\ req'[r].cause = req[r].cause /\ req'[r].token = req[r].token
             /\ req'[r].error = req[r].error /\ req'[r].client = req[r].client
             /\ req'[r].failed = req[r].failed /\ req'[r].status = req[r].status
             /\ req'[r].steady => req[r].steady /\ req[r].token.kid \in kids
  <2> DEFINE kept == req[r].steady /\ req[r].token.kid \in kids
  <2>1. kept \in BOOLEAN /\ (kept => req[r].steady /\ req[r].token.kid \in kids)
    OBVIOUS
  <2>2. req'[r] = [req[r] EXCEPT !.steady = kept] /\ req[r] \in RequestRecord
    BY <1>1 DEF EdgeInv, EdgeTyped
  <2> HIDE DEF kept
  <2> QED
    BY <2>1, <2>2 DEF RequestRecord
<1>3. req' \in [Requests -> RequestRecord]
  BY <1>1, <1>2
<1>4. PastTheDoor' = PastTheDoor
  BY <1>2 DEF PastTheDoor
<1>5. EdgeTyped'
  <2>1. /\ style' \in {"middleware", "dependency"} /\ pool' \subseteq Kids
        /\ keys' \in [Clients -> SUBSET Kids] /\ client' \in Nat
    BY <1>1 DEF EdgeInv, EdgeTyped
  <2>2. client' <= Cardinality(PastTheDoor')
    BY <1>1, <1>4 DEF EdgeInv, EdgeTyped
  <2>3. \A r \in Requests :
          /\ req'[r].client <= client'
          /\ req'[r].at \in {"inner", "auth", "outer"} =>
               req'[r].error.class # "none" /\ req'[r].cause.class # "none"
    <3> SUFFICES ASSUME NEW r \in Requests
                 PROVE  /\ req'[r].client <= client'
                        /\ req'[r].at \in {"inner", "auth", "outer"} =>
                             req'[r].error.class # "none" /\ req'[r].cause.class # "none"
      OBVIOUS
    <3>1. /\ client' = client /\ req'[r].client = req[r].client /\ req'[r].at = req[r].at
          /\ req'[r].error = req[r].error /\ req'[r].cause = req[r].cause
      BY <1>1, <1>2
    <3> QED
      BY <3>1 DEF EdgeInv, EdgeTyped
  <2> QED
    BY <1>3, <2>1, <2>2, <2>3 DEF EdgeTyped
<1>6. LookupsCounted'
  BY <1>1, <1>2 DEF EdgeInv, LookupsCounted
<1>7. ErrorCarried'
  <2>1. \A e : Passed(e)' = Passed(e)
    BY <1>1 DEF Passed
  <2> SUFFICES ASSUME NEW u \in Requests
               PROVE  /\ req'[u].at = "auth" => style' = "middleware"
                      /\ req'[u].at \in {"inner", "auth"} => req'[u].error = req'[u].cause
                      /\ req'[u].at = "outer" => req'[u].error = Passed(req[u].cause)'
    BY DEF ErrorCarried
  <2> QED
    BY <1>1, <1>2 DEF EdgeInv, ErrorCarried, Passed
<1> QED
  BY <1>1, <1>2, <1>5, <1>6, <1>7 DEF EdgeInv

LEMMA EdgeStep == EdgeInv /\ [EdgeNext]_edgeVars => EdgeInv'
<1> SUFFICES ASSUME EdgeInv, [EdgeNext]_edgeVars
             PROVE  EdgeInv'
  OBVIOUS
<1>1. CASE UNCHANGED edgeVars
  <2>1. PastTheDoor' = PastTheDoor
    BY <1>1 DEF PastTheDoor, edgeVars
  <2>2. EdgeTyped' /\ LookupsCounted'
    BY <1>1, <2>1 DEF EdgeInv, EdgeTyped, LookupsCounted, edgeVars
  <2>3. ErrorCarried'
    BY <1>1 DEF EdgeInv, ErrorCarried, Passed, edgeVars
  <2> QED
    BY <2>2, <2>3 DEF EdgeInv
<1>2. ASSUME NEW r \in Requests, Arrive(r) \/ Refresh(r) \/ Verify(r) \/ Unwind(r)
      PROVE  EdgeInv'
  BY <1>2, ArriveStep, RefreshStep, VerifyStep, UnwindStep
<1>3. ASSUME NEW r \in Requests, NEW fetch \in {"no", "yes", "fails"}, SigningKey(r, fetch)
      PROVE  EdgeInv'
  BY <1>3, SigningKeyStep
<1>4. ASSUME NEW r \in Requests, NEW class \in RouteErrors \union {"none"}, Route(r, class)
      PROVE  EdgeInv'
  BY <1>4, RouteStep
<1>5. ASSUME NEW kids \in SUBSET Kids, Rotate(kids)
      PROVE  EdgeInv'
  BY <1>5, RotateStep
<1> QED
  BY <1>1, <1>2, <1>3, <1>4, <1>5 DEF EdgeNext

(* RefusalNeedsTwoFailures (jwt_authorizer.py:63-85): for any number of        *)
(* requests, keys and rotations, when no route raises the authorizer's own     *)
(* error.                                                                      *)
THEOREM RefusalNeedsTwoFailuresHolds ==
  ASSUME "CognitoAuthorizationError" \notin RouteErrors
  PROVE  EdgeSpec => []RefusalNeedsTwoFailures
<1>1. EdgeInit => EdgeInv /\ RefusalNeedsTwoFailures
  <2> SUFFICES ASSUME EdgeInit
               PROVE  EdgeInv /\ RefusalNeedsTwoFailures
    OBVIOUS
  <2>1. EdgeInv
    BY EdgeInitOK
  <2>2. \A r \in Requests : req[r].cause = NoError
    <3> SUFFICES ASSUME NEW r \in Requests PROVE req[r].cause = NoError
      OBVIOUS
    <3>1. PICK t \in BearerTokens : req[r] = Fresh(t)
      BY DEF EdgeInit
    <3> QED
      BY <3>1 DEF Fresh
  <2> QED
    BY <2>1, <2>2, ErrorsOK DEF RefusalNeedsTwoFailures
<1>2. EdgeInv /\ RefusalNeedsTwoFailures /\ [EdgeNext]_edgeVars
        => EdgeInv' /\ RefusalNeedsTwoFailures'
  <2> SUFFICES ASSUME EdgeInv, RefusalNeedsTwoFailures, [EdgeNext]_edgeVars
               PROVE  RefusalNeedsTwoFailures'
    BY EdgeStep
  <2>1. CASE UNCHANGED edgeVars
    BY <2>1 DEF RefusalNeedsTwoFailures, edgeVars
  <2>2. ASSUME NEW r \in Requests, Others(r),
               req'[r].cause = Refused /\ req'[r].steady /\ req'[r].token.claims = "ok" => req'[r].failed = 2
        PROVE  RefusalNeedsTwoFailures'
    BY <2>2 DEF RefusalNeedsTwoFailures, Others
  <2>3. ASSUME NEW r \in Requests, Arrive(r) \/ Refresh(r) \/ Verify(r)
        PROVE  RefusalNeedsTwoFailures'
    BY <2>2, <2>3, ArriveStep, RefreshStep, VerifyStep
  <2>4. ASSUME NEW r \in Requests, NEW fetch \in {"no", "yes", "fails"}, SigningKey(r, fetch)
        PROVE  RefusalNeedsTwoFailures'
    BY <2>2, <2>4, SigningKeyStep
  <2>5. ASSUME NEW r \in Requests, NEW class \in RouteErrors \union {"none"}, Route(r, class)
        PROVE  RefusalNeedsTwoFailures'
    <3>1. class # "CognitoAuthorizationError"
      OBVIOUS
    <3> QED
      BY <2>2, <2>5, <3>1, RouteStep
  <2>6. ASSUME NEW r \in Requests, Unwind(r)
        PROVE  RefusalNeedsTwoFailures'
    <3>1. /\ Others(r) /\ req'[r].cause = req[r].cause /\ req'[r].token = req[r].token
          /\ req'[r].steady = req[r].steady /\ req'[r].failed = req[r].failed
      BY <2>6, UnwindStep
    <3> QED
      BY <2>2, <3>1 DEF RefusalNeedsTwoFailures
  <2>7. ASSUME NEW kids \in SUBSET Kids, Rotate(kids)
        PROVE  RefusalNeedsTwoFailures'
    BY <2>7, RotateStep DEF RefusalNeedsTwoFailures
  <2> QED
    BY <2>1, <2>3, <2>4, <2>5, <2>6, <2>7 DEF EdgeNext
<1> QED
  BY <1>1, <1>2, PTL DEF EdgeSpec

(* StatusFitsError (handlers.py:216-225, auth.py:114): for any routes, whatever *)
(* the application maps, as long as it leaves HTTPException its own status.    *)
THEOREM StatusFitsErrorHolds ==
  ASSUME \A m \in Mapped : m[1] # "HTTPException"
  PROVE  EdgeSpec => []StatusFitsError
<1>1. Handlers["HTTPException"] = 0
  <2>1. "HTTPException" \in DOMAIN BuiltIn /\ BuiltIn["HTTPException"] = 0
    BY DEF BuiltIn
  <2> QED
    BY <2>1 DEF Handlers
<1>2. EdgeInit => EdgeInv /\ StatusFitsError
  <2> SUFFICES ASSUME EdgeInit
               PROVE  EdgeInv /\ StatusFitsError
    OBVIOUS
  <2>1. EdgeInv
    BY EdgeInitOK
  <2>2. \A r \in Requests : req[r].at # "done"
    <3> SUFFICES ASSUME NEW r \in Requests PROVE req[r].at # "done"
      OBVIOUS
    <3>1. PICK t \in BearerTokens : req[r] = Fresh(t)
      BY DEF EdgeInit
    <3> QED
      BY <3>1 DEF Fresh
  <2> QED
    BY <2>1, <2>2 DEF StatusFitsError
<1>3. EdgeInv /\ StatusFitsError /\ [EdgeNext]_edgeVars => EdgeInv' /\ StatusFitsError'
  <2> SUFFICES ASSUME EdgeInv, StatusFitsError, [EdgeNext]_edgeVars
               PROVE  StatusFitsError'
    BY EdgeStep
  <2> DEFINE fits(s, cause) ==
               s = IF Nearest(cause.class) = "HTTPException" THEN cause.status
                   ELSE IF style = "middleware" /\ IsA(cause.class, "AuthorizationError") THEN 401
                   ELSE Handlers[Nearest(cause.class)]
  <2>1. style' = style
    <3>1. \A kids \in SUBSET Kids : Rotate(kids) => style' = style
      BY DEF Rotate
    <3>2. \A r \in Requests : Arrive(r) \/ Refresh(r) \/ Verify(r) => style' = style
      BY DEF Arrive, Refresh, Verify
    <3>3. \A r \in Requests : Unwind(r) => style' = style
      BY DEF Unwind
    <3>4. \A r \in Requests, fetch \in {"no", "yes", "fails"} : SigningKey(r, fetch) => style' = style
      BY DEF SigningKey
    <3>5. \A r \in Requests, class \in RouteErrors \union {"none"} : Route(r, class) => style' = style
      BY DEF Route
    <3> QED
      BY <3>1, <3>2, <3>3, <3>4, <3>5 DEF EdgeNext, edgeVars
  <2>2. StatusFitsError' <=> \A r \in Requests :
          req'[r].at = "done" /\ req'[r].cause # NoError => fits(req'[r].status, req'[r].cause)
    BY <2>1 DEF StatusFitsError
  <2>3. \A r \in Requests :
          req[r].at = "done" /\ req[r].cause # NoError => fits(req[r].status, req[r].cause)
    BY DEF StatusFitsError
  <2> HIDE DEF fits
  <2>4. ASSUME NEW r \in Requests, Others(r),
               req'[r].at = "done" /\ req'[r].cause # NoError => fits(req'[r].status, req'[r].cause)
        PROVE  StatusFitsError'
    BY <2>2, <2>3, <2>4 DEF Others
  <2>5. CASE UNCHANGED edgeVars
    BY <2>2, <2>3, <2>5 DEF edgeVars
  <2>6. ASSUME NEW r \in Requests, Unwind(r)
        PROVE  StatusFitsError'
    <3> DEFINE cause == req[r].cause
    <3>1. /\ Others(r) /\ req'[r].cause = cause
          /\ req'[r].at = "done" =>
               /\ req'[r].status = Status(req[r].error)
               /\ \/ req[r].error = Passed(cause)
                  \/ req[r].error = cause /\ cause.class \in {"HTTPException", "RequestValidationError"}
      BY <2>6, UnwindStep
    <3>2. /\ cause \in Errors /\ cause.class \in Classes /\ req[r].error \in Errors
          /\ req[r].error.class # "none" /\ cause.class # "none"
      BY <2>6 DEF Unwind, EdgeInv, EdgeTyped, RequestRecord, Errors
    <3> HIDE DEF cause
    <3>3. ASSUME req'[r].at = "done"
          PROVE  fits(req'[r].status, cause)
      <4>1. CASE req[r].error = cause /\ ~ (style = "middleware" /\ IsA(cause.class, "AuthorizationError"))
        <5>1. req'[r].status = IF Nearest(cause.class) = "HTTPException" THEN cause.status
                               ELSE Handlers[Nearest(cause.class)]
          BY <1>1, <3>1, <3>2, <3>3, <4>1, StatusOfError
        <5> QED
          BY <4>1, <5>1 DEF fits
      <4>2. CASE /\ style = "middleware" /\ IsA(cause.class, "AuthorizationError")
                 /\ req[r].error = [class |-> "HTTPException", status |-> 401]
        <5>1. "HTTPException" \in Classes /\ Nearest("HTTPException") = "HTTPException"
          <6>1. "HTTPException" \in Classes
            BY DEF Classes
          <6>2. PICK k \in Registered("HTTPException") :
                  /\ Resolve("HTTPException") = Mro("HTTPException")[k]
                  /\ \A i \in Registered("HTTPException") : k <= i
            BY <6>1, ResolveIsFirst
          <6>3. 1 \in Registered("HTTPException") /\ Mro("HTTPException")[1] = "HTTPException"
            BY Hierarchy, HandlersOfBuiltIn DEF Registered
          <6>4. k = 1
            BY <6>2, <6>3 DEF Registered
          <6> QED
            BY <6>1, <6>2, <6>3, <6>4, ResolveIsNearest
        <5>2. req'[r].status = 401
          BY <1>1, <3>1, <3>2, <3>3, <4>2, <5>1, StatusOfError
        <5>3. Nearest(cause.class) # "HTTPException"
          BY <3>2, <4>2, AuthorizationFamily, ResolveIsNearest
        <5> QED
          BY <4>2, <5>2, <5>3 DEF fits
      <4>3. cause.class \in {"HTTPException", "RequestValidationError"} =>
              ~ IsA(cause.class, "AuthorizationError")
        BY Bases DEF IsA
      <4> QED
        BY <3>1, <3>3, <4>1, <4>2, <4>3 DEF Passed
    <3> QED
      BY <2>4, <3>1, <3>3
  <2>7. ASSUME NEW r \in Requests, NEW class \in RouteErrors \union {"none"}, Route(r, class)
        PROVE  StatusFitsError'
    BY <2>4, <2>7, RouteStep
  <2>8. ASSUME NEW r \in Requests, Others(r), req'[r].at # "done"
        PROVE  StatusFitsError'
    BY <2>4, <2>8
  <2>9. ASSUME NEW r \in Requests, Arrive(r) \/ Refresh(r) \/ Verify(r)
        PROVE  StatusFitsError'
    BY <2>8, <2>9, ArriveStep, RefreshStep, VerifyStep
  <2>10. ASSUME NEW r \in Requests, NEW fetch \in {"no", "yes", "fails"}, SigningKey(r, fetch)
        PROVE  StatusFitsError'
    BY <2>8, <2>10, SigningKeyStep
  <2>11. ASSUME NEW kids \in SUBSET Kids, Rotate(kids)
        PROVE  StatusFitsError'
    BY <2>2, <2>3, <2>11, RotateStep
  <2> QED
    BY <2>5, <2>6, <2>7, <2>9, <2>10, <2>11 DEF EdgeNext
<1> QED
  BY <1>2, <1>3, PTL DEF EdgeSpec
-------------------------------------------------------------------------------
(* What EdgeTypeOK needs besides: an answer has a status of HTTP, and only an  *)
(* HTTPException brings its own; the lock is held from the refresh until the   *)
(* second lookup is over.                                                      *)
Answered == {0, 200} \union 400..599

Coded(error) == error.class = "HTTPException" => error.status \in 400..599

EdgeNow ==
  /\ rotations \in 0..MaxRotations
  /\ \A r \in Requests :
       /\ req[r].status \in Answered
       /\ Coded(req[r].error)
       /\ keyLock = r <=> req[r].at = "relookup"

(* What EdgeNow says of one request.                                           *)
NowOf(r) ==
  /\ req[r].status \in Answered
  /\ Coded(req[r].error)
  /\ keyLock = r <=> req[r].at = "relookup"

LEMMA NowOfEach == EdgeNow <=> rotations \in 0..MaxRotations /\ \A r \in Requests : NowOf(r)
BY Zenon DEF EdgeNow, NowOf

(* It stays true of a request that keeps what it speaks of.                    *)
LEMMA NowOfKept ==
  ASSUME NEW r \in Requests, NowOf(r), keyLock' = r <=> keyLock = r,
         req'[r].at = req[r].at, req'[r].status = req[r].status, req'[r].error = req[r].error
  PROVE  NowOf(r)'
<1>1. Coded(req'[r].error)
  <2>1. Coded(req[r].error)
    BY Zenon DEF NowOf
  <2> QED
    BY <2>1
<1>2. req'[r].status \in Answered
  <2>1. req[r].status \in Answered
    BY Zenon DEF NowOf
  <2> QED
    BY <2>1
<1>3. keyLock' = r <=> req'[r].at = "relookup"
  <2>1. keyLock = r <=> req[r].at = "relookup"
    BY Zenon DEF NowOf
  <2> QED
    BY <2>1
<1> QED
  BY ONLY <1>1, <1>2, <1>3, Zenon DEF NowOf

(* The status of an error is that of a handler, or the one it came with.       *)
LEMMA StatusIsAnswer ==
  ASSUME NEW e \in Errors, e.class # "none", Coded(e)
  PROVE  Status(e) \in Answered
<1>1. e.class \in Classes /\ e.status \in Int
  BY DEF Errors
<1>2. Resolve(e.class) \in DOMAIN Handlers /\ IsA(e.class, Resolve(e.class))
  BY <1>1, ResolveIsNearest
<1>3. CASE Handlers[Resolve(e.class)] \in 400..599
  BY <1>3 DEF Status, Answered
<1>4. CASE Handlers[Resolve(e.class)] = 0 /\ Resolve(e.class) = "HTTPException"
  <2>1. e.class = "HTTPException"
    BY <1>1, <1>2, <1>4, Bases DEF IsA, Classes
  <2> QED
    BY <1>4, <2>1 DEF Status, Answered, Coded
<1> QED
  BY <1>2, <1>3, <1>4, HandlersOfBuiltIn

(* A step of one request is judged by what it does to it and to the lock.      *)
LEMMA NowJudged ==
  ASSUME EdgeNow, NEW r \in Requests, Others(r), rotations' = rotations,
         req'[r].status \in Answered, Coded(req'[r].error),
         keyLock' = r <=> req'[r].at = "relookup",
         \A u \in Requests : u # r => (keyLock' = u <=> keyLock = u)
  PROVE  EdgeNow'
<1>1. NowOf(r)'
  BY ONLY req'[r].status \in Answered, Coded(req'[r].error), keyLock' = r <=> req'[r].at = "relookup",
          Zenon DEF NowOf
<1>2. ASSUME NEW u \in Requests, u # r
      PROVE  NowOf(u)'
  <2>1. NowOf(u)
    BY NowOfEach, Zenon
  <2>2. req'[u] = req[u]
    BY <1>2, Zenon DEF Others
  <2> QED
    BY <1>2, <2>1, <2>2, NowOfKept
<1>3. rotations' \in 0..MaxRotations
  BY NowOfEach
<1>4. \A u \in Requests : NowOf(u)'
  BY <1>1, <1>2, Zenon
<1> QED
  BY ONLY <1>3, <1>4, Zenon DEF EdgeNow, NowOf

LEMMA EdgeNowInit == EdgeInit => EdgeNow
<1> SUFFICES ASSUME EdgeInit
             PROVE  EdgeNow
  OBVIOUS
<1>1. rotations \in 0..MaxRotations
  BY EdgeAssumption DEF EdgeInit
<1>2. ASSUME NEW r \in Requests
      PROVE  /\ req[r].status = 0 /\ req[r].error = NoError
             /\ keyLock # r /\ req[r].at = "new"
  <2>1. PICK t \in BearerTokens : req[r] = Fresh(t)
    BY DEF EdgeInit
  <2>2. keyLock # r
    BY EdgeAssumption DEF EdgeInit
  <2> QED
    BY <2>1, <2>2 DEF Fresh
<1>3. 0 \in Answered /\ Coded(NoError)
  BY DEF Answered, Coded, NoError
<1>4. ASSUME NEW r \in Requests
      PROVE  NowOf(r)
  BY <1>2, <1>3 DEF NowOf
<1> QED
  BY ONLY <1>1, <1>4, NowOfEach, Zenon
LEMMA RaisedNow ==
  ASSUME EdgeInv, EdgeNow, NEW r \in Requests, NEW class \in Classes, NEW status \in Int,
         NEW at \in {"inner", "auth", "outer"}, Raises(r, class, status, at),
         class = "HTTPException" => status \in 400..599,
         req[r].at # "relookup", keyLock' = keyLock, rotations' = rotations
  PROVE  EdgeNow'
<1>1. /\ Others(r) /\ req'[r].at = at /\ req'[r].status = req[r].status
      /\ req'[r].error = [class |-> class, status |-> status]
  BY RaisesOf DEF EdgeInv
<1>2. req'[r].status \in Answered /\ Coded(req'[r].error)
  BY <1>1 DEF EdgeNow, Coded
<1>3. keyLock' = r <=> req'[r].at = "relookup"
  BY <1>1 DEF EdgeNow
<1> QED
  BY <1>1, <1>2, <1>3, NowJudged

LEMMA WentNow ==
  ASSUME EdgeInv, EdgeNow, NEW r \in Requests, NEW at \in Stages \ {"relookup"}, Goes(r, at),
         \/ keyLock' = keyLock /\ req[r].at # "relookup"
         \/ keyLock' = Unlocked(r),
         rotations' = rotations
  PROVE  EdgeNow'
<1>1. /\ Others(r) /\ req'[r].at = at /\ req'[r].status = req[r].status
      /\ req'[r].error = req[r].error
  BY GoesOf DEF EdgeInv
<1>2. req'[r].status \in Answered /\ Coded(req'[r].error)
  BY <1>1 DEF EdgeNow
<1>3. /\ keyLock' = r <=> req'[r].at = "relookup"
      /\ \A u \in Requests : u # r => (keyLock' = u <=> keyLock = u)
  BY <1>1, EdgeAssumption DEF EdgeNow, Unlocked
<1> QED
  BY <1>1, <1>2, <1>3, NowJudged

LEMMA RespondedNow ==
  ASSUME EdgeInv, EdgeNow, NEW r \in Requests, Respond(r), req[r].error.class # "none",
         req[r].at # "relookup", keyLock' = keyLock, rotations' = rotations
  PROVE  EdgeNow'
<1>1. /\ Others(r) /\ req'[r].at = "done" /\ req'[r].status = Status(req[r].error)
      /\ req'[r].error = NoError
  BY RespondOf DEF EdgeInv
<1>2. req[r].error \in Errors /\ Coded(req[r].error)
  BY DEF EdgeInv, EdgeTyped, RequestRecord, EdgeNow
<1>3. req'[r].status \in Answered /\ Coded(req'[r].error)
  BY <1>1, <1>2, StatusIsAnswer DEF Coded, NoError
<1>4. keyLock' = r <=> req'[r].at = "relookup"
  BY <1>1 DEF EdgeNow
<1> QED
  BY <1>1, <1>3, <1>4, NowJudged

LEMMA LookedUpNow ==
  ASSUME EdgeInv, EdgeNow, NEW r \in Requests, NEW fetch \in {"no", "yes", "fails"},
         SigningKey(r, fetch)
  PROVE  EdgeNow'
<1>1. /\ req[r] \in RequestRecord /\ req \in [Requests -> RequestRecord]
      /\ keyLock' = Unlocked(r) /\ rotations' = rotations
  BY DEF SigningKey, EdgeInv, EdgeTyped
<1>2. CASE Goes(r, "verify")
  BY <1>1, <1>2, WentNow DEF Stages
<1>3. ASSUME Others(r), req'[r].at \in {"waiting", "inner", "auth"}, req'[r].status = req[r].status,
             req'[r].error = req[r].error \/ req'[r].error = Refused
      PROVE  EdgeNow'
  <2>1. NowOf(r)
    BY NowOfEach, Zenon
  <2>2. req'[r].status \in Answered
    BY <1>3, <2>1 DEF NowOf
  <2>3. Coded(req[r].error) /\ Coded(Refused)
    BY <2>1 DEF NowOf, Coded, Refused
  <2>4. Coded(req'[r].error)
    BY <1>3, <2>3
  <2>5. /\ keyLock' = r <=> req'[r].at = "relookup"
        /\ \A u \in Requests : u # r => (keyLock' = u <=> keyLock = u)
    BY <1>1, <1>3, EdgeAssumption DEF EdgeNow, Unlocked
  <2> QED
    BY <1>1, <1>3, <2>2, <2>4, <2>5, NowJudged
<1>4. CASE req' = [req EXCEPT ![r].at = "waiting", ![r].failed = IF fetch = "fails" THEN 1 ELSE 0]
  BY <1>1, <1>3, <1>4 DEF RequestRecord, Others
<1>5. CASE req' = [req EXCEPT ![r].at = Layer, ![r].error = Refused, ![r].cause = Refused,
                              ![r].failed = IF fetch = "fails" THEN @ + 1 ELSE @]
  <2>1. Layer \in {"inner", "auth"}
    BY DEF Layer
  <2> QED
    BY <1>1, <1>3, <1>5, <2>1 DEF RequestRecord, Others
<1> QED
  BY <1>2, <1>4, <1>5 DEF SigningKey

LEMMA EdgeNowStep == EdgeInv /\ EdgeNow /\ [EdgeNext]_edgeVars => EdgeNow'
<1> SUFFICES ASSUME EdgeInv, EdgeNow, [EdgeNext]_edgeVars
             PROVE  EdgeNow'
  OBVIOUS
<1>0. req \in [Requests -> RequestRecord]
  BY DEF EdgeInv, EdgeTyped
<1>1. CASE UNCHANGED edgeVars
  BY <1>1 DEF EdgeNow, edgeVars
<1>2. ASSUME NEW r \in Requests, Arrive(r)
      PROVE  EdgeNow'
  <2>1. req[r].at = "new" /\ keyLock' = keyLock /\ rotations' = rotations
    BY <1>2 DEF Arrive
  <2>2. CASE Raises(r, "HTTPException", 401, Layer)
    <3>1. "HTTPException" \in Classes /\ Layer \in {"inner", "auth", "outer"}
      BY DEF Classes, Layer
    <3> QED
      BY <2>1, <2>2, <3>1, RaisedNow
  <2>3. CASE req' = [req EXCEPT ![r].at = "lookup", ![r].client = client,
                                ![r].steady = req[r].token.kid \in pool]
    <3>1. /\ Others(r) /\ req'[r].at = "lookup" /\ req'[r].status = req[r].status
          /\ req'[r].error = req[r].error
      BY <1>0, <2>3 DEF RequestRecord, Others
    <3> QED
      BY <2>1, <3>1, NowJudged DEF EdgeNow
  <2> QED
    BY <1>2, <2>2, <2>3 DEF Arrive
<1>3. ASSUME NEW r \in Requests, Refresh(r)
      PROVE  EdgeNow'
  <2>1. keyLock = Nobody /\ keyLock' = r /\ rotations' = rotations
    BY <1>3 DEF Refresh
  <2>2. /\ Others(r) /\ req'[r].at = "relookup" /\ req'[r].status = req[r].status
        /\ req'[r].error = req[r].error
    BY <1>0, <1>3 DEF Refresh, RequestRecord, Others
  <2> QED
    BY <2>1, <2>2, EdgeAssumption, NowJudged DEF EdgeNow
<1>4. ASSUME NEW r \in Requests, Verify(r)
      PROVE  EdgeNow'
  <2>1. req[r].at = "verify" /\ keyLock' = keyLock /\ rotations' = rotations
    BY <1>4 DEF Verify
  <2>2. CASE Goes(r, "route")
    BY <2>1, <2>2, WentNow DEF Stages
  <2>3. CASE /\ Raises(r, ClaimsError(req[r].token.claims), 0, Layer)
             /\ ClaimsError(req[r].token.claims) # "none"
    <3>1. req[r].token.claims \in {"ok", "expired", "odd"}
      BY <1>0, EdgeAssumption DEF RequestRecord, BearerTokens
    <3>2. ClaimsError(req[r].token.claims) \in Classes \ {"HTTPException"}
      BY <2>3, <3>1 DEF ClaimsError, Classes
    <3>3. Layer \in {"inner", "auth", "outer"} /\ 0 \in Int
      BY DEF Layer
    <3> QED
      BY <2>1, <2>3, <3>2, <3>3, RaisedNow
  <2> QED
    BY <1>4, <2>2, <2>3 DEF Verify
<1>5. ASSUME NEW r \in Requests, Unwind(r)
      PROVE  EdgeNow'
  <2>1. /\ req[r].at \in {"inner", "auth", "outer"} /\ keyLock' = keyLock /\ rotations' = rotations
        /\ req[r].error.class # "none"
    BY <1>5 DEF Unwind, EdgeInv, EdgeTyped
  <2>2. CASE Respond(r)
    BY <2>1, <2>2, RespondedNow
  <2>3. ASSUME NEW at \in {"auth", "outer"}, Goes(r, at)
        PROVE  EdgeNow'
    BY <2>1, <2>3, WentNow DEF Stages
  <2>4. CASE Raises(r, "HTTPException", 401, "outer")
    <3>1. "HTTPException" \in Classes
      BY DEF Classes
    <3> QED
      BY <2>1, <2>4, <3>1, RaisedNow
  <2>5. (IF style = "middleware" THEN "auth" ELSE "outer") \in {"auth", "outer"}
    OBVIOUS
  <2> QED
    BY <1>5, <2>2, <2>3, <2>4, <2>5 DEF Unwind
<1>6. ASSUME NEW r \in Requests, NEW fetch \in {"no", "yes", "fails"}, SigningKey(r, fetch)
      PROVE  EdgeNow'
  BY <1>6, LookedUpNow
<1>7. ASSUME NEW r \in Requests, NEW class \in RouteErrors \union {"none"}, Route(r, class)
      PROVE  EdgeNow'
  <2>1. req[r].at = "route" /\ keyLock' = keyLock /\ rotations' = rotations
    BY <1>7 DEF Route
  <2>2. CASE class = "none"
    <3>1. /\ Others(r) /\ req'[r].at = "done" /\ req'[r].status = 200
          /\ req'[r].error = req[r].error
      BY <1>0, <1>7, <2>2 DEF Route, RequestRecord, Others
    <3>2. Coded(req[r].error) /\ (keyLock = r <=> req[r].at = "relookup")
      BY NowOfEach, Zenon DEF NowOf
    <3>3. req'[r].status \in Answered /\ Coded(req'[r].error)
      BY <3>1, <3>2 DEF Answered
    <3>4. /\ keyLock' = r <=> req'[r].at = "relookup"
          /\ \A u \in Requests : u # r => (keyLock' = u <=> keyLock = u)
      BY <2>1, <3>1, <3>2
    <3> QED
      BY <2>1, <3>1, <3>3, <3>4, NowJudged
  <2>3. CASE class # "none"
    <3>1. PICK status \in {404, 0} :
            /\ Raises(r, class, status, "inner")
            /\ class = "HTTPException" => status = 404
      BY <1>7, <2>3 DEF Route
    <3>2. class \in Classes /\ status \in Int
      BY <2>3, EdgeAssumption
    <3>3. class = "HTTPException" => status \in 400..599
      BY <3>1
    <3> QED
      BY <2>1, <3>1, <3>2, <3>3, RaisedNow
  <2> QED
    BY <2>2, <2>3
<1>8. ASSUME NEW kids \in SUBSET Kids, Rotate(kids)
      PROVE  EdgeNow'
  <2>1. rotations' \in 0..MaxRotations /\ keyLock' = keyLock
    BY <1>8, EdgeAssumption DEF Rotate, EdgeNow
  <2>2. ASSUME NEW r \in Requests
        PROVE  /\ req'[r].at = req[r].at /\ req'[r].status = req[r].status
               /\ req'[r].error = req[r].error
    BY <1>0, <1>8 DEF Rotate, RequestRecord
  <2>3. ASSUME NEW r \in Requests
        PROVE  NowOf(r)'
    <3>1. NowOf(r)
      BY NowOfEach, Zenon
    <3>2. keyLock' = r <=> keyLock = r
      BY <2>1
    <3> QED
      BY ONLY <2>2, <3>1, <3>2, r \in Requests, NowOfKept
  <2> QED
    BY ONLY <2>1, <2>3, Zenon DEF EdgeNow, NowOf
<1> QED
  BY <1>1, <1>2, <1>3, <1>4, <1>5, <1>6, <1>7, <1>8 DEF EdgeNext

(* A client's number never exceeds the requests there are.                     *)
LEMMA EdgeTypes == EdgeInv /\ EdgeNow => EdgeTypeOK
<1> SUFFICES ASSUME EdgeInv, EdgeNow
             PROVE  EdgeTypeOK
  OBVIOUS
<1>1. \A n \in Nat : n <= client => n \in Clients
  BY BeyondFinite DEF EdgeInv, EdgeTyped, Clients
<1>2. client \in Clients
  BY <1>1 DEF EdgeInv, EdgeTyped
<1>3. ASSUME NEW r \in Requests
      PROVE  req[r].at \in Stages /\ req[r].client \in Clients
  <2>1. req[r] \in RequestRecord /\ req[r].client <= client
    BY DEF EdgeInv, EdgeTyped
  <2>2. req[r].at \in Stages /\ req[r].client \in Nat
    BY <2>1 DEF RequestRecord
  <2> QED
    BY <1>1, <2>1, <2>2
<1> QED
  BY <1>2, <1>3 DEF EdgeInv, EdgeTyped, EdgeNow, Answered, Stages, EdgeTypeOK

(* Numbers, statuses and the lock of the edge are what they are said to be.    *)
THEOREM EdgeTypeCorrect == EdgeSpec => []EdgeTypeOK
<1>1. EdgeInit => EdgeInv /\ EdgeNow
  BY EdgeInitOK, EdgeNowInit
<1>2. EdgeInv /\ EdgeNow /\ [EdgeNext]_edgeVars => (EdgeInv /\ EdgeNow)'
  BY EdgeStep, EdgeNowStep
<1>3. EdgeInv /\ EdgeNow => EdgeTypeOK
  BY EdgeTypes
<1> QED
  BY <1>1, <1>2, <1>3, PTL DEF EdgeSpec
-------------------------------------------------------------------------------
(* The run of all benches is a behaviour of each part, so that what is proved  *)
(* of the parts holds of the run (client/, web/, jsonapi/).                    *)
LEMMA BenchesArePlayed == MCSpec => Spec /\ EdgeSpec /\ PagesSpec /\ DocumentsSpec
<1>1. MCInit => Init /\ EdgeInit /\ PagesInit /\ DocumentsInit
  BY DEF MCInit
<1>2. [MCNext]_benchVars => [Next]_vars /\ [EdgeNext]_edgeVars /\ [PagesNext]_pagesVars
                            /\ [DocumentsNext]_documentsVars
  BY DEF MCNext, benchVars
<1> QED
  BY <1>1, <1>2, PTL DEF MCSpec, Spec, EdgeSpec, PagesSpec, DocumentsSpec

(* Client, edge, pages and documents keep their types in the run of all        *)
(* benches (client/, web/, jsonapi/).                                          *)
THEOREM WebTypeCorrect == MCSpec => []WebTypeOK
<1>1. Spec => []TypeOK
  <2>1. Init => TypeOK
    BY InitOK
  <2>2. TypeOK /\ [Next]_vars => TypeOK'
    BY TypeStep
  <2> QED
    BY <2>1, <2>2, PTL DEF Spec
<1>2. WebTypeOK <=> TypeOK /\ EdgeTypeOK /\ PagesTypeOK /\ DocumentsTypeOK
  BY DEF WebTypeOK
<1> QED
  BY <1>1, <1>2, BenchesArePlayed, EdgeTypeCorrect, PagesTypeCorrect, DocumentsTypeCorrect, PTL
===============================================================================
