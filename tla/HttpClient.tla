------------------------------ MODULE HttpClient ------------------------------
(***************************************************************************)
(* Requests of one HttpClient (client/http.py) with a Cognito client-      *)
(* credentials authenticator (auth/cognito/authenticator.py), sent through *)
(* RetryTransport (client/transport/retry).  All requests share the cached *)
(* token and its lock; each keeps the headers it was given when it started,*)
(* through all of its attempts.  The token endpoint and the server are the *)
(* external part: they know how long a token is really valid, the client   *)
(* knows when the answer arrived and what it said the lifetime was.        *)
(***************************************************************************)
EXTENDS Integers

CONSTANTS Tasks,        \* coroutines that send requests
          Idempotent,   \* tasks whose method is one of RETRYABLE_METHODS
          MaxAttempts,  \* max_attempts of the transport
          MaxDelay,     \* the longest backoff or Retry-After that is waited
          Timeout,      \* the longest a request may take
          Buffer,       \* _time_buffer: a token is expired this long before its end
          Lifetimes,    \* what expires_in may say
          MaxTime       \* bound: the clock stops here

ASSUME HttpAssumption ==
  /\ Idempotent \subseteq Tasks
  /\ MaxAttempts \in Nat \ {0} /\ MaxDelay \in Nat /\ MaxTime \in Nat
  /\ Timeout \in Nat /\ Buffer \in Nat
  /\ Buffer >= 2 * Timeout                        \* 5 minutes, 60 seconds
  /\ Lifetimes \subseteq {n \in Nat : n > 2 * Timeout}  \* Cognito: at least 5 minutes

None == "none"
NoToken == [exp |-> 0, valid |-> 0]
Tokens == [exp : Nat, valid : Nat]      \* the client's expiry, the server's
Statuses == {"ok", "unauthorized", "unavailable", "rejected"}

ASSUME NoTaskIsNone == None \notin Tasks

VARIABLES now,       \* clock
          cached,    \* _cached_token
          lock,      \* task inside `async with self._lock`, waiting for its fetch
          pc,        \* where each request is
          token,     \* token in its headers; while it is fetched, what was issued
          timer,     \* deadline of the exchange it waits for, or end of its sleep
          attempt,   \* of the retry loop
          response,  \* last response the loop has seen
          answered,  \* history: attempt that response came from
          served     \* history: times the server may have executed the request

vars == <<now, cached, lock, pc, token, timer, attempt, response, answered, served>>
request == <<attempt, response, answered, served>>

TypeOK ==
  /\ now \in Nat /\ cached \in Tokens
  /\ lock \in Tasks \union {None}
  /\ pc \in [Tasks -> {"start", "fetch", "fetched", "send", "sleep", "returned", "raised"}]
  /\ token \in [Tasks -> Tokens]
  /\ timer \in [Tasks -> Nat]
  /\ attempt \in [Tasks -> 1..MaxAttempts]
  /\ response \in [Tasks -> Statuses \union {None}]
  /\ answered \in [Tasks -> 0..MaxAttempts]
  /\ served \in [Tasks -> Nat]

Init ==
  /\ now = 0 /\ cached = NoToken /\ lock = None
  /\ pc = [t \in Tasks |-> "start"]
  /\ token = [t \in Tasks |-> NoToken]
  /\ timer = [t \in Tasks |-> 0]
  /\ attempt = [t \in Tasks |-> 1]
  /\ response = [t \in Tasks |-> None]
  /\ answered = [t \in Tasks |-> 0]
  /\ served = [t \in Tasks |-> 0]

GoTo(t, p) == pc' = [pc EXCEPT ![t] = p]
SetTimer(t, n) == timer' = [timer EXCEPT ![t] = n]
-------------------------------------------------------------------------------
(* get_token().                                                            *)
MutExpired(tk) == now >= tk.exp

Expired(tk) == now >= tk.exp - Buffer

UseCached(t) ==
  /\ pc[t] = "start" /\ lock = None /\ ~ Expired(cached)
  /\ token' = [token EXCEPT ![t] = cached]
  /\ GoTo(t, "send") /\ SetTimer(t, now + Timeout)
  /\ UNCHANGED <<now, cached, lock, request>>

FetchToken(t) ==
  /\ pc[t] = "start" /\ lock = None /\ Expired(cached)
  /\ lock' = t
  /\ GoTo(t, "fetch") /\ SetTimer(t, now + Timeout)
  /\ UNCHANGED <<now, cached, token, request>>

(* The endpoint issues a token; its lifetime counts from here. *)
Issue(t, life) ==
  /\ pc[t] = "fetch"
  /\ token' = [token EXCEPT ![t] = [exp |-> life, valid |-> now + life]]
  /\ GoTo(t, "fetched")
  /\ UNCHANGED <<now, cached, lock, timer, request>>

(* ... and for the client from the moment the answer is read.  The token   *)
(* is cached and used even if it counts as expired already.                *)
TokenArrives(t) ==
  /\ pc[t] = "fetched"
  /\ cached' = [exp |-> now + token[t].exp, valid |-> token[t].valid]
  /\ token' = [token EXCEPT ![t] = cached']
  /\ lock' = None
  /\ GoTo(t, "send") /\ SetTimer(t, now + Timeout)
  /\ UNCHANGED <<now, request>>

(* The POST to the endpoint is not retried; its error is the caller's. *)
FetchFails(t) ==
  /\ pc[t] \in {"fetch", "fetched"}
  /\ lock' = None
  /\ GoTo(t, "raised")
  /\ UNCHANGED <<now, cached, token, timer, request>>
-------------------------------------------------------------------------------
(* _async_retry_loop.                                                      *)
MutRetries(t, what) == what \in {"unauthorized", "unavailable", "error"}

(* should_retry: by method, then by status or kind of error. *)
Retries(t, what) == t \in Idempotent /\ what \in {"unauthorized", "unavailable", "error"}

Backoff(t) == GoTo(t, "sleep") /\ \E d \in 0..MaxDelay : SetTimer(t, now + d)

(* The server answers; it lets nobody in whose token has run out. *)
Answer(t, s) ==
  /\ pc[t] = "send"
  /\ (s = "unauthorized") <=> (now >= token[t].valid)
  /\ response' = [response EXCEPT ![t] = s]
  /\ answered' = [answered EXCEPT ![t] = attempt[t]]
  /\ served' = [served EXCEPT ![t] = IF s = "unauthorized" THEN @ ELSE @ + 1]
  /\ IF Retries(t, s) THEN Backoff(t) ELSE GoTo(t, "returned") /\ UNCHANGED timer
  /\ UNCHANGED <<now, cached, lock, token, attempt>>

(* The exchange fails with an httpx error or with another, before or after *)
(* the server executed the request; an earlier response stays in place.    *)
SendFails(t, kind) ==
  /\ pc[t] = "send"
  /\ served' \in {served, [served EXCEPT ![t] = @ + 1]}
  /\ IF Retries(t, kind) THEN Backoff(t) ELSE GoTo(t, "raised") /\ UNCHANGED timer
  /\ UNCHANGED <<now, cached, lock, token, attempt, response, answered>>

MutWake(t) ==
  /\ pc[t] = "sleep" /\ now >= timer[t]
  /\ GoTo(t, "send") /\ SetTimer(t, now + Timeout)
  /\ attempt' = [attempt EXCEPT ![t] = @ + 1]
  /\ UNCHANGED <<now, cached, lock, token, response, answered, served>>

(* The sleep is over: the next attempt, or the loop is through and returns *)
(* what it has, a response or None.                                        *)
Wake(t) ==
  /\ pc[t] = "sleep" /\ now >= timer[t]
  /\ IF attempt[t] < MaxAttempts
     THEN /\ GoTo(t, "send") /\ SetTimer(t, now + Timeout)
          /\ attempt' = [attempt EXCEPT ![t] = @ + 1]
     ELSE GoTo(t, "returned") /\ UNCHANGED <<timer, attempt>>
  /\ UNCHANGED <<now, cached, lock, token, response, answered, served>>

(* The caller has its answer; the task sends another request later. *)
NextRequest(t) ==
  /\ pc[t] \in {"returned", "raised"}
  /\ GoTo(t, "start")
  /\ attempt' = [attempt EXCEPT ![t] = 1]
  /\ response' = [response EXCEPT ![t] = None]
  /\ answered' = [answered EXCEPT ![t] = 0]
  /\ served' = [served EXCEPT ![t] = 0]
  /\ token' = [token EXCEPT ![t] = NoToken]
  /\ SetTimer(t, 0)
  /\ UNCHANGED <<now, cached, lock>>

(* No exchange outlives its timeout. *)
Tick ==
  /\ now < MaxTime
  /\ \A t \in Tasks : pc[t] \in {"fetch", "fetched", "send"} => now < timer[t]
  /\ now' = now + 1
  /\ UNCHANGED <<cached, lock, pc, token, timer, request>>

Next ==
  \/ Tick
  \/ \E t \in Tasks :
       \/ UseCached(t) \/ FetchToken(t) \/ TokenArrives(t) \/ FetchFails(t)
       \/ Wake(t) \/ NextRequest(t)
       \/ \E life \in Lifetimes : Issue(t, life)
       \/ \E s \in Statuses : Answer(t, s)
       \/ \E kind \in {"error", "other"} : SendFails(t, kind)

Spec == Init /\ [][Next]_vars
-------------------------------------------------------------------------------
(* No first attempt is refused because its token ran out, although nobody  *)
(* tells the client when a token was issued: the buffer makes up for the   *)
(* time the token and the request spend on the wire, for whichever task    *)
(* fetched the token and however long it lay in the cache                  *)
(* (authenticator.py:30-49, types.py:15-20).                               *)
FirstAttemptAuthorized ==
  \A t \in Tasks : pc[t] = "send" /\ attempt[t] = 1 => now < token[t].valid

(* The token endpoint is asked by one task at a time, and the lock is held *)
(* exactly as long: a failed fetch does not leave the others waiting       *)
(* (authenticator.py:31-35).                                               *)
OneFetch == \A t \in Tasks : pc[t] \in {"fetch", "fetched"} <=> lock = t

(* A request that must not be repeated is executed at most once, whatever  *)
(* the exchange ends with (strategies.py:23-24).                           *)
ExecutedOnce == \A t \in Tasks \ Idempotent : served[t] <= 1

(* What the loop returns at last is the response of the last attempt       *)
(* (transport.py:112, "Final failed attempt").                             *)
ReturnsLastAttempt == \A t \in Tasks : pc[t] = "returned" => answered[t] = attempt[t]
===============================================================================
