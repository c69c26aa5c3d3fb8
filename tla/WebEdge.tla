------------------------------- MODULE WebEdge -------------------------------
(***************************************************************************)
(* The edge of a MidilAPI application: a request's token is verified with  *)
(* the keys of the Cognito pool (auth/cognito/jwt_authorizer.py), in the   *)
(* auth middleware or in a dependency of the route, and whatever is raised *)
(* is answered through the JSON:API dispatcher (web/middleware/auth.py,    *)
(* web/dependencies/auth.py, web/handlers.py, web/__init__.py).  Requests  *)
(* run concurrently and share one authorizer: its client is replaced under *)
(* a lock.  The layers, outside in, are those of Starlette: server errors  *)
(* (answer and raise again), the middleware, HTTP and validation errors,   *)
(* the route.  PyJWKClient keeps the keys it fetched and fetches once more *)
(* for a key id it does not know.                                          *)
(***************************************************************************)
EXTENDS Integers, FiniteSets, SequencesExt

CONSTANTS Requests,
          Kids,          \* key ids of the pool
          Claims,        \* "ok", "expired", or "odd": the model of the claims rejects them
          RouteErrors,   \* classes a route may raise
          Mapped,        \* the application's own mappings: class and status
          MaxRotations   \* bound

(* exceptions.py, with "Forbidden", an application's own subclass. *)
Mro(class) ==
  CASE class = "Exception" -> <<"Exception">>
    [] class \in {"HTTPException", "RequestValidationError", "MidilError"} -> <<class, "Exception">>
    [] class \in {"BaseAuthError", "CursorError"} -> <<class, "MidilError", "Exception">>
    [] class \in {"AuthenticationError", "AuthorizationError"} ->
         <<class, "BaseAuthError", "MidilError", "Exception">>
    [] class \in {"CognitoAuthorizationError", "Forbidden"} ->
         <<class, "AuthorizationError", "BaseAuthError", "MidilError", "Exception">>
    [] class = "ExpiredCursorError" -> <<class, "CursorError", "MidilError", "Exception">>

IsA(class, base) == base \in ToSet(Mro(class))

(* Classes of the exceptions that are told apart. *)
Classes == {"Exception", "HTTPException", "RequestValidationError", "MidilError", "BaseAuthError",
            "CursorError", "AuthenticationError", "AuthorizationError", "CognitoAuthorizationError",
            "Forbidden", "ExpiredCursorError"}

Nobody == "nobody"

ASSUME EdgeAssumption ==
  /\ IsFiniteSet(Requests) /\ Nobody \notin Requests
  /\ Kids \intersect {"missing", "malformed"} = {}
  /\ Claims \subseteq {"ok", "expired", "odd"} /\ MaxRotations \in Nat
  /\ RouteErrors \subseteq Classes
  /\ \A m \in Mapped : m[2] \in 400..599

VARIABLES style,      \* tokens are verified in the "middleware" or in a "dependency"
          pool,       \* key ids the pool publishes
          rotations,
          client,     \* _jwk_client, by number
          keys,       \* the key ids each client has fetched
          keyLock,    \* who holds _jwk_client_lock
          req         \* per request: where it is, token, client, error, answer, history

edgeVars == <<style, pool, rotations, client, keys, keyLock, req>>

BearerTokens == [kid : Kids, claims : Claims] \union [kid : {"missing", "malformed"}, claims : {"ok"}]
NoError == [class |-> "none", status |-> 0]
Fresh(t) == [at |-> "new", token |-> t, client |-> 0, error |-> NoError, cause |-> NoError,
                 status |-> 0, failed |-> 0, steady |-> FALSE]
Refused == [class |-> "CognitoAuthorizationError", status |-> 0]
Clients == 0..Cardinality(Requests)

EdgeTypeOK ==
  /\ style \in {"middleware", "dependency"} /\ pool \subseteq Kids /\ rotations \in 0..MaxRotations
  /\ client \in Clients /\ keys \in [Clients -> SUBSET Kids]
  /\ \A r \in Requests :
       /\ req[r].at \in {"new", "lookup", "waiting", "relookup", "verify", "route",
                         "inner", "auth", "outer", "done"}
       /\ req[r].status \in {0, 200} \union 400..599 /\ req[r].client \in Clients
       /\ keyLock = r <=> req[r].at = "relookup"

(* _handlers: class to status, 0 for the status of the exception itself.   *)
BuiltIn == [c \in {"Exception", "MidilError", "AuthenticationError", "AuthorizationError",
                   "RequestValidationError", "HTTPException"} |->
              CASE c \in {"Exception", "MidilError"} -> 500
                [] c \in {"AuthenticationError", "AuthorizationError"} -> 401
                [] c = "RequestValidationError" -> 422 [] OTHER -> 0]

(* register() and map_exception(): the application's mappings come last.   *)
Handlers == [c \in DOMAIN BuiltIn \union {m[1] : m \in Mapped} |->
               IF \E m \in Mapped : m[1] = c THEN (CHOOSE m \in Mapped : m[1] = c)[2] ELSE BuiltIn[c]]

EdgeInit ==
  /\ style \in {"middleware", "dependency"}
  /\ pool \in SUBSET Kids /\ rotations = 0
  /\ client = 0 /\ keys = [c \in Clients |-> {}] /\ keyLock = Nobody
  /\ req \in [Requests -> {Fresh(t) : t \in BearerTokens}]
-------------------------------------------------------------------------------
Goes(r, at) == req' = [req EXCEPT ![r].at = at]

(* Where an exception raised by the middleware, or inside of the route's   *)
(* layer, is met first.                                                    *)
Layer == IF style = "middleware" THEN "auth" ELSE "inner"

Raises(r, class, status, at) ==
  req' = [req EXCEPT ![r].at = at, ![r].error = [class |-> class, status |-> status],
                         ![r].cause = IF @ = NoError THEN [class |-> class, status |-> status] ELSE @]

(* No Authorization header is an HTTPException, here or in HTTPBearer.     *)
Arrive(r) ==
  /\ req[r].at = "new"
  /\ IF req[r].token.kid = "missing" THEN Raises(r, "HTTPException", 401, Layer)
     ELSE req' = [req EXCEPT ![r].at = "lookup", ![r].client = client,
                                 ![r].steady = req[r].token.kid \in pool]
  /\ UNCHANGED <<style, pool, rotations, client, keys, keyLock>>

MutRetriesLookup(r) == req[r].at = "lookup" /\ keys[req[r].client] # {}

(* A PyJWKClientError of the first lookup; that a token cannot be read is none. *)
RetriesLookup(r) == req[r].at = "lookup" /\ req[r].token.kid # "malformed"

(* async with: the lock is left however the lookup ends.                   *)
Unlocked(r) == IF keyLock = r THEN Nobody ELSE keyLock

(* get_signing_key_from_jwt in its thread: a token that cannot be read, a  *)
(* key at hand, a fetch for one that is not or is too old, a failed fetch. *)
SigningKey(r, fetch) ==
  LET me == req[r]
  IN /\ me.at \in {"lookup", "relookup"}
     /\ me.token.kid = "malformed" => fetch = "no"
     /\ fetch = "no" => me.token.kid \in keys[me.client] \union {"malformed"}
     /\ keys' = IF fetch = "yes" THEN [keys EXCEPT ![me.client] = pool] ELSE keys
     /\ keyLock' = Unlocked(r)
     /\ IF fetch # "fails" /\ me.token.kid \in keys'[me.client] THEN Goes(r, "verify")
        ELSE IF RetriesLookup(r)
        THEN req' = [req EXCEPT ![r].at = "waiting", ![r].failed = IF fetch = "fails" THEN 1 ELSE 0]
        ELSE req' = [req EXCEPT ![r].at = Layer, ![r].error = Refused, ![r].cause = Refused,
                                ![r].failed = IF fetch = "fails" THEN @ + 1 ELSE @]
     /\ UNCHANGED <<style, pool, rotations, client>>

(* The retry asks a client without any key, which everybody uses from now on. *)
SecondClient == client + 1

Refresh(r) ==
  /\ req[r].at = "waiting" /\ keyLock = Nobody /\ keyLock' = r
  /\ client' = SecondClient
  /\ req' = [req EXCEPT ![r].at = "relookup", ![r].client = SecondClient]
  /\ UNCHANGED <<style, pool, rotations, keys>>

(* jwt.decode, and the model of the claims, whose error is no JWT error.   *)
ClaimsError(claims) ==
  CASE claims = "ok" -> "none" [] claims = "expired" -> "CognitoAuthorizationError"
    [] claims = "odd" -> "Exception"

Verify(r) ==
  LET error == ClaimsError(req[r].token.claims)
  IN /\ req[r].at = "verify"
     /\ IF error = "none" THEN Goes(r, "route") ELSE Raises(r, error, 0, Layer)
     /\ UNCHANGED <<style, pool, rotations, client, keys, keyLock>>

(* The route answers, or it or the validation of its input raises.         *)
Route(r, class) ==
  /\ req[r].at = "route"
  /\ IF class = "none" THEN req' = [req EXCEPT ![r].at = "done", ![r].status = 200, ![r].client = 0]
     ELSE Raises(r, class, IF class = "HTTPException" THEN 404 ELSE 0, "inner")
  /\ UNCHANGED <<style, pool, rotations, client, keys, keyLock>>

MutResolve(class) == "Exception"

(* resolve(): the first class of the MRO that is registered.               *)
Resolve(class) == Mro(class)[Min({i \in DOMAIN Mro(class) : Mro(class)[i] \in DOMAIN Handlers})]

Status(error) == IF Handlers[Resolve(error.class)] = 0 THEN error.status ELSE Handlers[Resolve(error.class)]

Respond(r) ==
  req' = [req EXCEPT ![r].at = "done", ![r].status = Status(req[r].error),
                         ![r].error = NoError, ![r].client = 0]

(* The middleware makes an HTTPException of any AuthorizationError that    *)
(* passes through it.                                                      *)
Converts(class) == IsA(class, "AuthorizationError")

Unwind(r) ==
  LET error == req[r].error IN
  /\ \/ /\ req[r].at = "inner"
        /\ IF error.class \in {"HTTPException", "RequestValidationError"} THEN Respond(r)
           ELSE Goes(r, IF style = "middleware" THEN "auth" ELSE "outer")
     \/ /\ req[r].at = "auth"
        /\ IF Converts(error.class) THEN Raises(r, "HTTPException", 401, "outer") ELSE Goes(r, "outer")
     \/ req[r].at = "outer" /\ Respond(r)
  /\ UNCHANGED <<style, pool, rotations, client, keys, keyLock>>

(* The pool publishes other keys. *)
Rotate(kids) ==
  /\ rotations < MaxRotations /\ rotations' = rotations + 1
  /\ pool' = kids /\ kids # pool
  /\ req' = [r \in Requests |-> [req[r] EXCEPT !.steady = @ /\ req[r].token.kid \in kids]]
  /\ UNCHANGED <<style, client, keys, keyLock>>

EdgeNext ==
  \/ \E kids \in SUBSET Kids : Rotate(kids)
  \/ \E r \in Requests :
       \/ Arrive(r) \/ Refresh(r) \/ Verify(r) \/ Unwind(r)
       \/ \E fetch \in {"no", "yes", "fails"} : SigningKey(r, fetch)
       \/ \E class \in RouteErrors \union {"none"} : Route(r, class)

EdgeSpec == EdgeInit /\ [][EdgeNext]_edgeVars
-------------------------------------------------------------------------------
(* A token that is in order, of a key the pool published all the time, is  *)
(* refused by the authorizer only after both of the request's lookups have *)
(* failed at the endpoint: no other request's refresh, and no rotation     *)
(* before it, makes a client forget it for good (jwt_authorizer.py:63-85). *)
RefusalNeedsTwoFailures ==
  \A r \in Requests :
    LET q == req[r] IN
    q.cause = Refused /\ q.steady /\ q.token.claims = "ok" => q.failed = 2

(* The registered class an exception is nearest to: a base of all of its    *)
(* registered bases is a base of that one.                                 *)
Nearest(class) ==
  LET bases == ToSet(Mro(class)) \intersect DOMAIN Handlers
  IN  CHOOSE c \in bases : \A d \in bases : IsA(c, d)

(* Whatever is raised, and in whichever layer it is met, is answered with  *)
(* the status of its nearest registered class, except that the middleware  *)
(* makes every AuthorizationError a 401 (handlers.py:216-225, auth.py:114). *)
StatusFitsError ==
  \A r \in Requests :
    LET cause == req[r].cause
        nearest == Nearest(cause.class)
    IN  req[r].at = "done" /\ cause # NoError =>
          req[r].status =
            IF nearest = "HTTPException" THEN cause.status
            ELSE IF style = "middleware" /\ IsA(cause.class, "AuthorizationError") THEN 401
            ELSE Handlers[nearest]
===============================================================================
