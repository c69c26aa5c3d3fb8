---------------------------- MODULE SubscriberChain ----------------------------
(***************************************************************************)
(* One call of a subscriber: filter, authorization, the handler behind its *)
(* middlewares, and the success or error hook (event/subscriber/base.py,   *)
(* middleware.py, utils/retry.py).  The chain is a RetryMiddleware around  *)
(* a GroupMiddleware whose members are RetryMiddlewares around the one     *)
(* handler; attempts of one and a single member leave a layer out.  The    *)
(* logging middleware changes nothing.  A group runs each member in a task *)
(* of its own, so the handler runs once per member.                        *)
(***************************************************************************)
EXTENDS Integers, FiniteSets

CONSTANTS Members,        \* middlewares of the group
          ChainKinds,     \* "plain": no group; "fast", "all": fail_fast or not
          OuterAttempts,  \* max_attempts around the group
          InnerAttempts,  \* max_attempts of each member
          HandlerErrors,  \* what the handler may raise
          HookErrors      \* what on_success and on_error may raise

ASSUME ChainAssumption ==
  /\ ChainKinds \subseteq {"plain", "fast", "all"}
  /\ OuterAttempts \in Nat \ {0} /\ InnerAttempts \in Nat \ {0}
  /\ Members # {} /\ IsFiniteSet(Members)
  /\ {"yes", "no", "none"} \intersect (HandlerErrors \union HookErrors) = {}

VARIABLES chain,     \* the kind, and the members it has
          call,      \* __call__: where it is, the error at hand, how it ended
          attempt,   \* of the outer retry
          branch,    \* per member: where its task is, its attempt, its error
          strays,    \* handler runs of tasks nobody waits for any more
          runs,      \* history: handler runs started
          notified   \* history: hooks called

chainVars == <<chain, call, attempt, branch, strays, runs, notified>>

Off == [at |-> "off", attempt |-> 0, error |-> "none"]
InProgress == {"running", "pause", "cancelling"}

ChainTypeOK ==
  /\ call.at \in {"filter", "authorize", "handle", "pause", "draining", "on_error", "on_success", "over"}
  /\ call.end \in {"none", "skipped", "ok", "raised", "cancelled"}
  /\ \A m \in chain.members : /\ branch[m].at \in {"off", "ok", "failed"} \union InProgress
                              /\ branch[m].attempt \in Nat
  /\ attempt \in Nat /\ strays \in 0..(OuterAttempts * Cardinality(Members))
  /\ notified \in {{}, {"on_success"}, {"on_error"}}

ChainInit ==
  /\ chain \in {[kind |-> k, members |-> IF k = "plain" THEN {CHOOSE m \in Members : TRUE} ELSE Members] :
                  k \in ChainKinds}
  /\ call = [at |-> "filter", error |-> "none", end |-> "none"]
  /\ attempt = 0 /\ branch = [m \in chain.members |-> Off]
  /\ strays = 0 /\ runs = 0 /\ notified = {}
-------------------------------------------------------------------------------
Over(end, error) == call' = [at |-> "over", error |-> error, end |-> end]

(* The error hook is told next. *)
Failing(error) == call' = [call EXCEPT !.at = "on_error", !.error = error]

(* should_handle() and authorize(): a no ends the call without a hook, an  *)
(* error is one of the handler's.                                          *)
Check(answer) ==
  /\ call.at \in {"filter", "authorize"}
  /\ \/ answer = "no" /\ Over("skipped", "none")
     \/ answer = "yes" /\ call' = [call EXCEPT !.at = IF @ = "filter" THEN "authorize" ELSE "pause"]
     \/ answer \in HandlerErrors /\ Failing(answer)
  /\ UNCHANGED <<chain, attempt, branch, strays, runs, notified>>

(* One more attempt: every member's task starts, and with it the handler.  *)
Attempt ==
  /\ call.at = "pause"
  /\ attempt' = attempt + 1
  /\ branch' = [m \in chain.members |-> [at |-> "running", attempt |-> 1, error |-> "none"]]
  /\ runs' = runs + Cardinality(chain.members)
  /\ call' = [call EXCEPT !.at = "handle"]
  /\ UNCHANGED <<chain, strays, notified>>

(* stop_after_attempt *)
GivesUp(made, allowed) == made >= allowed

(* The handler returns or raises in one member; its retry goes on or ends. *)
HandlerEnds(m, error) ==
  LET b == branch[m] IN
  /\ b.at = "running"
  /\ branch' = [branch EXCEPT ![m] = [b EXCEPT !.error = error, !.at =
       IF error = "none" THEN "ok" ELSE IF GivesUp(b.attempt, InnerAttempts) THEN "failed" ELSE "pause"]]
  /\ UNCHANGED <<chain, call, attempt, strays, runs, notified>>

InnerRetry(m) ==
  /\ branch[m].at = "pause"
  /\ branch' = [branch EXCEPT ![m].at = "running", ![m].attempt = @ + 1]
  /\ runs' = runs + 1
  /\ UNCHANGED <<chain, call, attempt, strays, notified>>

(* A cancelled task ends when its handler lets it; one that was left alone *)
(* ends when it is done.                                                   *)
CancelledEnds(m) ==
  /\ branch[m].at = "cancelling"
  /\ branch' = [branch EXCEPT ![m] = Off]
  /\ UNCHANGED <<chain, call, attempt, strays, runs, notified>>

StrayEnds ==
  /\ strays > 0 /\ strays' = strays - 1
  /\ UNCHANGED <<chain, call, attempt, branch, runs, notified>>

Working == {m \in chain.members : branch[m].at \in InProgress}
Failed == {m \in chain.members : branch[m].at = "failed"}

MutVerdicts == {"none"}

(* What the handler, or the group, ends with: the error of the only run,   *)
(* of one of the members that failed (fail_fast), or nothing.              *)
Verdicts == IF chain.kind = "all" \/ Failed = {} THEN {"none"} ELSE {branch[m].error : m \in Failed}

(* asyncio.wait or gather returns.  The tasks still at work are cancelled, *)
(* and nobody waits for them.                                              *)
GroupReturns(error) ==
  /\ call.at = "handle" /\ (Working = {} \/ (chain.kind = "fast" /\ Failed # {}))
  /\ error \in Verdicts
  /\ strays' = strays + Cardinality(Working)
  /\ branch' = [m \in chain.members |-> IF m \in Working THEN Off ELSE branch[m]]
  /\ \/ error = "none" /\ call' = [call EXCEPT !.at = "on_success"]
     \/ error # "none" /\ ~ GivesUp(attempt, OuterAttempts) /\ call' = [call EXCEPT !.at = "pause"]
     \/ error # "none" /\ GivesUp(attempt, OuterAttempts) /\ Failing(error)
  /\ UNCHANGED <<chain, attempt, runs, notified>>

HookRaises(error) == Over("raised", error)

(* on_success, outside of the try; on_error, whose own error replaces the  *)
(* one it was told of.                                                     *)
HookEnds(error) ==
  /\ call.at \in {"on_success", "on_error"}
  /\ notified' = notified \union {call.at}
  /\ \/ error # "none" /\ HookRaises(error)
     \/ error = "none" /\ call.at = "on_success" /\ Over("ok", "none")
     \/ error = "none" /\ call.at = "on_error" /\ Over("raised", call.error)
  /\ UNCHANGED <<chain, attempt, branch, strays, runs>>

MutLeavesBehind == chain.kind # "plain"

(* Cancelling asyncio.wait leaves its tasks alone; gather() cancels them.  *)
LeavesBehind == chain.kind = "fast"

(* The delivery is cancelled: what waits for the handler waits until it is *)
(* through with its cancellation; no hook is told.                         *)
CancelCall ==
  /\ call.at \in {"filter", "authorize", "handle", "pause", "on_error", "on_success"}
  /\ IF call.at # "handle" \/ Working = {} \/ LeavesBehind
     THEN /\ Over("cancelled", "none")
          /\ strays' = strays + IF call.at = "handle" THEN Cardinality(Working) ELSE 0
          /\ branch' = [m \in chain.members |-> Off]
     ELSE /\ call' = [call EXCEPT !.at = "draining"] /\ UNCHANGED strays
          /\ branch' = [m \in chain.members |->
                          IF m \in Working THEN [branch[m] EXCEPT !.at = "cancelling"] ELSE Off]
  /\ UNCHANGED <<chain, attempt, runs, notified>>

Drained ==
  /\ call.at = "draining" /\ Working = {} /\ Over("cancelled", "none")
  /\ UNCHANGED <<chain, attempt, branch, strays, runs, notified>>

ChainNext ==
  \/ Attempt \/ StrayEnds \/ CancelCall \/ Drained
  \/ \E answer \in {"yes", "no"} \union HandlerErrors : Check(answer)
  \/ \E error \in HandlerErrors \union {"none"} : GroupReturns(error)
  \/ \E error \in HookErrors \union {"none"} : HookEnds(error)
  \/ \E m \in chain.members : \/ InnerRetry(m) \/ CancelledEnds(m)
                              \/ \E error \in HandlerErrors \union {"none"} : HandlerEnds(m, error)

ChainSpec == ChainInit /\ [][ChainNext]_chainVars
-------------------------------------------------------------------------------
(* A call that returns as handled has handled the event in every member of *)
(* its last attempt; only fail_fast = False lets errors pass, and even     *)
(* then every member has ended (middleware.py:47-64).                      *)
ReturnMeansHandled ==
  call.end = "ok" => /\ Working = {} /\ (chain.kind # "all" => Failed = {})
                     /\ notified = {"on_success"}

(* When the call is over no run of the handler goes on, except those that  *)
(* a group with fail_fast has left behind (base.py:67-95).                 *)
NothingRunsOn == call.at = "over" /\ chain.kind # "fast" => strays = 0 /\ Working = {}

(* Two layers of retries multiply, runs that overlap included: never more  *)
(* (retry.py:70-75).                                                       *)
RunsBounded == runs <= OuterAttempts * InnerAttempts * Cardinality(chain.members)

(* The dispatcher gets the error the handler raised last, and on_error was *)
(* told, unless a hook raised one of its own or there was no error         *)
(* (base.py:87-95).                                                        *)
ErrorReachesDispatch ==
  call.end = "raised" => \/ notified = {"on_error"} /\ call.error \in HandlerErrors
                         \/ call.error \in HookErrors /\ notified # {}

(* The lifecycle acknowledges what was handled and learns of what was not, *)
(* through every middleware and hook (base.py:67-95, middleware.py:39-98). *)
OutcomeIsTrue == ReturnMeansHandled /\ ErrorReachesDispatch

(* The handler runs as often as the layers of retries allow, and not after *)
(* the call is over (middleware.py:39-64, retry.py:67-82).                 *)
RunsAccounted == RunsBounded /\ NothingRunsOn
===============================================================================
