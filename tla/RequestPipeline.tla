-------------------------- MODULE RequestPipeline --------------------------
(***************************************************************************)
(* One request's way through Handler.ServeHTTP (internal/proxy/handler.go) *)
(* with the request and response plugins (proxy/plugins.go), the engine    *)
(* (proxy/engine.go) and its retry loop (internal/retry/retry.go).         *)
(*                                                                         *)
(* What the other modules detail is a choice here: the overload limiter,   *)
(* the breaker, the cache and its flights, the retry budgets and the pools *)
(* answer either way.  The client may go away and the route's timeout may  *)
(* strike between any two steps.  The clock passing the deadline (late)    *)
(* and the context noticing it (ctxErr) are two events: the first is what  *)
(* time.Until sees, the second what ctx.Err sees.                          *)
(***************************************************************************)
EXTENDS Integers, Sequences, FiniteSets

CONSTANTS
  Filters,       \* the route's plugin filters: a sequence of failure modes
  MaxAttempts    \* policy.Retry.MaxAttempts

ASSUME PipelineAssumption ==
  /\ Filters \in Seq({"failOpen", "failClose"})
  /\ MaxAttempts \in Nat \ {0}

VARIABLES
  pc,
  route,         \* [allowRetry, cacheEligible]
  holds,         \* what the request has taken and not given back
  defers,        \* the deferred calls, last registered first
  panicking,
  wrote,         \* calls of WriteHeader
  answer,        \* what was written, by error category or kind
  cut,           \* the body that was passed on is not the whole one
  late,          \* the request's deadline has passed
  ctxErr,        \* r.Context().Err()
  spent,         \* policy.Retry.TotalRetryBudget has elapsed
  next,          \* index of the next filter
  consented,     \* the filters whose plugin let the request go on
  attempts, contacts, retries,
  attemptCtx,    \* the context of the attempt that gave the response
  resp,          \* the response: "none", "final", or "retryable" for its status
  err, cause     \* the error of the loop; what made the loop give up

life == <<holds, defers, panicking>>
reply == <<wrote, answer, cut>>
clocks == <<late, ctxErr, spent>>
plugins == <<next, consented>>
loop == <<attempts, contacts, retries, attemptCtx, resp, err, cause>>
vars == <<pc, route, life, reply, clocks, plugins, loop>>

Init ==
  /\ pc = "arrive"
  /\ route \in [allowRetry : BOOLEAN, cacheEligible : BOOLEAN]
  /\ holds = {} /\ defers = <<>> /\ panicking = FALSE
  /\ wrote = 0 /\ answer = "none" /\ cut = FALSE
  /\ late = FALSE /\ ctxErr = "nil" /\ spent = FALSE
  /\ next = 1 /\ consented = {}
  /\ attempts = 0 /\ contacts = 0 /\ retries = 0
  /\ attemptCtx = "none" /\ resp = "none" /\ err = "none" /\ cause = "none"

-----------------------------------------------------------------------------
(* Building blocks: go on, answer and return early, take something whose    *)
(* release is deferred.                                                     *)
Goto(label) == pc' = label /\ UNCHANGED <<life, reply>>

Write(what) == wrote' = wrote + 1 /\ answer' = what

Refuse(what) == Write(what) /\ pc' = "replied" /\ UNCHANGED <<life, cut>>

Take(what, label) ==
  /\ holds' = holds \cup {what}
  /\ defers' = <<what>> \o defers
  /\ pc' = label
  /\ UNCHANGED <<panicking, reply>>

-----------------------------------------------------------------------------
(* The clock, the client and panics.                                        *)
DeadlinePasses ==
  /\ "context" \in holds /\ ~late
  /\ late' = TRUE
  /\ UNCHANGED <<pc, route, life, reply, ctxErr, spent, plugins, loop>>

ContextExpires ==
  /\ late /\ ctxErr = "nil"
  /\ ctxErr' = "deadline"
  /\ UNCHANGED <<pc, route, life, reply, late, spent, plugins, loop>>

ClientGone ==
  /\ pc # "end" /\ ctxErr = "nil"
  /\ ctxErr' = "canceled"
  /\ UNCHANGED <<pc, route, life, reply, late, spent, plugins, loop>>

RetryTimePasses ==
  /\ attempts > 0 \/ pc = "loop"
  /\ ~spent
  /\ spent' = TRUE
  /\ UNCHANGED <<pc, route, life, reply, late, ctxErr, plugins, loop>>

\* Any code called after the recovering defer is in place may panic.
Panic ==
  /\ pc \notin {"arrive", "unwind", "end"}
  /\ \E i \in 1..Len(defers) : defers[i] = "recover"
  /\ panicking' = TRUE
  /\ pc' = "unwind"
  /\ UNCHANGED <<route, holds, defers, reply, clocks, plugins, loop>>

-----------------------------------------------------------------------------
(* ServeHTTP up to the upstream.                                            *)

\* Inflight.Inc; a path under /admin is answered before anything else.
ArriveAdmin ==
  /\ pc = "arrive"
  /\ holds' = {"tracker"} /\ defers' = <<"tracker">>
  /\ Write("not_found") /\ pc' = "replied"
  /\ UNCHANGED <<route, panicking, cut, clocks, plugins, loop>>

Arrive ==
  /\ pc = "arrive"
  /\ holds' = {"tracker"} /\ defers' = <<"recover", "tracker">>
  /\ pc' = "acquire"
  /\ UNCHANGED <<route, panicking, reply, clocks, plugins, loop>>

\* A proxy that is not ready, or a snapshot without a router, is an error.
Acquire ==
  /\ pc = "acquire"
  /\ Take("snapshot", "limits") \/ Refuse("bad_gateway")
  /\ UNCHANGED <<route, clocks, plugins, loop>>

LimitErrors == {"uri_too_long", "headers_too_large", "request_too_large"}

EnforceRequestLimits ==
  /\ pc = "limits"
  /\ Goto("match") \/ \E c \in LimitErrors : Refuse(c)
  /\ UNCHANGED <<route, clocks, plugins, loop>>

\* Router.Match, then VerifyClientCert on a route that requires it.
Match ==
  /\ pc = "match"
  /\ Goto("overload") \/ Refuse("no_route") \/ Refuse("mtls_required")
  /\ UNCHANGED <<route, clocks, plugins, loop>>

\* Mutant of Overload: the limiter's slot is taken without defer release().
OverloadNoDefer ==
  /\ pc = "overload"
  /\ \/ Goto("pool") \/ Refuse("overloaded")
     \/ holds' = holds \cup {"slot"} /\ pc' = "pool" /\ UNCHANGED <<defers, panicking, reply>>
  /\ UNCHANGED <<route, clocks, plugins, loop>>

\* The traffic plan's limiter, if there is one.
Overload ==
  /\ pc = "overload"
  /\ Goto("pool") \/ Take("slot", "pool") \/ Refuse("overloaded")
  /\ UNCHANGED <<route, clocks, plugins, loop>>

\* The selected pool must be in the snapshot; then the timeout starts.
PoolLookup ==
  /\ pc = "pool"
  /\ Take("context", "requestFilters") \/ Refuse("bad_gateway")
  /\ UNCHANGED <<route, clocks, plugins, loop>>

\* One filter of either phase: its breaker refuses, its call fails, times out
\* or gives no usable answer, or it answers.
FilterErrors == {"plugin_unavailable", "plugin_timeout"}

\* Mutant of FilterFails: a failing filter is skipped whatever its mode.
FilterFailsOpen == next' = next + 1 /\ Goto(pc) /\ UNCHANGED consented

FilterFails ==
  /\ \/ Filters[next] = "failClose" /\ (\E c \in FilterErrors : Refuse(c)) /\ UNCHANGED next
     \/ Filters[next] = "failOpen" /\ Goto(pc) /\ next' = next + 1
  /\ UNCHANGED consented

FilterContinues ==
  /\ next' = next + 1
  /\ consented' = IF pc = "requestFilters" THEN consented \cup {next} ELSE consented
  /\ Goto(pc)

\* Both loops give up silently when the context has ended.
FiltersEnd(label) ==
  /\ next > Len(Filters) \/ ctxErr # "nil"
  /\ next' = 1 /\ UNCHANGED consented
  /\ Goto(label)

ApplyRequestPlugins ==
  /\ pc = "requestFilters"
  /\ \/ FiltersEnd("breaker")
     \/ /\ next <= Len(Filters) /\ ctxErr = "nil"
        /\ FilterFails \/ FilterContinues \/ (Refuse("plugin") /\ UNCHANGED plugins)
  /\ UNCHANGED <<route, clocks, loop>>

BreakerAllow ==
  /\ pc = "breaker"
  /\ Goto("cache") \/ Refuse("circuit_open")
  /\ UNCHANGED <<route, clocks, plugins, loop>>

\* A hit, or a leader's response for a follower; otherwise a miss, with or
\* without a flight of one's own.
CacheLookup ==
  /\ pc = "cache"
  /\ \/ Goto("forward")
     \/ route.cacheEligible /\ (Refuse("cached") \/ Take("flight", "forward"))
  /\ UNCHANGED <<route, clocks, plugins, loop>>

-----------------------------------------------------------------------------
(* Engine.roundTripWithRetry and retry.Execute.                             *)
\* Mutant of Limit: a request that may not be repeated is not told apart.
LimitAlways == MaxAttempts

Limit == IF route.allowRetry THEN MaxAttempts ELSE 1

GiveUp(error, why) ==
  /\ Goto("result")
  /\ err' = error /\ cause' = why
  /\ resp' = "none"

RoundTripWithRetry ==
  /\ pc = "forward"
  /\ \/ GiveUp("transport", "none") /\ UNCHANGED <<attempts, contacts, retries, attemptCtx>>
     \/ Goto("loop") /\ UNCHANGED loop
  /\ UNCHANGED <<route, clocks, plugins>>

\* The head of the loop: the time left for the attempt is computed.
ExecuteLoop ==
  /\ pc = "loop" /\ attempts < Limit
  /\ attempts' = attempts + 1
  /\ \/ /\ late \/ spent
        /\ GiveUp("deadline", IF late THEN "requestDeadline" ELSE "retryBudget")
        /\ UNCHANGED attemptCtx
     \/ /\ ~late /\ ~spent
        /\ Goto("attempt") /\ attemptCtx' = "live"
        /\ UNCHANGED <<resp, err, cause>>
  /\ UNCHANGED <<route, clocks, plugins, contacts, retries>>

\* picker() finds no endpoint; or the request is sent, unless its context has
\* already ended.
Pick ==
  /\ pc = "attempt"
  /\ \/ Goto("judge") /\ err' = "noUpstream" /\ UNCHANGED contacts
     \/ ctxErr = "nil" /\ Goto("sent") /\ contacts' = contacts + 1 /\ UNCHANGED err
     \/ ctxErr # "nil" /\ Goto("judge") /\ err' = ctxErr /\ UNCHANGED contacts
  /\ resp' = "none"
  /\ UNCHANGED <<route, clocks, plugins, attempts, retries, attemptCtx, cause>>

\* ClassifyError: all but "other" may be retried ("reset" stands for EOF too).
AttemptErrors == {"dial", "timeout", "reset", "other"}

\* The upstream answers or fails, or the attempt's own timeout strikes ...
RoundTripUpstream ==
  /\ pc = "sent"
  /\ \/ resp' \in {"final", "retryable"} /\ err' = "none"
     \/ resp' = "none" /\ err' \in AttemptErrors
  /\ Goto("judge")
  /\ UNCHANGED <<route, clocks, plugins, attempts, contacts, retries, attemptCtx, cause>>

\* Mutant of RoundTripEnded: the outbound request does not carry the context.
RoundTripDetached == pc = "sent" /\ FALSE /\ UNCHANGED vars

\* ... or the request's context ends it.
RoundTripEnded ==
  /\ pc = "sent" /\ ctxErr # "nil"
  /\ resp' = "none" /\ err' = ctxErr
  /\ Goto("judge")
  /\ UNCHANGED <<route, clocks, plugins, attempts, contacts, retries, attemptCtx, cause>>

\* cancel() of the attempt's context has run.  Whether the policy retries the
\* error, and whether the budgets allow it, are choices.
MayRetry == attempts < Limit

JudgeResponse ==
  /\ pc = "judge" /\ resp # "none"
  /\ attemptCtx' = "cancelled"
  /\ \/ Goto("result") /\ UNCHANGED <<retries, resp>>
     \/ /\ resp = "retryable" /\ MayRetry
        /\ Goto("backoff") /\ retries' = retries + 1 /\ resp' = "none"
  /\ UNCHANGED <<route, clocks, plugins, attempts, contacts, err, cause>>

JudgeError ==
  /\ pc = "judge" /\ resp = "none"
  /\ attemptCtx' = "cancelled"
  /\ \/ ctxErr # "nil" /\ GiveUp(ctxErr, "none") /\ UNCHANGED retries
     \/ ctxErr = "nil" /\ GiveUp(err, "none") /\ UNCHANGED retries
     \/ /\ ctxErr = "nil" /\ err \in AttemptErrors \ {"other"} /\ MayRetry
        /\ Goto("backoff") /\ retries' = retries + 1
        /\ UNCHANGED <<resp, err, cause>>
  /\ UNCHANGED <<route, clocks, plugins, attempts, contacts>>

SleepWithBackoff ==
  /\ pc = "backoff"
  /\ \/ Goto("loop") /\ UNCHANGED <<err, cause, resp>>
     \/ ctxErr # "nil" /\ GiveUp(ctxErr, "none")
  /\ UNCHANGED <<route, clocks, plugins, attempts, contacts, retries, attemptCtx>>

-----------------------------------------------------------------------------
(* Back in ServeHTTP.                                                       *)

\* writeProxyErrorForResult, with the bad_gateway that follows when it is
\* false; a client that is gone is not answered.
ErrorCategory ==
  CASE err \in {"transport", "noUpstream"} -> "bad_gateway"
    [] ctxErr = "deadline"                 -> "request_timeout"
    [] err \in {"timeout", "deadline"}     -> "upstream_timeout"
    [] err = "dial"                        -> "upstream_connect_failed"
    [] OTHER                               -> "bad_gateway"

Unanswered == ctxErr = "canceled" /\ err \notin {"transport", "noUpstream"}

Result ==
  /\ pc = "result"
  /\ \/ resp # "none" /\ Goto("responseFilters")
     \/ resp = "none" /\ Unanswered /\ Goto("replied")
     \/ resp = "none" /\ ~Unanswered /\ Refuse(ErrorCategory)
  /\ UNCHANGED <<route, clocks, plugins, loop>>

ApplyResponsePlugins ==
  /\ pc = "responseFilters"
  /\ \/ FiltersEnd("respond")
     \/ next <= Len(Filters) /\ ctxErr = "nil" /\ (FilterFails \/ FilterContinues)
  /\ UNCHANGED <<route, clocks, loop>>

\* Reading the body of a response whose context was cancelled may fail.
MayBeCut == attemptCtx = "cancelled" \/ ctxErr # "nil"

\* WriteUpstreamResponse ignores a body that breaks off ...
WriteUpstreamResponse ==
  /\ pc = "respond"
  /\ Write("response") /\ pc' = "replied"
  /\ (cut' = TRUE /\ MayBeCut) \/ cut' = FALSE
  /\ UNCHANGED <<route, life, clocks, plugins, loop>>

\* ... a response that may be cached is read before it is written.
ReadUpstreamBody ==
  /\ pc = "respond" /\ route.cacheEligible
  /\ Refuse("response") \/ (MayBeCut /\ Refuse("bad_gateway"))
  /\ UNCHANGED <<route, clocks, plugins, loop>>

Return ==
  /\ pc = "replied"
  /\ Goto("unwind")
  /\ UNCHANGED <<route, clocks, plugins, loop>>

\* The deferred calls run, one after the other.
RunDeferred ==
  /\ pc = "unwind" /\ defers # <<>> /\ Head(defers) # "recover"
  /\ holds' = holds \ {Head(defers)}
  /\ defers' = Tail(defers)
  /\ UNCHANGED <<pc, route, panicking, reply, clocks, plugins, loop>>

\* Mutant of Recover: the panic is answered although a header was written.
RecoverAlways ==
  /\ pc = "unwind" /\ defers # <<>> /\ Head(defers) = "recover"
  /\ IF panicking THEN Write("panic") ELSE UNCHANGED <<wrote, answer>>
  /\ panicking' = FALSE
  /\ defers' = Tail(defers)
  /\ UNCHANGED <<pc, route, holds, cut, clocks, plugins, loop>>

Recover ==
  /\ pc = "unwind" /\ defers # <<>> /\ Head(defers) = "recover"
  /\ IF panicking /\ wrote = 0 THEN Write("panic") ELSE UNCHANGED <<wrote, answer>>
  /\ panicking' = FALSE
  /\ defers' = Tail(defers)
  /\ UNCHANGED <<pc, route, holds, cut, clocks, plugins, loop>>

Finish ==
  /\ pc = "unwind" /\ defers = <<>>
  /\ Goto("end")
  /\ UNCHANGED <<route, clocks, plugins, loop>>

-----------------------------------------------------------------------------
ServeHTTP ==
  \/ ArriveAdmin \/ Arrive \/ Acquire \/ EnforceRequestLimits
  \/ Match \/ Overload \/ PoolLookup
  \/ ApplyRequestPlugins \/ BreakerAllow \/ CacheLookup
  \/ RoundTripWithRetry \/ ExecuteLoop \/ Pick \/ RoundTripEnded
  \/ JudgeResponse \/ JudgeError \/ SleepWithBackoff
  \/ Result \/ ApplyResponsePlugins \/ WriteUpstreamResponse \/ ReadUpstreamBody
  \/ Return \/ RunDeferred \/ Recover \/ Finish

Next ==
  \/ ServeHTTP \/ RoundTripUpstream \/ Panic
  \/ DeadlinePasses \/ ContextExpires \/ ClientGone \/ RetryTimePasses

Spec == Init /\ [][Next]_vars

(* The goroutine runs and its timers fire; an upstream need not answer.     *)
FairSpec == Spec /\ WF_vars(ServeHTTP) /\ WF_vars(DeadlinePasses) /\ WF_vars(ContextExpires)

-----------------------------------------------------------------------------
Resources == {"tracker", "snapshot", "slot", "context", "flight"}
Labels == {"arrive", "acquire", "limits", "match", "overload", "pool",
           "requestFilters", "breaker", "cache", "forward", "loop", "attempt", "sent",
           "judge", "backoff", "result",
           "responseFilters", "respond", "replied", "unwind", "end"}
UpstreamErrors ==
  {"request_timeout", "upstream_timeout", "upstream_connect_failed", "bad_gateway"}
EarlyErrors ==
  LimitErrors \cup {"not_found", "no_route", "mtls_required", "overloaded", "circuit_open"}

\* Types; every answer is one of the documented categories or kinds.
TypeOK ==
  /\ pc \in Labels /\ route \in [allowRetry : BOOLEAN, cacheEligible : BOOLEAN]
  /\ holds \subseteq Resources /\ defers \in Seq(Resources \cup {"recover"})
  /\ panicking \in BOOLEAN /\ wrote \in Nat /\ cut \in BOOLEAN
  /\ answer \in EarlyErrors \cup UpstreamErrors \cup FilterErrors
                  \cup {"none", "plugin", "cached", "response", "panic"}
  /\ late \in BOOLEAN /\ ctxErr \in {"nil", "deadline", "canceled"} /\ spent \in BOOLEAN
  /\ next \in 1..(Len(Filters) + 1) /\ consented \subseteq 1..Len(Filters)
  /\ attempts \in Nat /\ contacts \in Nat /\ retries \in Nat
  /\ attemptCtx \in {"none", "live", "cancelled"} /\ resp \in {"none", "final", "retryable"}
  /\ err \in AttemptErrors \cup {"none", "transport", "noUpstream", "deadline", "canceled"}
  /\ cause \in {"none", "requestDeadline", "retryBudget"}

Deferred == {defers[i] : i \in 1..Len(defers)} \ {"recover"}

\* ServeHTTP's defers: whatever returns, panics, timeouts and cancellations
\* happen, what the request holds is exactly what its deferred calls are going
\* to give back, each of them once; nothing is left at the end.
HeldIsDeferred ==
  /\ holds = Deferred
  /\ Cardinality(Deferred) >= Len(defers) - 1
  /\ pc = "end" => holds = {}

\* ServeHTTP: the client gets one answer, never two, and it gets one unless it
\* is gone.
OneAnswer == wrote <= 1 /\ (pc = "end" => wrote = 1 \/ ctxErr = "canceled")

\* ServeHTTP, applyRequestPlugins: the upstream comes last.  No request that is
\* refused with one of the categories decided before the upstream, or answered
\* by a filter or the cache, has reached one, retries included; and none reaches
\* one before every fail-closed filter has let it go on, although the filter loop
\* stops silently when the context ends.
UpstreamComesLast ==
  /\ answer \in EarlyErrors \cup {"plugin", "cached"} => contacts = 0
  /\ contacts > 0 => \A i \in 1..Len(Filters) : Filters[i] = "failClose" => i \in consented

\* Execute: an upstream is contacted at most MaxAttempts times, once if the
\* request may not be repeated, and never more often than the retries that
\* were paid for allow.
AttemptsBounded ==
  /\ contacts <= (IF route.allowRetry THEN MaxAttempts ELSE 1)
  /\ contacts <= retries + 1

\* ServeHTTP, Execute: the request ends although no upstream answers.
RequestEnds == <>(pc = "end")

\* docs/FAILURE_MODES.md, plugin_timeout and plugin_unavailable: the upstream
\* is not contacted.
PluginErrorBeforeUpstream == answer \in FilterErrors => contacts = 0

\* docs/FAILURE_MODES.md, upstream_timeout: a downstream timeout is not
\* mislabeled; the request's own deadline is reported as request_timeout.
TimeoutLabelled == answer = "upstream_timeout" => cause # "requestDeadline"

\* internal/integration/cache_basic_test.go: the client gets the body that the
\* upstream sent (as long as the request itself is not cancelled).
ResponseWhole == answer = "response" /\ ctxErr = "nil" => ~cut
=============================================================================
