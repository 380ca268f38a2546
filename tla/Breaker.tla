------------------------------- MODULE Breaker -------------------------------
(***************************************************************************)
(* The circuit breaker of one pool key (internal/breaker/breaker.go), the  *)
(* registry entry it lives in (internal/breaker/registry.go) and the       *)
(* requests that call it: Allow once in proxy/handler.go, Report once per  *)
(* upstream attempt in proxy/engine.go, unless the attempt is not reported *)
(* or never made.                                                          *)
(*                                                                         *)
(* The breaker has no lock: each of its atomics is read and written in a   *)
(* step of its own.  Two clocks are abstracted to flags: cooling says that *)
(* openUntil is in the future, windowOld that the evaluation window that   *)
(* began at windowStart has passed; time clears one and sets the other at  *)
(* any moment at which the code can still read it.  probeSuccess is only   *)
(* compared with HalfOpenMaxProbes and probeFail with 0, so the counters   *)
(* stop there.  All requests of the key carry the same configuration.      *)
(***************************************************************************)
EXTENDS Integers, FiniteSets

CONSTANTS
  Requests,            \* goroutines, each serving one request after another
  HalfOpenMaxProbes,
  MinimumRequests,
  Threshold,           \* FailureRateThresholdPercent
  MaxAttempts,         \* attempts of one request: the retry policy's bound
  MaxCount             \* reports counted in one window (a bound)

BreakerConstants ==
  /\ IsFiniteSet(Requests) /\ Requests # {}
  /\ HalfOpenMaxProbes \in Nat \ {0} /\ MinimumRequests \in Nat \ {0}
  /\ Threshold \in 1..100
  /\ MaxAttempts \in Nat \ {0} /\ MaxCount \in Nat \ {0}

ASSUME BreakerAssumption == BreakerConstants

VARIABLES
  state, reqCount, failCount, probeInFlight, probeSuccess, probeFail,
  cooling,      \* now < openUntil
  windowOld,    \* now - windowStart > EvaluationWindow
  pc, ok,       \* per request: control point, outcome of the last attempt
  attempts,     \* per request: attempts made
  seen          \* per request: the reqCount maybeOpen loaded

windowVars == <<reqCount, failCount, windowOld>>
probeVars == <<probeInFlight, probeSuccess, probeFail>>
breakerVars == <<state, cooling, windowVars, probeVars>>
localVars == <<ok, attempts, seen>>
vars == <<breakerVars, pc, localVars>>

Init ==
  /\ state = "closed" /\ cooling = FALSE /\ windowOld = FALSE
  /\ reqCount = 0 /\ failCount = 0
  /\ probeInFlight = 0 /\ probeSuccess = 0 /\ probeFail = 0
  /\ pc = [r \in Requests |-> "idle"]
  /\ ok = [r \in Requests |-> FALSE]
  /\ attempts = [r \in Requests |-> 0]
  /\ seen = [r \in Requests |-> 0]

\* r is at label from and goes to label to.
Move(r, from, to) == pc[r] = from /\ pc' = [pc EXCEPT ![r] = to]

-----------------------------------------------------------------------------
(* Allow.                                                                  *)

\* The goroutine's last request, if any, is over: it can take the next.
Free == {"idle", "refused", "reported", "unreported"}

AllowLoad(r) ==
  /\ \E from \in Free :
       Move(r, from, CASE state = "closed" -> "admitted"
                       [] state = "open"   -> "cooled?"
                       [] state = "half"   -> "probe")
  /\ ok' = [ok EXCEPT ![r] = FALSE]
  /\ attempts' = [attempts EXCEPT ![r] = 0]
  /\ UNCHANGED <<breakerVars, seen>>

AllowOpen(r) ==
  /\ Move(r, "cooled?", IF cooling THEN "refused" ELSE "cas")
  /\ UNCHANGED <<breakerVars, localVars>>

\* Mutant of AllowCAS: the goroutine that wins the CAS does not reset the probes.
AllowCASNoReset(r) ==
  /\ Move(r, "cas", "reload")
  /\ state' = IF state = "open" THEN "half" ELSE state
  /\ UNCHANGED <<cooling, windowVars, probeVars, localVars>>

AllowCAS(r) ==
  /\ Move(r, "cas", IF state = "open" THEN "reset" ELSE "reload")
  /\ state' = IF state = "open" THEN "half" ELSE state
  /\ UNCHANGED <<cooling, windowVars, probeVars, localVars>>

\* A breaker found closed here is reported as an error, and lets through.
AllowReload(r) ==
  /\ Move(r, "reload", IF state = "half" THEN "probe" ELSE "admitted")
  /\ UNCHANGED <<breakerVars, localVars>>

ProbeAdd(r) ==
  /\ probeInFlight' = probeInFlight + 1
  /\ Move(r, "probe", IF probeInFlight' > HalfOpenMaxProbes THEN "undo" ELSE "admitted")
  /\ UNCHANGED <<state, cooling, windowVars, probeSuccess, probeFail, localVars>>

ProbeUndo(r) ==
  /\ Move(r, "undo", "refused")
  /\ probeInFlight' = probeInFlight - 1
  /\ UNCHANGED <<state, cooling, windowVars, probeSuccess, probeFail, localVars>>

\* resetProbes, on the way out of Allow's CAS and at the end of close.
ResetProbes(r) ==
  \/ /\ Move(r, "reset", "reset2") \/ Move(r, "closeReset", "closeReset2")
     /\ probeInFlight' = 0
     /\ UNCHANGED <<state, cooling, windowVars, probeSuccess, probeFail, localVars>>
  \/ /\ Move(r, "reset2", "reset3") \/ Move(r, "closeReset2", "closeReset3")
     /\ probeSuccess' = 0
     /\ UNCHANGED <<state, cooling, windowVars, probeInFlight, probeFail, localVars>>
  \/ /\ Move(r, "reset3", "reload") \/ Move(r, "closeReset3", "reported")
     /\ probeFail' = 0
     /\ UNCHANGED <<state, cooling, windowVars, probeInFlight, probeSuccess, localVars>>

-----------------------------------------------------------------------------
(* The admitted request.                                                   *)

\* roundTripUpstream returned a response or an error that counts, and Report
\* loads the state.  (attempts is not looked at after a success.)
Attempt(r, success) ==
  /\ Move(r, "admitted", CASE state = "closed" -> "rotate"
                           [] state = "half"   -> "inflight?"
                           [] state = "open"   -> "reported")
  /\ state = "closed" => reqCount < MaxCount \/ windowOld
  /\ ok' = [ok EXCEPT ![r] = success]
  /\ attempts' = [attempts EXCEPT ![r] = IF success THEN 0 ELSE @ + 1]
  /\ UNCHANGED <<breakerVars, seen>>

\* The response came from the cache or from another request's flight, no
\* endpoint or transport was found, or the request was cancelled or timed out.
Unreported(r) ==
  /\ Move(r, "admitted", "unreported")
  /\ UNCHANGED <<breakerVars, localVars>>

\* A retry does not ask the breaker again.
Retry(r) ==
  /\ ~ok[r] /\ attempts[r] < MaxAttempts
  /\ Move(r, "reported", "admitted")
  /\ UNCHANGED <<breakerVars, localVars>>

-----------------------------------------------------------------------------
(* Report.                                                                 *)

RotateWindow(r) ==
  /\ Move(r, "rotate", IF windowOld THEN "zeroReq" ELSE "addReq")
  /\ windowOld' = FALSE
  /\ UNCHANGED <<state, cooling, reqCount, failCount, probeVars, localVars>>

\* The counters are zeroed by rotateWindow and by close.
ZeroReq(r) ==
  /\ Move(r, "zeroReq", "zeroFail") \/ Move(r, "closeZeroReq", "closeZeroFail")
  /\ reqCount' = 0
  /\ UNCHANGED <<state, cooling, failCount, windowOld, probeVars, localVars>>

ZeroFail(r) ==
  /\ Move(r, "zeroFail", "addReq") \/ Move(r, "closeZeroFail", "closeReset")
  /\ failCount' = 0
  /\ UNCHANGED <<state, cooling, reqCount, windowOld, probeVars, localVars>>

AddReq(r) ==
  /\ Move(r, "addReq", IF ok[r] THEN "evalReq" ELSE "addFail")
  /\ reqCount' = reqCount + 1
  /\ UNCHANGED <<state, cooling, failCount, windowOld, probeVars, localVars>>

AddFail(r) ==
  /\ Move(r, "addFail", "evalReq")
  /\ failCount' = failCount + 1
  /\ UNCHANGED <<state, cooling, reqCount, windowOld, probeVars, localVars>>

MaybeOpenReq(r) ==
  /\ Move(r, "evalReq", IF reqCount < MinimumRequests THEN "reported" ELSE "evalFail")
  /\ seen' = [seen EXCEPT ![r] = IF reqCount < MinimumRequests THEN 0 ELSE reqCount]
  /\ UNCHANGED <<breakerVars, ok, attempts>>

MaybeOpenFail(r) ==
  /\ Move(r, "evalFail", IF (failCount * 100) \div seen[r] >= Threshold
                         THEN "openUntil" ELSE "reported")
  /\ seen' = [seen EXCEPT ![r] = 0]
  /\ UNCHANGED <<breakerVars, ok, attempts>>

OpenUntil(r) ==
  /\ Move(r, "openUntil", "openState")
  /\ cooling' = TRUE
  /\ UNCHANGED <<state, windowVars, probeVars, localVars>>

OpenState(r) ==
  /\ Move(r, "openState", "reported")
  /\ state' = "open"
  /\ UNCHANGED <<cooling, windowVars, probeVars, localVars>>

AfterDecrement(r) == IF ok[r] THEN "addSuccess" ELSE "addProbeFail"

\* Mutant of ReportInFlight: the count is decremented without a look at it.
ReportInFlightAlways(r) ==
  /\ Move(r, "inflight?", "decrement")
  /\ UNCHANGED <<breakerVars, localVars>>

ReportInFlight(r) ==
  /\ Move(r, "inflight?", IF probeInFlight > 0 THEN "decrement" ELSE AfterDecrement(r))
  /\ UNCHANGED <<breakerVars, localVars>>

ReportDecrement(r) ==
  /\ Move(r, "decrement", AfterDecrement(r))
  /\ probeInFlight' = probeInFlight - 1
  /\ UNCHANGED <<state, cooling, windowVars, probeSuccess, probeFail, localVars>>

AddProbeFail(r) ==
  /\ Move(r, "addProbeFail", "openUntil")
  /\ probeFail' = 1
  /\ UNCHANGED <<state, cooling, windowVars, probeInFlight, probeSuccess, localVars>>

AddProbeSuccess(r) ==
  /\ Move(r, "addSuccess", "failed?")
  /\ probeSuccess' = IF probeSuccess < HalfOpenMaxProbes THEN probeSuccess + 1 ELSE probeSuccess
  /\ UNCHANGED <<state, cooling, windowVars, probeInFlight, probeFail, localVars>>

\* The two loads of Report's closing condition.
NoProbeFailed(r) ==
  /\ Move(r, "failed?", IF probeFail = 0 THEN "enough?" ELSE "reported")
  /\ UNCHANGED <<breakerVars, localVars>>

EnoughProbes(r) ==
  /\ Move(r, "enough?", IF probeSuccess >= HalfOpenMaxProbes THEN "closeState" ELSE "reported")
  /\ UNCHANGED <<breakerVars, localVars>>

CloseState(r) ==
  /\ Move(r, "closeState", "closeWindow")
  /\ state' = "closed"
  /\ UNCHANGED <<cooling, windowVars, probeVars, localVars>>

CloseWindow(r) ==
  /\ Move(r, "closeWindow", "closeZeroReq")
  /\ windowOld' = FALSE
  /\ UNCHANGED <<state, cooling, reqCount, failCount, probeVars, localVars>>

-----------------------------------------------------------------------------
(* Time, and the registry's reaper.                                        *)

OpenExpires ==
  /\ state = "open" \/ \E r \in Requests : pc[r] = "cooled?"
  /\ cooling /\ cooling' = FALSE
  /\ UNCHANGED <<state, windowVars, probeVars, pc, localVars>>

WindowPasses ==
  /\ state = "closed" \/ \E r \in Requests : pc[r] = "rotate"
  /\ ~windowOld /\ windowOld' = TRUE
  /\ UNCHANGED <<state, cooling, reqCount, failCount, probeVars, pc, localVars>>

\* The entry was not asked for during its ttl and is dropped; the next call
\* creates a new breaker.
Reap ==
  /\ \A r \in Requests : pc[r] \in Free \cup {"admitted"}
  /\ state' = "closed" /\ cooling' = FALSE /\ windowOld' = FALSE
  /\ reqCount' = 0 /\ failCount' = 0
  /\ probeInFlight' = 0 /\ probeSuccess' = 0 /\ probeFail' = 0
  /\ UNCHANGED <<pc, localVars>>

-----------------------------------------------------------------------------
Allow(r) ==
  \/ AllowOpen(r) \/ AllowCAS(r) \/ AllowReload(r) \/ ProbeAdd(r) \/ ProbeUndo(r)

Report(r) ==
  \/ RotateWindow(r) \/ ZeroReq(r) \/ ZeroFail(r)
  \/ AddReq(r) \/ AddFail(r) \/ MaybeOpenReq(r) \/ MaybeOpenFail(r)
  \/ OpenUntil(r) \/ OpenState(r)
  \/ ReportInFlight(r) \/ ReportDecrement(r) \/ AddProbeFail(r) \/ AddProbeSuccess(r)
  \/ NoProbeFailed(r) \/ EnoughProbes(r) \/ CloseState(r) \/ CloseWindow(r)

Proceed(r) ==
  \/ Allow(r) \/ ResetProbes(r) \/ Report(r)
  \/ Attempt(r, TRUE) \/ Attempt(r, FALSE) \/ Unreported(r) \/ Retry(r)

Next ==
  \/ \E r \in Requests : AllowLoad(r) \/ Proceed(r)
  \/ OpenExpires \/ WindowPasses \/ Reap

Spec == Init /\ [][Next]_vars

(* Time passes, a request that was begun ends, and there is traffic.       *)
FairSpec ==
  /\ Spec
  /\ \A r \in Requests : WF_vars(AllowLoad(r)) /\ WF_vars(Proceed(r))
  /\ WF_vars(OpenExpires) /\ WF_vars(WindowPasses)

-----------------------------------------------------------------------------
Labels ==
  {"idle", "refused", "admitted", "cooled?", "cas", "reload", "probe", "undo", "reset", "reset2", "reset3",
   "rotate", "zeroReq", "zeroFail", "addReq", "addFail", "evalReq", "evalFail",
   "openUntil", "openState", "inflight?", "decrement", "addProbeFail", "addSuccess", "failed?",
   "enough?", "closeState", "closeWindow", "closeZeroReq", "closeZeroFail",
   "closeReset", "closeReset2", "closeReset3", "reported", "unreported"}

\* Types; maybeOpen never divides by zero.
TypeOK ==
  /\ state \in {"closed", "open", "half"}
  /\ cooling \in BOOLEAN /\ windowOld \in BOOLEAN
  /\ reqCount \in Nat /\ failCount \in Nat
  /\ probeInFlight \in Int /\ probeSuccess \in 0..HalfOpenMaxProbes /\ probeFail \in 0..1
  /\ pc \in [Requests -> Labels]
  /\ ok \in [Requests -> BOOLEAN]
  /\ attempts \in [Requests -> 0..MaxAttempts]
  /\ seen \in [Requests -> Nat]
  /\ \A r \in Requests : pc[r] = "evalFail" => seen[r] > 0

\* allowHalfOpen and Report: decrements that race with resetProbes or with each
\* other can make probeInFlight negative, and the half-open breaker then admits
\* more than HalfOpenMaxProbes, but never more than one extra for each other
\* request goroutine.
ProbeDeficitBounded == probeInFlight >= 1 - Cardinality(Requests)

\* Report: if every admitted request is reported, a half-open breaker does not
\* stay so while there is traffic; its probes close it or open it.
HalfOpenEnds ==
  [](\A r \in Requests : pc[r] # "unreported") => ((state = "half") ~> (state # "half"))

\* docs/FAILURE_MODES.md, circuit_open is retryable: while the clients keep
\* asking, a refused one is let through again some time.
RefusalEnds == \A r \in Requests : (pc[r] = "refused") ~> (pc[r] = "admitted")
=============================================================================
