------------------------------ MODULE Outlier ------------------------------
(***************************************************************************)
(* Outlier detection (internal/outlier) for one pool with one address: the *)
(* registry's entry and its latency loop, which appear and go under the    *)
(* mutex, and the lock-free counters of the address, which requests and    *)
(* loops work on with the pointer they looked up.  Each atomic operation   *)
(* is a step; a section of the mutex is one too.  How the latency loop     *)
(* finds an endpoint slow is left open.                                    *)
(***************************************************************************)
EXTENDS Integers

CONSTANTS
  Requests, Loops,      \* goroutines; each Loops member is started at most once
  States,               \* EndpointState instances; each is created at most once
  Intervals,            \* the values of latency_eval_interval
  ErrorRateWindow, MinRequests, ErrorRateThresholdPercent, ConsecutiveFailures,
  LatencyConsecutiveIntervals, BaseEject, MaxEject, ForgetAfter, TTL,
  MaxTime,              \* where the clock stops (a bound)
  MaxCount,             \* requests and ejections of an address that let another begin (a bound)
  None                  \* nil

Procs == Requests \cup Loops
Configs == [enabled : BOOLEAN, latency : BOOLEAN, interval : Intervals, present : BOOLEAN]

OutlierAssumption ==
  /\ {ErrorRateWindow, MinRequests, ErrorRateThresholdPercent, ConsecutiveFailures,
      LatencyConsecutiveIntervals, BaseEject, MaxEject, ForgetAfter, TTL, MaxTime, MaxCount}
       \subseteq Nat \ {0}
  /\ None \notin States \cup Loops \cup Intervals

VARIABLES
  now,
  listed, config, endpoint, lastSeen,    \* the entry of the pool
  loop, loopInterval,                    \* its latencyStopCh and latencyInterval
  alive, stopped,                        \* the loops that run, and that were told to stop
  created,                               \* the EndpointStates made so far
  ejectUntil, ejectCount, lastEjectAt,
  consecutiveFails, windowStart, windowReq, windowFail, badIntervals,
  pc, ref, at, saw, success,             \* each goroutine's place and locals
  cutoff                                 \* the reaper's, None outside reapOnce

entry == <<listed, config, endpoint, lastSeen>>
loops == <<loop, loopInterval, alive, stopped>>
ejection == <<ejectUntil, ejectCount, lastEjectAt>>
window == <<windowStart, windowReq, windowFail>>
counters == <<consecutiveFails, badIntervals>>
locals == <<ref, at, saw, success>>
vars == <<now, entry, loops, created, ejection, window, counters, pc, locals, cutoff>>

Init ==
  /\ now = 1
  /\ listed = FALSE /\ config = (CHOOSE cfg \in Configs : ~cfg.enabled)
  /\ endpoint = None /\ lastSeen = 0
  /\ loop = None /\ loopInterval = None /\ alive = {} /\ stopped = {} /\ created = {}
  /\ ejectUntil = [s \in States |-> 0] /\ ejectCount = [s \in States |-> 0]
  /\ lastEjectAt = [s \in States |-> 0]
  /\ consecutiveFails = [s \in States |-> 0] /\ badIntervals = [s \in States |-> 0]
  /\ windowStart = [s \in States |-> 0] /\ windowReq = [s \in States |-> 0]
  /\ windowFail = [s \in States |-> 0]
  /\ pc = [p \in Procs |-> "idle"] /\ ref = [p \in Procs |-> None]
  /\ at = [p \in Procs |-> 0] /\ saw = [p \in Procs |-> 0] /\ success = [p \in Procs |-> FALSE]
  /\ cutoff = None

-----------------------------------------------------------------------------
(* The registry, under its mutex.                                          *)

\* stopLatencyLoopLocked.
StopLoop ==
  /\ stopped' = stopped \cup ({loop} \ {None})
  /\ loop' = None /\ loopInterval' = None /\ UNCHANGED alive

\* stopLatencyLoopLocked and startLatencyLoopLocked.
RestartLoop(interval) ==
  \E l \in Loops \ (alive \cup stopped) :
    /\ stopped' = stopped \cup ({loop} \ {None})
    /\ loop' = l /\ loopInterval' = interval /\ alive' = alive \cup {l}

\* UpdateConfig of the state that stays, NewEndpointState, or its removal.
ReconcileEndpoint(cfg) ==
  LET kept == IF listed THEN endpoint ELSE None IN
  \/ /\ cfg.present /\ kept # None
     /\ endpoint' = kept /\ created' = created
     /\ badIntervals' = IF cfg.latency THEN badIntervals ELSE [badIntervals EXCEPT ![kept] = 0]
  \/ /\ cfg.present /\ kept = None
     /\ \E s \in States \ created : endpoint' = s /\ created' = created \cup {s}
     /\ UNCHANGED badIntervals
  \/ /\ ~cfg.present /\ endpoint' = None /\ UNCHANGED <<created, badIntervals>>

Reconcile(cfg) ==
  /\ listed' = TRUE /\ config' = cfg /\ lastSeen' = now
  /\ ReconcileEndpoint(cfg)
  /\ \/ cfg.enabled /\ cfg.latency /\ loopInterval # cfg.interval /\ RestartLoop(cfg.interval)
     \/ cfg.enabled /\ cfg.latency /\ loopInterval = cfg.interval /\ UNCHANGED loops
     \/ ~(cfg.enabled /\ cfg.latency) /\ StopLoop
  /\ UNCHANGED <<now, ejection, window, consecutiveFails, pc, locals, cutoff>>

\* reapOnce reads the clock, and then takes the mutex.
ReapStart ==
  /\ cutoff = None
  /\ cutoff' = now - TTL
  /\ UNCHANGED <<now, entry, loops, created, ejection, window, counters, pc, locals>>

Reap ==
  /\ cutoff # None /\ cutoff' = None
  /\ \/ /\ listed /\ lastSeen < cutoff
        /\ listed' = FALSE /\ StopLoop
     \/ ~(listed /\ lastSeen < cutoff) /\ UNCHANGED <<listed, loops>>
  /\ UNCHANGED <<now, config, endpoint, lastSeen, created, ejection, window, counters, pc, locals>>

\* Close also ends the reaper; that it may reap once more only adds behaviours.
Close ==
  /\ loop # None /\ StopLoop
  /\ UNCHANGED <<now, entry, created, ejection, window, counters, pc, locals, cutoff>>

-----------------------------------------------------------------------------
(* A goroutine's steps.                                                    *)

Goto(p, from, to) == pc[p] = from /\ pc' = [pc EXCEPT ![p] = to]

Bounded(s) == s # None => windowReq[s] < MaxCount /\ ejectCount[s] < MaxCount

\* endpoint: a request's lookup marks the entry as seen.
RecordResult(p, ok) ==
  /\ p \in Requests /\ Bounded(endpoint)
  /\ Goto(p, "idle", IF listed /\ endpoint # None /\ config.enabled THEN "clock" ELSE "idle")
  /\ ref' = [ref EXCEPT ![p] = IF listed THEN endpoint ELSE None]
  /\ success' = [success EXCEPT ![p] = ok]
  /\ lastSeen' = IF listed THEN now ELSE lastSeen
  /\ UNCHANGED <<now, listed, config, endpoint, loops, created, ejection, window, counters,
                 at, saw, cutoff>>

\* evaluateLatency: a loop's does not.  The loop knows the pool's key only.
EvaluateLatency(l) ==
  /\ l \in alive /\ listed /\ endpoint # None /\ config.enabled /\ config.latency
  /\ Bounded(endpoint)
  /\ Goto(l, "idle", "clock")
  /\ ref' = [ref EXCEPT ![l] = endpoint]
  /\ UNCHANGED <<now, entry, loops, created, ejection, window, counters, at, saw, success, cutoff>>

LoopExit(l) ==
  /\ l \in alive \cap stopped /\ pc[l] = "idle"
  /\ alive' = alive \ {l}
  /\ UNCHANGED <<now, entry, loop, loopInterval, stopped, created, ejection, window, counters,
                 pc, locals, cutoff>>

ReadClock(p) ==
  /\ Goto(p, "clock", IF p \in Loops THEN "observe" ELSE "window")
  /\ at' = [at EXCEPT ![p] = now]
  /\ UNCHANGED <<now, entry, loops, created, ejection, window, counters, ref, saw, success, cutoff>>

\* RecordResult starts a new window: the start by CompareAndSwap, then the counts.
LoadWindow(p) ==
  LET start == windowStart[ref[p]] IN
  /\ Goto(p, "window", IF start = 0 \/ at[p] - start > ErrorRateWindow THEN "swap" ELSE "count")
  /\ saw' = [saw EXCEPT ![p] = start]
  /\ UNCHANGED <<now, entry, loops, created, ejection, window, counters, ref, at, success, cutoff>>

SwapWindow(p) ==
  LET won == windowStart[ref[p]] = saw[p] IN
  /\ Goto(p, "swap", IF won THEN "zero" ELSE "count")
  /\ windowStart' = IF won THEN [windowStart EXCEPT ![ref[p]] = at[p]] ELSE windowStart
  /\ UNCHANGED <<now, entry, loops, created, ejection, windowReq, windowFail, counters,
                 locals, cutoff>>

\* Two stores, at either of the places that clear the counts.
ZeroReq(p, from, to) ==
  /\ Goto(p, from, to)
  /\ windowReq' = [windowReq EXCEPT ![ref[p]] = 0]
  /\ UNCHANGED <<now, entry, loops, created, ejection, windowStart, windowFail, counters,
                 locals, cutoff>>
ZeroFail(p, from, to) ==
  /\ Goto(p, from, to)
  /\ windowFail' = [windowFail EXCEPT ![ref[p]] = 0]
  /\ UNCHANGED <<now, entry, loops, created, ejection, windowStart, windowReq, counters,
                 locals, cutoff>>

CountReq(p) ==
  /\ Goto(p, "count", IF success[p] THEN "succeed" ELSE "fail")
  /\ windowReq' = [windowReq EXCEPT ![ref[p]] = @ + 1]
  /\ UNCHANGED <<now, entry, loops, created, ejection, windowStart, windowFail, counters,
                 locals, cutoff>>

CountFail(p) ==
  /\ Goto(p, "fail", "consecutive")
  /\ windowFail' = [windowFail EXCEPT ![ref[p]] = @ + 1]
  /\ UNCHANGED <<now, entry, loops, created, ejection, windowStart, windowReq, counters,
                 locals, cutoff>>

CountConsecutive(p) ==
  /\ Goto(p, "consecutive", "compare")
  /\ consecutiveFails' = [consecutiveFails EXCEPT ![ref[p]] = @ + 1]
  /\ UNCHANGED <<now, entry, loops, created, ejection, window, badIntervals, locals, cutoff>>

CompareConsecutive(p) ==
  /\ Goto(p, "compare", IF consecutiveFails[ref[p]] >= ConsecutiveFailures THEN "clear" ELSE "rate")
  /\ UNCHANGED <<now, entry, loops, created, ejection, window, counters, locals, cutoff>>

\* A success, and a streak that is about to eject, start the streak again.
ClearConsecutive(p, from, to) ==
  /\ Goto(p, from, to)
  /\ consecutiveFails' = [consecutiveFails EXCEPT ![ref[p]] = 0]
  /\ UNCHANGED <<now, entry, loops, created, ejection, window, badIntervals, locals, cutoff>>

LoadReq(p) ==
  /\ Goto(p, "rate", IF windowReq[ref[p]] < MinRequests THEN "idle" ELSE "loadfail")
  /\ saw' = [saw EXCEPT ![p] = windowReq[ref[p]]]
  /\ UNCHANGED <<now, entry, loops, created, ejection, window, counters, ref, at, success, cutoff>>

LoadFail(p) ==
  /\ Goto(p, "loadfail", IF windowFail[ref[p]] * 100 >= ErrorRateThresholdPercent * saw[p]
                         THEN "rezero" ELSE "idle")
  /\ UNCHANGED <<now, entry, loops, created, ejection, window, counters, locals, cutoff>>

\* ObserveLatency: another bad interval, the one that ejects, or a good one.
ObserveBad(l) ==
  /\ Goto(l, "observe",
          IF badIntervals[ref[l]] + 1 >= LatencyConsecutiveIntervals THEN "forgive" ELSE "idle")
  /\ badIntervals' = [badIntervals EXCEPT ![ref[l]] = @ + 1]
  /\ UNCHANGED <<now, entry, loops, created, ejection, window, consecutiveFails, locals, cutoff>>
ObserveReset(l, from, to) ==
  /\ Goto(l, from, to)
  /\ badIntervals' = [badIntervals EXCEPT ![ref[l]] = 0]
  /\ UNCHANGED <<now, entry, loops, created, ejection, window, consecutiveFails, locals, cutoff>>

\* eject: the base duration, doubled for every ejection counted before, and capped.
EjectDuration(count) ==
  LET doubled == BaseEject * 2 ^ (count - 1) IN
  IF doubled \in 0..MaxEject - 1 THEN doubled ELSE MaxEject

EjectLoad(p) ==
  LET last == lastEjectAt[ref[p]] IN
  /\ Goto(p, "eject", IF last > 0 /\ at[p] - last > ForgetAfter THEN "forget" ELSE "counteject")
  /\ UNCHANGED <<now, entry, loops, created, ejection, window, counters, locals, cutoff>>

EjectForget(p) ==
  /\ Goto(p, "forget", "counteject")
  /\ ejectCount' = [ejectCount EXCEPT ![ref[p]] = 0]
  /\ UNCHANGED <<now, entry, loops, created, ejectUntil, lastEjectAt, window, counters,
                 locals, cutoff>>

EjectCount(p) ==
  /\ Goto(p, "counteject", "last")
  /\ ejectCount' = [ejectCount EXCEPT ![ref[p]] = @ + 1]
  /\ saw' = [saw EXCEPT ![p] = ejectCount[ref[p]] + 1]
  /\ UNCHANGED <<now, entry, loops, created, ejectUntil, lastEjectAt, window, counters,
                 ref, at, success, cutoff>>

StoreLastEject(p) ==
  /\ Goto(p, "last", "until")
  /\ lastEjectAt' = [lastEjectAt EXCEPT ![ref[p]] = at[p]]
  /\ UNCHANGED <<now, entry, loops, created, ejectUntil, ejectCount, window, counters,
                 locals, cutoff>>

StoreEjectUntil(p) ==
  /\ Goto(p, "until", "idle")
  /\ ejectUntil' = [ejectUntil EXCEPT ![ref[p]] = at[p] + EjectDuration(saw[p])]
  /\ UNCHANGED <<now, entry, loops, created, ejectCount, lastEjectAt, window, counters,
                 locals, cutoff>>

Tick ==
  /\ now < MaxTime /\ now' = now + 1
  /\ UNCHANGED <<entry, loops, created, ejection, window, counters, pc, locals, cutoff>>

Record(p) ==
  \/ LoadWindow(p) \/ SwapWindow(p) \/ ZeroReq(p, "zero", "zerofail")
  \/ ZeroFail(p, "zerofail", "count") \/ CountReq(p) \/ CountFail(p)
  \/ CountConsecutive(p) \/ CompareConsecutive(p) \/ ClearConsecutive(p, "clear", "eject")
  \/ ClearConsecutive(p, "succeed", "rate") \/ LoadReq(p) \/ LoadFail(p)
  \/ ZeroReq(p, "rezero", "rezerofail") \/ ZeroFail(p, "rezerofail", "eject")

Observe(l) ==
  ObserveBad(l) \/ ObserveReset(l, "observe", "idle") \/ ObserveReset(l, "forgive", "eject")

Eject(p) ==
  EjectLoad(p) \/ EjectForget(p) \/ EjectCount(p) \/ StoreLastEject(p) \/ StoreEjectUntil(p)

Next ==
  \/ \E cfg \in Configs : Reconcile(cfg)
  \/ ReapStart \/ Reap \/ Close \/ Tick
  \/ \E p \in Requests : (\E ok \in BOOLEAN : RecordResult(p, ok)) \/ Record(p)
  \/ \E l \in Loops : EvaluateLatency(l) \/ LoopExit(l) \/ Observe(l)
  \/ \E p \in Procs : ReadClock(p) \/ Eject(p)

Spec == Init /\ [][Next]_vars

-----------------------------------------------------------------------------
\* eject: however the ejections of several goroutines interleave, the address is
\* offered again no later than MaxEjectDuration from now, if nothing else ejects it.
EjectionBounded == \A s \in States : ejectUntil[s] <= now + MaxEject

\* Reconcile, reapOnce, Close: no latency loop is leaked or doubled.  The one that
\* runs and was not told to stop is the entry's, and runs at its interval.
LoopsOwned ==
  /\ alive \ stopped = {loop} \ {None}
  /\ loop # None => /\ listed /\ config.enabled /\ config.latency
                    /\ loopInterval = config.interval

\* reapOnce: what a request or a configuration touched within the TTL is kept,
\* although the cutoff is computed before the mutex is taken.
UsedIsKept == [][listed /\ ~listed' => now - lastSeen > TTL]_vars

\* reapOnce: the pool of the configuration that was applied last has its entry.
\* The code does not promise it: a pool without requests for the TTL is forgotten,
\* and only the next Reconcile brings the detection back.
WatchedWhileConfigured == config.enabled => listed

=============================================================================
