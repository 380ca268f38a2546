----------------------------- MODULE AutoDrain -----------------------------
(***************************************************************************)
(* The auto-drain controller of one traffic plan (internal/traffic/        *)
(* stats.go): requests record their outcomes in a ring of buckets that     *)
(* slides over the last Window ticks, and at its ticks the controller      *)
(* compares the canary's error rate in the window with the stable one's.   *)
(* TrafficPlan has the plans that come and go, and abstracts from this.    *)
(*                                                                         *)
(* Record and evaluate read the clock before they take the mutex, so the   *)
(* ring may be rotated to a time that is older than its own.  A bucket is  *)
(* named by how many places it lies behind the current one, and holds the  *)
(* requests it counted.                                                    *)
(***************************************************************************)
EXTENDS Integers, FiniteSets

CONSTANTS
  Requests,        \* requests, each recorded once
  Window, BucketDuration,
  MinRequests, ErrorRateMultiplier, Cooloff,    \* AutoDrainConfig
  MaxSkew,         \* ticks between reading the clock and locking (a bound)
  MaxTime          \* where the clock stops (a bound)

AutoDrainAssumption ==
  /\ Window \in Nat \ {0} /\ BucketDuration \in 1..Window
  /\ MinRequests \in Nat /\ ErrorRateMultiplier \in Nat /\ Cooloff \in Nat
  /\ MaxSkew \in Nat /\ MaxTime \in Nat

Zero == -1    \* Go's zero time

VARIABLES
  now,
  buckets, currentStart,
  variant, failed,   \* what each request is going to record
  time,              \* the clock as each request read it
  recorded,          \* the requests that have been recorded
  evalAt,            \* the clock as the controller read it
  drainedUntil

ring == <<buckets, currentStart>>
vars == <<now, ring, variant, failed, time, recorded, evalAt, drainedUntil>>

\* NewStats: as many buckets as it takes to cover the window.
Count == (Window + BucketDuration - 1) \div BucketDuration
Places == 0..Count - 1

EmptyBucket == [start |-> Zero, reqs |-> {}]

Init ==
  /\ now = 0
  /\ buckets = [j \in Places |-> EmptyBucket] /\ currentStart = Zero
  /\ variant \in [Requests -> {"stable", "canary"}] /\ failed \in [Requests -> BOOLEAN]
  /\ time = [r \in Requests |-> Zero] /\ recorded = {}
  /\ evalAt = Zero /\ drainedUntil = 0

-----------------------------------------------------------------------------
(* rotateLocked(t), as the ring it leaves.                                 *)

Steps(t) == (t - currentStart) \div BucketDuration

\* The ring moves on by some buckets: they are empty and start one after another.
Advance(steps) ==
  [buckets |-> [j \in Places |->
                  IF j < steps
                  THEN [start |-> currentStart + (steps - j) * BucketDuration, reqs |-> {}]
                  ELSE buckets[j - steps]],
   currentStart |-> currentStart + steps * BucketDuration]

\* Everything is older than the ring is long: start over at t.
Restart(t) ==
  [buckets |-> [j \in Places |-> IF j = 0 THEN [start |-> t, reqs |-> {}] ELSE EmptyBucket],
   currentStart |-> t]

Rotated(t) ==
  CASE currentStart = Zero ->
         [buckets |-> [buckets EXCEPT ![0].start = t], currentStart |-> t]
    [] currentStart # Zero /\ t - currentStart < BucketDuration ->
         [buckets |-> buckets, currentStart |-> currentStart]
    [] currentStart # Zero /\ t - currentStart >= BucketDuration /\ Steps(t) >= Count ->
         Restart(t)
    [] OTHER -> Advance(Steps(t))

\* The requests WindowTotals counts at time t in a ring rotated to t.
InWindow(rg, t) ==
  UNION {rg.buckets[j].reqs :
           j \in {k \in Places : rg.buckets[k].start # Zero /\ rg.buckets[k].start >= t - Window}}

-----------------------------------------------------------------------------
\* Record reads the clock and then takes the mutex.
ReadClock(r) ==
  /\ time[r] = Zero
  /\ time' = [time EXCEPT ![r] = now]
  /\ UNCHANGED <<now, ring, variant, failed, recorded, evalAt, drainedUntil>>

Pending(r) == time[r] # Zero /\ r \notin recorded

Record(r) ==
  LET rg == Rotated(time[r]) IN
  /\ Pending(r)
  /\ buckets' = [rg.buckets EXCEPT ![0].reqs = @ \cup {r}]
  /\ currentStart' = rg.currentStart
  /\ recorded' = recorded \cup {r}
  /\ UNCHANGED <<now, variant, failed, time, evalAt, drainedUntil>>

\* A tick of the controller: evaluate(time.Now()).
EvaluateStart ==
  /\ evalAt = Zero
  /\ evalAt' = now
  /\ UNCHANGED <<now, ring, variant, failed, time, recorded, drainedUntil>>

Reqs(S, v) == {r \in S : variant[r] = v}
Errs(S, v) == {r \in S : variant[r] = v /\ failed[r]}

\* The canary's error rate is not zero and at least the multiple of the stable
\* one's, on enough requests.
CanaryBad(S) ==
  /\ Cardinality(Reqs(S, "canary")) >= MinRequests
  /\ Errs(S, "canary") # {}
  /\ \/ Reqs(S, "stable") = {}
     \/ Cardinality(Errs(S, "canary")) * Cardinality(Reqs(S, "stable")) >=
          ErrorRateMultiplier * Cardinality(Errs(S, "stable")) * Cardinality(Reqs(S, "canary"))

\* drainUntil only moves the end of the drain later.
Evaluate ==
  LET rg == Rotated(evalAt) IN
  /\ evalAt # Zero
  /\ buckets' = rg.buckets /\ currentStart' = rg.currentStart
  /\ drainedUntil' = IF /\ CanaryBad(InWindow(rg, evalAt))
                        /\ Cooloff > 0 /\ drainedUntil < evalAt + Cooloff
                     THEN evalAt + Cooloff ELSE drainedUntil
  /\ evalAt' = Zero
  /\ UNCHANGED <<now, variant, failed, time, recorded>>

\* Nobody waits for the mutex longer than MaxSkew.
Tick ==
  /\ \A r \in Requests : Pending(r) => now < time[r] + MaxSkew
  /\ evalAt # Zero => now < evalAt + MaxSkew
  /\ now < MaxTime
  /\ now' = now + 1
  /\ UNCHANGED <<ring, variant, failed, time, recorded, evalAt, drainedUntil>>

Next ==
  \/ \E r \in Requests : ReadClock(r) \/ Record(r)
  \/ EvaluateStart \/ Evaluate \/ Tick

Spec == Init /\ [][Next]_vars

-----------------------------------------------------------------------------
\* What a WindowTotals called now would count.
CountedNow == InWindow(Rotated(now), now)

\* WindowTotals, rotateLocked: the window never counts too much.  A request that
\* is older than the window, by more than its goroutine may have waited for the
\* mutex, is in no total, however the ring was rotated since.
NothingStale == \A r \in CountedNow : time[r] >= now - Window - MaxSkew

\* WindowTotals, rotateLocked: the window never counts too little.  A request
\* younger than the window less one bucket is in the total: no bucket is emptied
\* early, by a rotation of several buckets or of a full turn.
NothingLost == \A r \in recorded : time[r] >= now - Window + BucketDuration => r \in CountedNow

\* evaluate, drainUntil: a drain has a cause that is recent enough.  The canary is
\* kept drained only within Cooloff of an evaluation that had one of its errors
\* in the window.
DrainHasCause ==
  drainedUntil > 0 =>
    \E r \in Errs(recorded, "canary") : time[r] >= drainedUntil - Cooloff - Window - MaxSkew

-----------------------------------------------------------------------------
(* The inductive invariant behind the three.                               *)

Rings == [buckets : [Places -> [start : Int, reqs : SUBSET Requests]], currentStart : Int]

\* What holds of the ring, and of any ring it may be rotated to.
RingInv(rg) ==
  /\ rg \in Rings /\ Zero <= rg.currentStart /\ rg.currentStart <= now
  /\ \A j \in Places : \/ rg.buckets[j].start = Zero
                       \/ /\ rg.currentStart # Zero /\ rg.buckets[j].start >= 0
                          /\ rg.buckets[j].start = rg.currentStart - j * BucketDuration
  /\ \A j \in Places : \A r \in rg.buckets[j].reqs :
       /\ r \in recorded /\ rg.buckets[j].start # Zero
       /\ rg.buckets[j].start <= time[r] + MaxSkew
       /\ time[r] < rg.buckets[j].start + BucketDuration
  /\ \A r \in recorded : \/ \E j \in Places : r \in rg.buckets[j].reqs
                         \/ time[r] < rg.currentStart - (Count - 1) * BucketDuration
  /\ rg.currentStart = Zero => recorded = {}
  /\ rg.currentStart # Zero => rg.buckets[0].start = rg.currentStart

Inv ==
  /\ now \in Nat /\ time \in [Requests -> Int] /\ recorded \subseteq Requests
  /\ \A r \in Requests : Zero <= time[r] /\ time[r] <= now
  /\ \A r \in recorded : time[r] # Zero
  /\ \A r \in Requests : Pending(r) => now <= time[r] + MaxSkew
  /\ evalAt \in Int /\ Zero <= evalAt /\ evalAt <= now /\ drainedUntil \in Nat
  /\ RingInv([buckets |-> buckets, currentStart |-> currentStart])
  /\ DrainHasCause
=============================================================================
