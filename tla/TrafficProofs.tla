--------------------------- MODULE TrafficProofs ----------------------------
(***************************************************************************)
(* Proofs about how an answer and an endpoint are found for a request:     *)
(* CoalescedCache for any requests, keys, time to live and number of       *)
(* flights; AutoDrain for any window, bucket and thresholds; Outlier for   *)
(* any durations and number of requests; TrafficPlan for any sets of       *)
(* appliers, configurations and plans.                                     *)
(***************************************************************************)
EXTENDS CoalescedCache, TLAPS

\* What coalescing and the round trip have made of a request at each label.
RoleInv ==
  \A r \in Requests :
    /\ pc[r] \in {"arrive", "get", "delete", "start"} => role[r] = "none"
    /\ pc[r] = "wait" => role[r] = "follower" /\ joined[r] # None
    /\ pc[r] \in {"arrive", "get", "delete", "start", "wait", "upstream"} => outcome[r] = "none"
    /\ pc[r] = "set" => outcome[r] = "cacheable"
    /\ pc[r] \in {"publish", "close"} => role[r] = "leader"

\* What is stored, or left in a flight, is a cacheable response to the key, and a
\* follower joined a leader of its key.
SourceInv ==
  /\ \A k \in Keys : entries[k] # None =>
       key[entries[k].by] = k /\ outcome[entries[k].by] = "cacheable"
  /\ \A r \in Requests : result[r] # None => result[r] = r /\ outcome[r] = "cacheable"
  /\ \A r \in Requests : joined[r] # None =>
       key[joined[r]] = key[r] /\ role[joined[r]] = "leader"

\* The inductive invariant.
CacheInv ==
  /\ TypeOK /\ RoleInv /\ SourceInv
  /\ SharedOnlyIfCacheable /\ FlightHasLeader /\ FollowerIsReleased
-----------------------------------------------------------------------------
(* The invariant is inductive.                                              *)

LEMMA InitInv == Init => CacheInv
<1> SUFFICES ASSUME Init PROVE CacheInv
  OBVIOUS
<1> USE CacheAssumption DEF Init
<1>1. TypeOK
  BY DEF TypeOK, Labels, Roles, Outcomes
<1>2. RoleInv /\ SourceInv
  BY DEF RoleInv, SourceInv
<1>3. SharedOnlyIfCacheable /\ FlightHasLeader /\ FollowerIsReleased
  BY DEF SharedOnlyIfCacheable, FlightHasLeader, FollowerIsReleased
<1> QED BY <1>1, <1>2, <1>3, Zenon DEF CacheInv

LEMMA TickInv == ASSUME CacheInv, Tick PROVE CacheInv'
<1> USE CacheAssumption DEF CacheInv, Tick, flightVars, locals
<1>1. TypeOK'
  BY DEF TypeOK
<1>2. RoleInv' /\ SourceInv'
  BY DEF RoleInv, SourceInv
<1>3. SharedOnlyIfCacheable' /\ FlightHasLeader' /\ FollowerIsReleased'
  BY DEF SharedOnlyIfCacheable, FlightHasLeader, FollowerIsReleased
<1> QED BY <1>1, <1>2, <1>3

LEMMA GetNowInv == ASSUME CacheInv, NEW r \in Requests, GetNow(r) PROVE CacheInv'
<1> USE CacheAssumption DEF CacheInv, TypeOK, GetNow, Goto, flightVars, locals
<1>1. TypeOK'
  BY DEF Labels, Roles
<1>2. RoleInv'
  BY <1>1 DEF RoleInv
<1>3. SourceInv'
  BY <1>1 DEF RoleInv, SourceInv
<1>4. SharedOnlyIfCacheable'
  BY <1>1 DEF RoleInv, SourceInv, SharedOnlyIfCacheable
<1>5. FlightHasLeader'
  BY <1>1 DEF RoleInv, FlightHasLeader
<1>6. FollowerIsReleased'
  BY <1>1 DEF RoleInv, SourceInv, FlightHasLeader, FollowerIsReleased
<1> QED BY <1>1, <1>2, <1>3, <1>4, <1>5, <1>6, Zenon

LEMMA GetInv == ASSUME CacheInv, NEW r \in Requests, Get(r) PROVE CacheInv'
<1> USE CacheAssumption DEF CacheInv, TypeOK, Get, Goto, flightVars, locals
<1>1. TypeOK'
  BY DEF Labels, Roles
<1>2. RoleInv'
  BY <1>1 DEF RoleInv
<1>3. SourceInv'
  BY <1>1, Zenon DEF RoleInv, SourceInv
<1>4. SharedOnlyIfCacheable'
  BY <1>1 DEF RoleInv, SourceInv, SharedOnlyIfCacheable
<1>5. FlightHasLeader'
  BY <1>1 DEF RoleInv, FlightHasLeader
<1>6. FollowerIsReleased'
  BY <1>1 DEF RoleInv, SourceInv, FlightHasLeader, FollowerIsReleased
<1> QED BY <1>1, <1>2, <1>3, <1>4, <1>5, <1>6, Zenon

LEMMA DeleteInv == ASSUME CacheInv, NEW r \in Requests, Delete(r) PROVE CacheInv'
<1> USE CacheAssumption DEF CacheInv, TypeOK, Delete, Goto, flightVars, locals
<1>1. TypeOK'
  BY DEF Labels, Roles
<1>2. RoleInv'
  BY <1>1 DEF RoleInv
<1>3. SourceInv'
  BY <1>1 DEF RoleInv, SourceInv
<1>4. SharedOnlyIfCacheable'
  BY <1>1 DEF RoleInv, SourceInv, SharedOnlyIfCacheable
<1>5. FlightHasLeader'
  BY <1>1 DEF RoleInv, FlightHasLeader
<1>6. FollowerIsReleased'
  BY <1>1 DEF RoleInv, SourceInv, FlightHasLeader, FollowerIsReleased
<1> QED BY <1>1, <1>2, <1>3, <1>4, <1>5, <1>6, Zenon

LEMMA StartInv == ASSUME CacheInv, NEW r \in Requests, Start(r) PROVE CacheInv'
<1> USE CacheAssumption DEF CacheInv, TypeOK, Start, Alone, Follow, Lead, Goto, flightVars, locals
<1>1. TypeOK'
  BY DEF Labels, Roles
<1>2. RoleInv'
  BY <1>1 DEF RoleInv
<1>3. SourceInv'
  BY <1>1 DEF RoleInv, SourceInv, FlightHasLeader
<1>4. SharedOnlyIfCacheable'
  BY <1>1 DEF RoleInv, SourceInv, SharedOnlyIfCacheable
<1>5. FlightHasLeader'
  BY <1>1 DEF RoleInv, FlightHasLeader
<1>6. FollowerIsReleased'
  BY <1>1 DEF RoleInv, SourceInv, FlightHasLeader, FollowerIsReleased
<1> QED BY <1>1, <1>2, <1>3, <1>4, <1>5, <1>6, Zenon

LEMMA WaitServedInv == ASSUME CacheInv, NEW r \in Requests, WaitServed(r) PROVE CacheInv'
<1> USE CacheAssumption DEF CacheInv, TypeOK, WaitServed, Goto, flightVars, locals
<1>1. TypeOK'
  BY Zenon DEF Labels, Roles, RoleInv
<1>2. RoleInv'
  BY <1>1 DEF RoleInv
<1>3. SourceInv'
  BY <1>1, Zenon DEF RoleInv, SourceInv
<1>4. SharedOnlyIfCacheable'
  BY <1>1 DEF RoleInv, SourceInv, SharedOnlyIfCacheable
<1>5. FlightHasLeader'
  BY <1>1 DEF RoleInv, FlightHasLeader
<1>6. FollowerIsReleased'
  BY <1>1 DEF RoleInv, SourceInv, FlightHasLeader, FollowerIsReleased
<1> QED BY <1>1, <1>2, <1>3, <1>4, <1>5, <1>6, Zenon

LEMMA WaitFailedInv == ASSUME CacheInv, NEW r \in Requests, WaitFailed(r) PROVE CacheInv'
<1> USE CacheAssumption DEF CacheInv, TypeOK, WaitFailed, Goto, flightVars, locals
<1>1. TypeOK'
  BY Zenon DEF Labels, Roles
<1>2. RoleInv'
  BY <1>1 DEF RoleInv
<1>3. SourceInv'
  BY <1>1 DEF RoleInv, SourceInv
<1>4. SharedOnlyIfCacheable'
  BY <1>1 DEF RoleInv, SourceInv, SharedOnlyIfCacheable
<1>5. FlightHasLeader'
  BY <1>1 DEF RoleInv, FlightHasLeader
<1>6. FollowerIsReleased'
  BY <1>1 DEF RoleInv, SourceInv, FlightHasLeader, FollowerIsReleased
<1> QED BY <1>1, <1>2, <1>3, <1>4, <1>5, <1>6, Zenon

LEMMA WaitTimeoutInv == ASSUME CacheInv, NEW r \in Requests, WaitTimeout(r) PROVE CacheInv'
<1> USE CacheAssumption DEF CacheInv, TypeOK, WaitTimeout, Goto, flightVars, locals
<1>1. TypeOK'
  BY Zenon DEF Labels, Roles
<1>2. RoleInv'
  BY <1>1, Zenon DEF RoleInv
<1>3. SourceInv'
  BY <1>1 DEF RoleInv, SourceInv
<1>4. SharedOnlyIfCacheable'
  BY <1>1 DEF RoleInv, SourceInv, SharedOnlyIfCacheable
<1>5. FlightHasLeader'
  BY <1>1 DEF RoleInv, FlightHasLeader
<1>6. FollowerIsReleased'
  BY <1>1 DEF RoleInv, SourceInv, FlightHasLeader, FollowerIsReleased
<1> QED BY <1>1, <1>2, <1>3, <1>4, <1>5, <1>6, Zenon

LEMMA RoundTripInv == ASSUME CacheInv, NEW r \in Requests, NEW out \in Outcomes, RoundTrip(r, out) PROVE CacheInv'
<1> USE CacheAssumption DEF CacheInv, TypeOK, RoundTrip, Outcomes, Goto, flightVars, locals
<1>1. TypeOK'
  BY Zenon DEF Labels, Roles
<1>2. RoleInv'
  BY <1>1 DEF RoleInv
<1>3. SourceInv'
  BY <1>1 DEF RoleInv, SourceInv
<1>4. SharedOnlyIfCacheable'
  BY <1>1 DEF RoleInv, SourceInv, SharedOnlyIfCacheable
<1>5. FlightHasLeader'
  BY <1>1 DEF RoleInv, FlightHasLeader
<1>6. FollowerIsReleased'
  BY <1>1 DEF RoleInv, SourceInv, FlightHasLeader, FollowerIsReleased
<1> QED BY <1>1, <1>2, <1>3, <1>4, <1>5, <1>6, Zenon

LEMMA SetInv == ASSUME CacheInv, NEW r \in Requests, Set(r) PROVE CacheInv'
<1> USE CacheAssumption DEF CacheInv, TypeOK, Set, Goto, flightVars, locals
<1>1. TypeOK'
  BY DEF Labels, Roles
<1>2. RoleInv'
  BY <1>1, Zenon DEF RoleInv
<1>3. SourceInv'
  BY <1>1 DEF RoleInv, SourceInv
<1>4. SharedOnlyIfCacheable'
  BY <1>1 DEF RoleInv, SourceInv, SharedOnlyIfCacheable
<1>5. FlightHasLeader'
  BY <1>1 DEF RoleInv, FlightHasLeader
<1>6. FollowerIsReleased'
  BY <1>1 DEF RoleInv, SourceInv, FlightHasLeader, FollowerIsReleased
<1> QED BY <1>1, <1>2, <1>3, <1>4, <1>5, <1>6, Zenon

LEMMA ReturnInv == ASSUME CacheInv, NEW r \in Requests, Return(r) PROVE CacheInv'
<1> USE CacheAssumption DEF CacheInv, TypeOK, Return, Goto, flightVars, locals
<1>1. TypeOK'
  BY Zenon DEF Labels, Roles
<1>2. RoleInv'
  BY <1>1, Zenon DEF RoleInv
<1>3. SourceInv'
  BY <1>1, Zenon DEF RoleInv, SourceInv
<1>4. SharedOnlyIfCacheable'
  BY <1>1 DEF RoleInv, SourceInv, SharedOnlyIfCacheable
<1>5. FlightHasLeader'
  BY <1>1 DEF RoleInv, FlightHasLeader
<1>6. FollowerIsReleased'
  BY <1>1 DEF RoleInv, SourceInv, FlightHasLeader, FollowerIsReleased
<1> QED BY <1>1, <1>2, <1>3, <1>4, <1>5, <1>6, Zenon

LEMMA FinishDeleteInv == ASSUME CacheInv, NEW r \in Requests, FinishDelete(r) PROVE CacheInv'
<1> USE CacheAssumption DEF CacheInv, TypeOK, FinishDelete, Goto, flightVars, locals
<1>1. TypeOK'
  BY Zenon DEF Labels, Roles
<1>2. RoleInv'
  BY <1>1, Zenon DEF RoleInv
<1>3. SourceInv'
  BY <1>1, Zenon DEF RoleInv, SourceInv
<1>4. SharedOnlyIfCacheable'
  BY <1>1 DEF RoleInv, SourceInv, SharedOnlyIfCacheable
<1>5. FlightHasLeader'
  BY <1>1 DEF RoleInv, FlightHasLeader
<1>6. FollowerIsReleased'
  BY <1>1 DEF RoleInv, SourceInv, FlightHasLeader, FollowerIsReleased
<1> QED BY <1>1, <1>2, <1>3, <1>4, <1>5, <1>6, Zenon

LEMMA FinishPublishInv == ASSUME CacheInv, NEW r \in Requests, FinishPublish(r) PROVE CacheInv'
<1> USE CacheAssumption DEF CacheInv, TypeOK, FinishPublish, Goto, flightVars, locals
<1>1. TypeOK'
  BY Zenon DEF Labels, Roles
<1>2. RoleInv'
  BY <1>1, Zenon DEF RoleInv
<1>3. SourceInv'
  BY <1>1 DEF RoleInv, SourceInv
<1>4. SharedOnlyIfCacheable'
  BY <1>1 DEF RoleInv, SourceInv, SharedOnlyIfCacheable
<1>5. FlightHasLeader'
  BY <1>1 DEF RoleInv, FlightHasLeader
<1>6. FollowerIsReleased'
  BY <1>1 DEF RoleInv, SourceInv, FlightHasLeader, FollowerIsReleased
<1> QED BY <1>1, <1>2, <1>3, <1>4, <1>5, <1>6, Zenon

LEMMA FinishCloseInv == ASSUME CacheInv, NEW r \in Requests, FinishClose(r) PROVE CacheInv'
<1> USE CacheAssumption DEF CacheInv, TypeOK, FinishClose, Goto, flightVars, locals
<1>1. TypeOK'
  BY Zenon DEF Labels, Roles
<1>2. RoleInv'
  BY <1>1, Zenon DEF RoleInv
<1>3. SourceInv'
  BY <1>1, Zenon DEF RoleInv, SourceInv
<1>4. SharedOnlyIfCacheable'
  BY <1>1 DEF RoleInv, SourceInv, SharedOnlyIfCacheable
<1>5. FlightHasLeader'
  BY <1>1 DEF RoleInv, FlightHasLeader
<1>6. FollowerIsReleased'
  BY <1>1 DEF RoleInv, SourceInv, FlightHasLeader, FollowerIsReleased
<1> QED BY <1>1, <1>2, <1>3, <1>4, <1>5, <1>6, Zenon
LEMMA NextInv == CacheInv /\ [Next]_vars => CacheInv'
<1> SUFFICES ASSUME CacheInv, [Next]_vars PROVE CacheInv'
  OBVIOUS
<1>1. CASE UNCHANGED vars
  <2> USE <1>1 DEF vars, CacheInv
  <2>1. TypeOK'
    BY Zenon DEF TypeOK
  <2>2. RoleInv' /\ SourceInv'
    BY Zenon DEF RoleInv, SourceInv
  <2>3. SharedOnlyIfCacheable' /\ FlightHasLeader' /\ FollowerIsReleased'
    BY DEF SharedOnlyIfCacheable, FlightHasLeader, FollowerIsReleased
  <2> QED BY <2>1, <2>2, <2>3
<1>2. ASSUME NEW r \in Requests, Progress(r) \/ WaitTimeout(r) PROVE CacheInv'
  BY <1>2, GetNowInv, GetInv, DeleteInv, StartInv, WaitServedInv, WaitFailedInv, WaitTimeoutInv,
     RoundTripInv, SetInv, ReturnInv, FinishDeleteInv, FinishPublishInv, FinishCloseInv
  DEF Progress
<1> QED BY <1>1, <1>2, TickInv DEF Next

\* Get, Start, Wait and Finish, whatever the interleaving of requests, expiries,
\* timers and failed round trips: a response reaches another client only for the
\* same key and only if it was cacheable, each flight in the map has a leader that
\* is going to end it, and no follower waits for a flight that nobody closes.
THEOREM CacheCorrect ==
  Spec => [](TypeOK /\ SharedOnlyIfCacheable /\ FlightHasLeader /\ FollowerIsReleased)
<1>1. Spec => []CacheInv
  BY InitInv, NextInv, PTL DEF Spec
<1>2. CacheInv => TypeOK /\ SharedOnlyIfCacheable /\ FlightHasLeader /\ FollowerIsReleased
  BY DEF CacheInv
<1> QED BY <1>1, <1>2, PTL

\* SharedOnlyIfCacheable: what Get and Wait hand to another client was
\* fetched for the same key and was cacheable.
THEOREM SharingIsAllowed == Spec => []SharedOnlyIfCacheable
BY CacheCorrect, PTL

\* FlightHasLeader: a flight stays in Start's map no longer than a leader that
\* is still going to call Finish.
THEOREM FlightsAreLed == Spec => []FlightHasLeader
BY CacheCorrect, PTL

-----------------------------------------------------------------------------
(* AutoDrain: the ring of buckets covers the window, and nothing outside it.*)
CONSTANTS
  Window, BucketDuration, MinRequests, ErrorRateMultiplier, Cooloff,
  MaxSkew, MaxTime
VARIABLES
  buckets, currentStart, variant, failed, time, recorded, evalAt,
  drainedUntil

D == INSTANCE AutoDrain

\* The ring covers the window, and the last bucket begins inside it.
LEMMA CountCovers ==
  ASSUME D!AutoDrainAssumption
  PROVE  /\ D!Count \in Nat \ {0}
         /\ Window <= D!Count * BucketDuration
BY DEF D!AutoDrainAssumption, D!Count

\* What rotateLocked's division yields.
LEMMA StepsWhole ==
  ASSUME D!AutoDrainAssumption, NEW t \in Int, currentStart \in Int,
         t - currentStart >= BucketDuration
  PROVE  /\ D!Steps(t) \in Nat \ {0}
         /\ currentStart + D!Steps(t) * BucketDuration <= t
         /\ t < currentStart + D!Steps(t) * BucketDuration + BucketDuration
BY DEF D!AutoDrainAssumption, D!Steps

Ring == [buckets |-> buckets, currentStart |-> currentStart]

\* rotateLocked keeps the ring's invariant, whatever the time it is called with:
\* its current bucket then starts no later than that time or than it did before,
\* and ends after that time.
LEMMA RotatedInv ==
  ASSUME D!AutoDrainAssumption, D!Inv, NEW t \in Int, 0 <= t, t <= now
  PROVE  /\ D!RingInv(D!Rotated(t))
         /\ D!Rotated(t).currentStart # D!Zero
         /\ t < D!Rotated(t).currentStart + BucketDuration
<1> DEFINE BD == BucketDuration
           rg == D!Rotated(t)
<1> SUFFICES D!RingInv(rg) /\ rg.currentStart # D!Zero /\ t < rg.currentStart + BD
  OBVIOUS
<1> HIDE DEF rg
<1>1. /\ BD \in Nat \ {0} /\ D!Count \in Nat \ {0} /\ now \in Int /\ MaxSkew \in Nat /\ 0 \in D!Places
      /\ time \in [Requests -> Int] /\ recorded \subseteq Requests
      /\ \A r \in recorded : time[r] \in Int
  BY CountCovers DEF D!AutoDrainAssumption, D!Inv, D!Places
<1>2. D!RingInv(Ring)
  BY DEF D!Inv, Ring
<1>3. /\ buckets \in [D!Places -> [start : Int, reqs : SUBSET Requests]]
      /\ currentStart \in Int /\ D!Zero <= currentStart /\ currentStart <= now
  BY <1>2, Zenon DEF D!RingInv, Ring, D!Rings
<1>4. CASE currentStart = D!Zero
  <2>1. /\ recorded = {} /\ \A j \in D!Places : buckets[j].start = D!Zero /\ buckets[j].reqs = {}
    BY <1>2, <1>3, <1>4, Zenon DEF D!RingInv, Ring
  <2>2. rg = [buckets |-> [buckets EXCEPT ![0].start = t], currentStart |-> t]
    BY <1>4 DEF D!Rotated, rg
  <2>3. /\ rg \in D!Rings /\ rg.currentStart = t /\ rg.buckets[0].start = t
        /\ \A j \in D!Places : j # 0 => rg.buckets[j].start = D!Zero
        /\ \A j \in D!Places : rg.buckets[j].reqs = {}
    BY <1>1, <1>3, <2>1, <2>2 DEF D!Rings
  <2>4. \A j \in D!Places : \/ rg.buckets[j].start = D!Zero
                            \/ rg.buckets[j].start = rg.currentStart - j * BD
    BY <2>3, <1>1
  <2> QED BY <1>1, <2>1, <2>3, <2>4 DEF D!RingInv, D!Zero
<1>5. CASE currentStart # D!Zero /\ t - currentStart < BD
  <2>1. rg = Ring
    BY <1>1, <1>3, <1>5 DEF D!Rotated, Ring, rg
  <2> QED BY <1>1, <1>2, <1>3, <1>5, <2>1 DEF Ring
<1>6. CASE currentStart # D!Zero /\ t - currentStart >= BD /\ D!Steps(t) >= D!Count
  <2>1. rg = D!Restart(t)
    BY <1>1, <1>3, <1>6 DEF D!Rotated, rg
  <2>2. /\ rg \in D!Rings /\ rg.currentStart = t /\ rg.buckets[0].start = t
        /\ \A j \in D!Places : j # 0 => rg.buckets[j].start = D!Zero
        /\ \A j \in D!Places : rg.buckets[j].reqs = {}
    BY <1>1, <2>1 DEF D!Restart, D!EmptyBucket, D!Rings, D!Zero
  <2>3. /\ D!Steps(t) \in Nat /\ currentStart + D!Steps(t) * BD <= t
    BY <1>3, <1>6, StepsWhole, Zenon
  <2>4. D!Count * BD <= D!Steps(t) * BD
    BY <1>1, <1>6, <2>3
  <2>5. \A r \in recorded : time[r] < currentStart + BD
    <3> SUFFICES ASSUME NEW r \in recorded PROVE time[r] < currentStart + BD
      OBVIOUS
    <3>1. CASE \E j \in D!Places : r \in buckets[j].reqs
      <4>1. PICK j \in D!Places : r \in buckets[j].reqs
        BY <3>1, Zenon
      <4>2. /\ buckets[j].start = currentStart - j * BD /\ time[r] < buckets[j].start + BD
        BY <4>1, <1>2, Zenon DEF D!RingInv, Ring
      <4>3. j * BD >= 0 /\ j * BD \in Int
        BY <1>1 DEF D!Places
      <4> QED BY <4>2, <4>3, <1>1, <1>3
    <3>2. CASE time[r] < currentStart - (D!Count - 1) * BD
      <4>1. (D!Count - 1) * BD >= 0 /\ (D!Count - 1) * BD \in Int
        BY <1>1
      <4> QED BY <3>2, <4>1, <1>1, <1>3
    <3> QED BY <3>1, <3>2, <1>2, Zenon DEF D!RingInv, Ring
  <2>6. (D!Count - 1) * BD = D!Count * BD - BD /\ D!Count * BD \in Int /\ D!Steps(t) * BD \in Int
    BY <1>1, <2>3
  <2>7. \A r \in recorded : time[r] < rg.currentStart - (D!Count - 1) * BD
    BY <1>1, <1>3, <2>2, <2>3, <2>4, <2>5, <2>6
  <2>8. \A j \in D!Places : \/ rg.buckets[j].start = D!Zero
                            \/ rg.buckets[j].start = rg.currentStart - j * BD /\ j = 0
    BY <2>2, <1>1
  <2> QED BY <1>1, <2>2, <2>7, <2>8 DEF D!RingInv, D!Zero
<1>7. CASE currentStart # D!Zero /\ t - currentStart >= BD /\ ~(D!Steps(t) >= D!Count)
  <2> DEFINE n == D!Steps(t)
  <2>1. rg = D!Advance(n)
    BY <1>1, <1>3, <1>7 DEF D!Rotated, rg
  <2>2. /\ n \in Nat \ {0} /\ currentStart + n * BD <= t /\ t < currentStart + n * BD + BD
    BY <1>3, <1>7, StepsWhole, Zenon
  <2>3. n < D!Count
    BY <1>1, <1>7, <2>2
  <2>4. n * BD \in Int /\ n * BD > 0
    BY <1>1, <2>2
  <2> HIDE DEF n
  <2>5. /\ rg.currentStart = currentStart + n * BD
        /\ \A j \in D!Places : j < n => /\ rg.buckets[j].start = currentStart + (n - j) * BD
                                        /\ rg.buckets[j].reqs = {}
        /\ \A j \in D!Places : j >= n => j - n \in D!Places /\ rg.buckets[j] = buckets[j - n]
    BY <1>1, <2>1, <2>2, <2>3 DEF D!Advance, D!Places
  <2>6. /\ rg \in D!Rings
    <3>1. \A j \in D!Places : (n - j) * BD \in Int
      BY <1>1, <2>2 DEF D!Places
    <3>2. \A j \in D!Places : ~(j < n) => j - n \in D!Places
      BY <1>1, <2>2 DEF D!Places
    <3> QED BY <1>1, <1>3, <2>1, <2>2, <2>4, <3>1, <3>2 DEF D!Advance, D!Rings
  <2>7. \A j \in D!Places : (n - j) * BD = n * BD - j * BD /\ j * BD \in Int
    BY <1>1, <2>2 DEF D!Places
  <2>8. \A j \in D!Places : j < n => (n - j) * BD >= 0
    BY <1>1, <2>2 DEF D!Places
  <2>9. ASSUME NEW j \in D!Places
        PROVE  \/ rg.buckets[j].start = D!Zero
               \/ /\ rg.currentStart # D!Zero /\ rg.buckets[j].start >= 0
                  /\ rg.buckets[j].start = rg.currentStart - j * BD
    <3>1. CASE j < n
      BY <3>1, <1>3, <1>7, <2>4, <2>5, <2>7, <2>8 DEF D!Zero
    <3>2. CASE j >= n
      <4>1. \/ buckets[j - n].start = D!Zero
            \/ buckets[j - n].start >= 0 /\ buckets[j - n].start = currentStart - (j - n) * BD
        BY <3>2, <1>2, <2>5, Zenon DEF D!RingInv, Ring
      <4>2. (j - n) * BD = j * BD - n * BD
        BY <1>1, <2>2 DEF D!Places
      <4> QED BY <3>2, <4>1, <4>2, <1>3, <1>7, <2>4, <2>5, <2>7 DEF D!Zero
    <3> QED BY <3>1, <3>2, <2>2 DEF D!Places
  <2>10. ASSUME NEW j \in D!Places, NEW r \in rg.buckets[j].reqs
         PROVE  /\ r \in recorded /\ rg.buckets[j].start # D!Zero
                /\ rg.buckets[j].start <= time[r] + MaxSkew
                /\ time[r] < rg.buckets[j].start + BD
    <3>1. j >= n
      BY <2>2, <2>5, <2>10 DEF D!Places
    <3> QED BY <3>1, <2>5, <2>10, <1>2 DEF D!RingInv, Ring
  <2>11. ASSUME NEW r \in recorded
         PROVE  \/ \E j \in D!Places : r \in rg.buckets[j].reqs
                \/ time[r] < rg.currentStart - (D!Count - 1) * BD
    <3>1. CASE \E j \in D!Places : r \in buckets[j].reqs
      <4>1. PICK j \in D!Places : r \in buckets[j].reqs
        BY <3>1
      <4>2. CASE j + n < D!Count
        <5>1. j + n \in D!Places /\ j + n >= n /\ (j + n) - n = j
          BY <4>2, <1>1, <2>2 DEF D!Places
        <5> QED BY <4>1, <5>1, <2>5, Zenon
      <4>3. CASE ~(j + n < D!Count)
        <5>1. buckets[j].start = currentStart - j * BD /\ time[r] < buckets[j].start + BD
          BY <4>1, <1>2, Zenon DEF D!RingInv, Ring
        <5>2. (D!Count - 1) * BD = D!Count * BD - BD /\ D!Count * BD \in Int
          BY <1>1
        <5>3. D!Count * BD <= (j + n) * BD
          BY <4>3, <1>1, <2>2 DEF D!Places
        <5>4. (j + n) * BD = j * BD + n * BD
          BY <1>1, <2>2 DEF D!Places
        <5> QED BY <5>1, <5>2, <5>3, <5>4, <1>1, <1>3, <2>4, <2>5, <2>7
      <4> QED BY <4>2, <4>3, Zenon
    <3>2. CASE time[r] < currentStart - (D!Count - 1) * BD
      <4>1. (D!Count - 1) * BD \in Int
        BY <1>1
      <4> QED BY <3>2, <4>1, <1>1, <1>3, <2>4, <2>5
    <3> QED BY <3>1, <3>2, <1>2, Zenon DEF D!RingInv, Ring
  <2>12. rg.buckets[0].start = rg.currentStart
    BY <1>1, <2>2, <2>5
  <2>13. D!Zero <= rg.currentStart /\ rg.currentStart <= now /\ rg.currentStart # D!Zero
    BY <1>1, <1>3, <1>7, <2>2, <2>4, <2>5 DEF D!Zero
  <2> QED BY <1>1, <1>3, <2>2, <2>4, <2>5, <2>6, <2>9, <2>10, <2>11, <2>12, <2>13, Zenon DEF D!RingInv
<1> QED BY <1>1, <1>3, <1>4, <1>5, <1>6, <1>7

-----------------------------------------------------------------------------
(* What WindowTotals counts.                                               *)

\* A request it counts is not much older than the window.
LEMMA CountedIsFresh ==
  ASSUME D!AutoDrainAssumption, time \in [Requests -> Int], recorded \subseteq Requests,
         NEW rg, D!RingInv(rg), NEW t \in Int, NEW r \in D!InWindow(rg, t)
  PROVE  r \in recorded /\ time[r] >= t - Window - MaxSkew
<1>1. PICK j \in D!Places : rg.buckets[j].start >= t - Window /\ r \in rg.buckets[j].reqs
  BY DEF D!InWindow
<1>2. rg.buckets[j].start \in Int /\ r \in recorded /\ rg.buckets[j].start <= time[r] + MaxSkew
  BY <1>1, Zenon DEF D!RingInv, D!Rings
<1> QED BY <1>1, <1>2 DEF D!AutoDrainAssumption

\* A recorded request young enough is counted.
LEMMA YoungIsCounted ==
  ASSUME D!AutoDrainAssumption, now \in Nat, time \in [Requests -> Int], recorded \subseteq Requests,
         NEW rg, D!RingInv(rg), NEW r \in recorded, time[r] >= now - Window + BucketDuration
  PROVE  r \in D!InWindow(rg, now)
<1>1. /\ rg.currentStart \in Int /\ rg.currentStart <= now /\ time[r] \in Int
      /\ Window \in Int /\ BucketDuration \in Int
      /\ \A j \in D!Places : rg.buckets[j].start \in Int
  BY DEF D!RingInv, D!Rings, D!AutoDrainAssumption
<1>2. (D!Count - 1) * BucketDuration >= Window - BucketDuration
      /\ (D!Count - 1) * BucketDuration \in Int
  <2>1. (D!Count - 1) * BucketDuration = D!Count * BucketDuration - BucketDuration
    BY CountCovers, <1>1
  <2> QED BY <2>1, CountCovers, <1>1
<1>3. PICK j \in D!Places : r \in rg.buckets[j].reqs
  BY <1>1, <1>2 DEF D!RingInv
<1>4. rg.buckets[j].start # D!Zero /\ time[r] < rg.buckets[j].start + BucketDuration
  BY <1>3, Zenon DEF D!RingInv
<1>5. rg.buckets[j].start >= now - Window
  BY <1>1, <1>4
<1> QED BY <1>3, <1>4, <1>5, Zenon DEF D!InWindow

-----------------------------------------------------------------------------
(* The invariant is inductive.                                             *)

LEMMA RingInit == ASSUME D!AutoDrainAssumption, D!Init PROVE D!Inv
<1>1. Ring = [buckets |-> [j \in D!Places |-> D!EmptyBucket], currentStart |-> D!Zero]
  BY Zenon DEF D!Init, Ring
<1>2. D!RingInv(Ring)
  BY <1>1 DEF D!RingInv, D!Rings, D!EmptyBucket, D!Zero, D!Init
<1> QED BY <1>2 DEF D!Inv, D!Init, Ring, D!Pending, D!DrainHasCause, D!Zero, D!AutoDrainAssumption

LEMMA RingNext == ASSUME D!AutoDrainAssumption, D!Inv, [D!Next]_D!vars PROVE D!Inv'
<1> USE DEF D!Zero
<1>1. /\ now \in Nat /\ time \in [Requests -> Int] /\ recorded \subseteq Requests
      /\ evalAt \in Int /\ drainedUntil \in Nat /\ D!RingInv(Ring)
      /\ Window \in Nat /\ BucketDuration \in Nat \ {0} /\ Cooloff \in Nat /\ MaxSkew \in Nat
  BY DEF D!Inv, D!AutoDrainAssumption, Ring
<1>2. ASSUME D!ring' = D!ring, recorded' = recorded, variant' = variant, failed' = failed,
             drainedUntil' = drainedUntil, now' \in Nat, now' >= now,
             \A q \in recorded : time'[q] = time[q]
      PROVE  D!RingInv(Ring)' /\ D!DrainHasCause'
  <2>1. Ring' = Ring /\ buckets' = buckets /\ currentStart' = currentStart
    BY <1>2, Zenon DEF Ring, D!ring
  <2>2. D!RingInv(Ring)'
    <3>1. Ring \in D!Rings /\ Ring.currentStart \in Int /\ Ring.currentStart <= now'
      BY <1>1, <1>2 DEF D!RingInv, D!Rings
    <3> QED BY <1>1, <1>2, <2>1, <3>1, Zenon DEF D!RingInv, D!Rings
  <2>3. D!DrainHasCause'
    BY <1>2, Zenon DEF D!Inv, D!DrainHasCause, D!Errs
  <2> QED BY <2>2, <2>3
<1>3. ASSUME NEW r \in Requests, D!ReadClock(r) PROVE D!Inv'
  <2>1. r \notin recorded /\ \A q \in recorded : time'[q] = time[q]
    BY <1>1, <1>3, Zenon DEF D!ReadClock, D!Inv
  <2>2. D!RingInv(Ring)' /\ D!DrainHasCause'
    BY <1>1, <1>2, <1>3, <2>1 DEF D!ReadClock
  <2> QED BY <1>1, <1>3, <2>1, <2>2 DEF D!ReadClock, D!Inv, Ring, D!Pending
<1>4. ASSUME NEW r \in Requests, D!Record(r) PROVE D!Inv'
  <2> DEFINE rg == D!Rotated(time[r])
  <2>1. /\ time[r] \in Int /\ 0 <= time[r] /\ time[r] <= now /\ now <= time[r] + MaxSkew
        /\ r \notin recorded /\ recorded' = recorded \cup {r}
        /\ time' = time /\ now' = now
    BY <1>1, <1>4 DEF D!Record, D!Inv, D!Pending
  <2>2. /\ D!RingInv(rg) /\ rg.currentStart # D!Zero
        /\ time[r] < rg.currentStart + BucketDuration
    BY <2>1, RotatedInv
  <2>3. /\ Ring'.buckets = [rg.buckets EXCEPT ![0].reqs = @ \cup {r}]
        /\ Ring'.currentStart = rg.currentStart
        /\ Ring' = [buckets |-> Ring'.buckets, currentStart |-> rg.currentStart]
    BY <1>4 DEF D!Record, Ring
  <2> HIDE DEF rg
  <2>4. /\ 0 \in D!Places
        /\ rg.buckets \in [D!Places -> [start : Int, reqs : SUBSET Requests]]
        /\ rg.currentStart \in Int /\ rg.currentStart <= now
    BY <2>2, CountCovers DEF D!RingInv, D!Rings, D!Places
  <2>5. /\ \A j \in D!Places : Ring'.buckets[j].start = rg.buckets[j].start
        /\ \A j \in D!Places : j # 0 => Ring'.buckets[j].reqs = rg.buckets[j].reqs
        /\ Ring'.buckets[0].reqs = rg.buckets[0].reqs \cup {r}
        /\ Ring' \in D!Rings
    BY <2>3, <2>4 DEF D!Rings
  <2>6. ASSUME NEW j \in D!Places, NEW q \in Ring'.buckets[j].reqs
        PROVE  /\ q \in recorded' /\ Ring'.buckets[j].start # D!Zero
               /\ Ring'.buckets[j].start <= time[q] + MaxSkew
               /\ time[q] < Ring'.buckets[j].start + BucketDuration
    <3>1. CASE q \in rg.buckets[j].reqs
      BY <3>1, <2>1, <2>2, <2>5, Zenon DEF D!RingInv
    <3>2. CASE j = 0 /\ q = r
      <4>1. Ring'.buckets[0].start = rg.currentStart
        BY <2>2, <2>4, <2>5, Zenon DEF D!RingInv
      <4> QED BY <3>2, <4>1, <1>1, <2>1, <2>2, <2>4
    <3> QED BY <2>5, <2>6, <3>1, <3>2, Zenon
  <2>7. ASSUME NEW q \in recorded'
        PROVE  \/ \E j \in D!Places : q \in Ring'.buckets[j].reqs
               \/ time[q] < Ring'.currentStart - (D!Count - 1) * BucketDuration
    <3>1. CASE q = r
      BY <3>1, <2>4, <2>5, Zenon
    <3>2. CASE q \in recorded
      BY <3>2, <2>2, <2>3, <2>5, Zenon DEF D!RingInv
    <3> QED BY <3>1, <3>2, <2>1, Zenon
  <2>8. D!RingInv(Ring)'
    BY <2>1, <2>2, <2>3, <2>4, <2>5, <2>6, <2>7, Zenon DEF D!RingInv
  <2>9. D!DrainHasCause'
    BY <1>4, <2>1, Zenon DEF D!Inv, D!DrainHasCause, D!Errs, D!Record
  <2> QED BY <1>1, <1>4, <2>1, <2>8, <2>9, Zenon DEF D!Record, D!Inv, Ring, D!Pending
<1>5. CASE D!EvaluateStart
  <2>1. D!RingInv(Ring)' /\ D!DrainHasCause'
    BY <1>1, <1>2, <1>5 DEF D!EvaluateStart
  <2> QED BY <1>1, <1>5, <2>1 DEF D!EvaluateStart, D!Inv, Ring, D!Pending
<1>6. CASE D!Evaluate
  <2> DEFINE rg == D!Rotated(evalAt)
  <2>1. 0 <= evalAt /\ evalAt <= now
    BY <1>1, <1>6 DEF D!Evaluate, D!Inv
  <2>2. D!RingInv(rg) /\ rg = [buckets |-> rg.buckets, currentStart |-> rg.currentStart]
    <3>1. D!RingInv(rg)
      BY <1>1, <2>1, RotatedInv, Zenon
    <3> QED BY <3>1, Zenon DEF D!RingInv, D!Rings
  <2>3. Ring' = rg
    BY <1>6, <2>2, Zenon DEF D!Evaluate, Ring
  <2>4. /\ now' = now /\ time' = time /\ recorded' = recorded
        /\ variant' = variant /\ failed' = failed /\ evalAt' = D!Zero
    BY <1>6, Zenon DEF D!Evaluate
  <2>5. drainedUntil' = drainedUntil \/ /\ drainedUntil' = evalAt + Cooloff
                                        /\ D!CanaryBad(D!InWindow(rg, evalAt))
    BY <1>6, Zenon DEF D!Evaluate
  <2> HIDE DEF rg
  <2>6. D!RingInv(Ring)'
    BY <2>2, <2>3, <2>4, Zenon DEF D!RingInv
  <2>7. D!DrainHasCause'
    <3>1. CASE drainedUntil' = drainedUntil
      BY <3>1, <2>4, Zenon DEF D!Inv, D!DrainHasCause, D!Errs
    <3>2. CASE drainedUntil' = evalAt + Cooloff /\ D!CanaryBad(D!InWindow(rg, evalAt))
      <4>1. PICK q \in D!InWindow(rg, evalAt) : variant[q] = "canary" /\ failed[q]
        BY <3>2, Zenon DEF D!CanaryBad, D!Errs
      <4>2. q \in recorded /\ time[q] >= evalAt - Window - MaxSkew
        BY <1>1, <2>2, <4>1, CountedIsFresh, Zenon
      <4>3. time[q] >= drainedUntil' - Cooloff - Window - MaxSkew
        BY <1>1, <3>2, <4>2
      <4> QED BY <4>1, <4>2, <4>3, <2>4, Zenon DEF D!DrainHasCause, D!Errs
    <3> QED BY <2>5, <3>1, <3>2
  <2>8. drainedUntil' \in Nat
    BY <1>1, <2>1, <2>5
  <2> QED BY <1>1, <2>4, <2>6, <2>7, <2>8 DEF D!Inv, Ring, D!Pending
<1>7. CASE D!Tick
  <2>1. D!RingInv(Ring)' /\ D!DrainHasCause'
    BY <1>1, <1>2, <1>7 DEF D!Tick
  <2> QED BY <1>1, <1>7, <2>1 DEF D!Tick, D!Inv, Ring, D!Pending
<1>8. CASE UNCHANGED D!vars
  <2>1. D!RingInv(Ring)' /\ D!DrainHasCause'
    BY <1>1, <1>2, <1>8 DEF D!vars
  <2> QED BY <1>1, <1>8, <2>1, Zenon DEF D!vars, D!Inv, Ring, D!Pending
<1> QED BY <1>3, <1>4, <1>5, <1>6, <1>7, <1>8 DEF D!Next

-----------------------------------------------------------------------------
\* rotateLocked, drainUntil: the invariant holds throughout.
THEOREM Invariant == ASSUME D!AutoDrainAssumption PROVE D!Spec => []D!Inv
<1>1. D!Init => D!Inv
  BY RingInit
<1>2. D!Inv /\ [D!Next]_D!vars => D!Inv'
  BY RingNext
<1> QED BY <1>1, <1>2, PTL DEF D!Spec

\* WindowTotals: the totals never hold a request older than the window and the
\* wait for the mutex allow, for any window and bucket.
THEOREM NeverStale == ASSUME D!AutoDrainAssumption PROVE D!Spec => []D!NothingStale
<1>1. D!Inv => D!NothingStale
  <2> SUFFICES ASSUME D!Inv, NEW r \in D!CountedNow PROVE time[r] >= now - Window - MaxSkew
    BY DEF D!NothingStale
  <2>1. now \in Nat /\ time \in [Requests -> Int] /\ recorded \subseteq Requests
    BY Zenon DEF D!Inv
  <2>2. D!RingInv(D!Rotated(now))
    BY <2>1, RotatedInv
  <2> QED BY <2>1, <2>2, CountedIsFresh DEF D!CountedNow
<1> QED BY <1>1, Invariant, PTL

\* WindowTotals: the totals never miss a request younger than the window less one
\* bucket, for any window and bucket, whatever rotations lie in between.
THEOREM NeverLost == ASSUME D!AutoDrainAssumption PROVE D!Spec => []D!NothingLost
<1>1. D!Inv => D!NothingLost
  <2> SUFFICES ASSUME D!Inv, NEW r \in recorded, time[r] >= now - Window + BucketDuration
               PROVE  r \in D!CountedNow
    BY Zenon DEF D!NothingLost
  <2>1. now \in Nat /\ time \in [Requests -> Int] /\ recorded \subseteq Requests
    BY Zenon DEF D!Inv
  <2>2. D!RingInv(D!Rotated(now))
    BY <2>1, RotatedInv
  <2> QED BY <2>1, <2>2, YoungIsCounted, Zenon DEF D!CountedNow
<1> QED BY <1>1, Invariant, PTL

\* evaluate: a drained canary has failed within the window and the cool-off.
THEOREM DrainsHaveCause == ASSUME D!AutoDrainAssumption PROVE D!Spec => []D!DrainHasCause
<1>1. D!Inv => D!DrainHasCause
  BY Zenon DEF D!Inv
<1> QED BY <1>1, Invariant, PTL

-----------------------------------------------------------------------------
(* Outlier: ejections end, loops have an entry, what is used is kept.       *)
CONSTANTS
  Loops, States, Intervals, ErrorRateWindow, ErrorRateThresholdPercent,
  ConsecutiveFailures, LatencyConsecutiveIntervals, BaseEject, MaxEject,
  ForgetAfter, MaxCount
VARIABLES
  listed, config, endpoint, lastSeen, loop, loopInterval, alive, stopped,
  created, ejectUntil, ejectCount, lastEjectAt, consecutiveFails,
  windowStart, windowReq, windowFail, badIntervals, ref, at, saw, success,
  cutoff

O == INSTANCE Outlier

EjectionInv ==
  /\ now \in Int /\ at \in [O!Procs -> Int] /\ ejectUntil \in [States -> Int]
  /\ \A p \in O!Procs : at[p] <= now
  /\ O!EjectionBounded

\* Ejections end: for any durations, any number of requests and latency loops.
THEOREM EjectionsBounded == ASSUME O!OutlierAssumption PROVE O!Spec => []O!EjectionBounded
<1>1. MaxEject \in Nat
  BY Zenon DEF O!OutlierAssumption
<1>2. O!Init => EjectionInv
  BY <1>1 DEF O!Init, EjectionInv, O!EjectionBounded
<1>3. ASSUME EjectionInv, [O!Next]_O!vars PROVE EjectionInv'
  <2>1. ASSUME NEW p \in O!Procs, O!ReadClock(p) PROVE EjectionInv'
    BY <1>3, <2>1 DEF EjectionInv, O!EjectionBounded, O!ReadClock, O!ejection
  <2>2. ASSUME NEW p \in O!Procs, O!StoreEjectUntil(p) PROVE EjectionInv'
    <3> DEFINE d == O!EjectDuration(saw[p])
    <3>1. d \in Int /\ d <= MaxEject
      BY <1>1 DEF O!EjectDuration
    <3> HIDE DEF d
    <3>2. /\ ejectUntil' = [ejectUntil EXCEPT ![ref[p]] = at[p] + d]
          /\ now' = now /\ at' = at
      BY <2>2, Zenon DEF O!StoreEjectUntil, O!locals, d
    <3>3. at[p] + d \in Int /\ at[p] + d <= now + MaxEject
      BY <1>1, <1>3, <3>1 DEF EjectionInv
    <3> QED BY <1>3, <3>2, <3>3, Zenon DEF EjectionInv, O!EjectionBounded
  <2>3. CASE O!Tick
    BY <1>1, <1>3, <2>3 DEF EjectionInv, O!EjectionBounded, O!Tick, O!locals, O!ejection
  <2>4. CASE UNCHANGED <<now, at, ejectUntil>>
    BY <1>3, <2>4, Zenon DEF EjectionInv, O!EjectionBounded
  <2>5. ASSUME NEW cfg \in O!Configs, O!Reconcile(cfg) PROVE UNCHANGED <<now, at, ejectUntil>>
    BY <2>5, Zenon DEF O!Reconcile, O!ejection, O!locals
  <2>6. O!ReapStart \/ O!Reap \/ O!Close \/ UNCHANGED O!vars => UNCHANGED <<now, at, ejectUntil>>
    BY Zenon DEF O!ReapStart, O!Reap, O!Close, O!ejection, O!locals, O!vars
  <2>7. ASSUME NEW p \in Requests, NEW ok \in BOOLEAN, O!RecordResult(p, ok)
        PROVE  UNCHANGED <<now, at, ejectUntil>>
    BY <2>7, Zenon DEF O!RecordResult, O!ejection
  <2>8. ASSUME NEW p, O!Record(p) PROVE UNCHANGED <<now, at, ejectUntil>>
    BY <2>8, Zenon DEF O!Record, O!LoadWindow, O!SwapWindow, O!ZeroReq, O!ZeroFail, O!CountReq,
                O!CountFail,
                O!CountConsecutive, O!CompareConsecutive, O!ClearConsecutive, O!LoadReq,
                O!LoadFail,
                O!ejection, O!locals
  <2>9. ASSUME NEW l, O!EvaluateLatency(l) \/ O!LoopExit(l) \/ O!Observe(l)
        PROVE  UNCHANGED <<now, at, ejectUntil>>
    BY <2>9, Zenon DEF O!EvaluateLatency, O!LoopExit, O!Observe, O!ObserveBad, O!ObserveReset,
                O!ejection, O!locals
  <2>10. ASSUME NEW p, O!EjectLoad(p) \/ O!EjectForget(p) \/ O!EjectCount(p) \/ O!StoreLastEject(p)
         PROVE  UNCHANGED <<now, at, ejectUntil>>
    BY <2>10, Zenon DEF O!EjectLoad, O!EjectForget, O!EjectCount, O!StoreLastEject, O!ejection, O!locals
  <2> QED BY <1>3, <2>1, <2>2, <2>3, <2>4, <2>5, <2>6, <2>7, <2>8, <2>9, <2>10, Zenon DEF O!Next, O!Eject
<1>4. EjectionInv => O!EjectionBounded
  BY Zenon DEF EjectionInv
<1> QED BY <1>2, <1>3, <1>4, PTL DEF O!Spec

\* The registry's steps, and that no other step touches the loops or the entry's life.
LEMMA RegistrySteps ==
  ASSUME [O!Next]_O!vars
  PROVE  \/ \E cfg \in O!Configs : O!Reconcile(cfg)
         \/ O!Reap \/ O!Close
         \/ \E l \in Loops : O!LoopExit(l)
         \/ UNCHANGED <<listed, config, O!loops>>
<1>1. CASE O!ReapStart \/ O!Tick \/ UNCHANGED O!vars
  BY <1>1, Zenon DEF O!ReapStart, O!Tick, O!entry, O!vars
<1>2. ASSUME NEW p, NEW ok, O!RecordResult(p, ok) PROVE UNCHANGED <<listed, config, O!loops>>
  BY <1>2, Zenon DEF O!RecordResult
<1>3. ASSUME NEW p, O!Record(p) PROVE UNCHANGED <<listed, config, O!loops>>
  BY <1>3, Zenon DEF O!Record, O!LoadWindow, O!SwapWindow, O!ZeroReq, O!ZeroFail, O!CountReq,
              O!CountFail,
              O!CountConsecutive, O!CompareConsecutive, O!ClearConsecutive, O!LoadReq,
              O!LoadFail, O!entry
<1>4. ASSUME NEW l, O!EvaluateLatency(l) \/ O!Observe(l) PROVE UNCHANGED <<listed, config, O!loops>>
  BY <1>4, Zenon DEF O!EvaluateLatency, O!Observe, O!ObserveBad, O!ObserveReset, O!entry
<1>5. ASSUME NEW p, O!ReadClock(p) \/ O!Eject(p) PROVE UNCHANGED <<listed, config, O!loops>>
  BY <1>5, Zenon DEF O!ReadClock, O!Eject, O!EjectLoad, O!EjectForget, O!EjectCount, O!StoreLastEject,
              O!StoreEjectUntil, O!entry
<1> QED BY <1>1, <1>2, <1>3, <1>4, <1>5, Zenon DEF O!Next

\* Latency loops: for any number of configurations, reaps and loops.
THEOREM LoopsAreOwned == ASSUME O!OutlierAssumption PROVE O!Spec => []O!LoopsOwned
<1> DEFINE LoopInv == O!LoopsOwned /\ (loop = None => loopInterval = None)
<1>1. None \notin Loops /\ None \notin Intervals
  BY Zenon DEF O!OutlierAssumption
<1>2. O!Init => LoopInv
  BY Zenon DEF O!Init, O!LoopsOwned
<1>3. ASSUME LoopInv, [O!Next]_O!vars PROVE LoopInv'
  <2>1. ASSUME NEW cfg \in O!Configs, O!Reconcile(cfg) PROVE LoopInv'
    <3>1. listed' = TRUE /\ config' = cfg /\ cfg.interval \in Intervals
      BY <2>1, Zenon DEF O!Reconcile, O!Configs
    <3>2. CASE cfg.enabled /\ cfg.latency /\ O!RestartLoop(cfg.interval)
      BY <1>1, <1>3, <3>1, <3>2, Zenon DEF O!RestartLoop, O!LoopsOwned
    <3>3. CASE cfg.enabled /\ cfg.latency /\ loopInterval = cfg.interval /\ UNCHANGED O!loops
      BY <1>1, <1>3, <3>1, <3>3, Zenon DEF O!LoopsOwned, O!loops
    <3>4. CASE O!StopLoop
      BY <1>3, <3>4, Zenon DEF O!StopLoop, O!LoopsOwned
    <3> QED BY <2>1, <3>2, <3>3, <3>4, Zenon DEF O!Reconcile
  <2>2. CASE O!Reap
    <3>1. CASE O!StopLoop
      BY <1>3, <3>1, Zenon DEF O!StopLoop, O!LoopsOwned
    <3>2. CASE UNCHANGED <<listed, O!loops>>
      BY <1>3, <2>2, <3>2, Zenon DEF O!Reap, O!LoopsOwned, O!loops
    <3> QED BY <2>2, <3>1, <3>2, Zenon DEF O!Reap
  <2>3. CASE O!Close
    BY <1>3, <2>3, Zenon DEF O!Close, O!StopLoop, O!LoopsOwned
  <2>4. ASSUME NEW l \in Loops, O!LoopExit(l) PROVE LoopInv'
    BY <1>3, <2>4, Zenon DEF O!LoopExit, O!LoopsOwned, O!entry
  <2>5. CASE UNCHANGED <<listed, config, O!loops>>
    BY <1>3, <2>5, Zenon DEF O!LoopsOwned, O!loops
  <2> QED BY <1>3, <2>1, <2>2, <2>3, <2>4, <2>5, RegistrySteps, Zenon
<1>4. LoopInv => O!LoopsOwned
  OBVIOUS
<1> QED BY <1>2, <1>3, <1>4, PTL DEF O!Spec

ReapInv ==
  /\ now \in Int /\ lastSeen \in Int
  /\ cutoff # None => cutoff \in Int /\ cutoff <= now - TTL

\* Reaping: for any TTL, and any interleaving of lookups with the reaper.
THEOREM UsedAreKept == ASSUME O!OutlierAssumption PROVE O!Spec => O!UsedIsKept
<1>1. TTL \in Int
  BY DEF O!OutlierAssumption
<1>2. O!Init => ReapInv
  BY DEF O!Init, ReapInv
<1>3. ASSUME ReapInv, [O!Next]_O!vars PROVE ReapInv'
  <2>1. ASSUME NEW cfg \in O!Configs, O!Reconcile(cfg) PROVE ReapInv'
    BY <1>3, <2>1, Zenon DEF ReapInv, O!Reconcile
  <2>2. CASE O!ReapStart
    BY <1>1, <1>3, <2>2 DEF ReapInv, O!ReapStart, O!entry
  <2>3. CASE O!Reap
    BY <1>3, <2>3, Zenon DEF ReapInv, O!Reap
  <2>4. CASE O!Tick
    BY <1>1, <1>3, <2>4 DEF ReapInv, O!Tick, O!entry
  <2>5. ASSUME NEW p, NEW ok, O!RecordResult(p, ok) PROVE ReapInv'
    BY <1>3, <2>5, Zenon DEF ReapInv, O!RecordResult
  <2>6. CASE UNCHANGED <<now, lastSeen, cutoff>>
    BY <1>3, <2>6, Zenon DEF ReapInv
  <2>7. O!Close \/ UNCHANGED O!vars => UNCHANGED <<now, lastSeen, cutoff>>
    BY Zenon DEF O!Close, O!entry, O!vars
  <2>8. ASSUME NEW p, O!Record(p) PROVE UNCHANGED <<now, lastSeen, cutoff>>
    BY <2>8, Zenon DEF O!Record, O!LoadWindow, O!SwapWindow, O!ZeroReq, O!ZeroFail, O!CountReq,
                O!CountFail,
                O!CountConsecutive, O!CompareConsecutive, O!ClearConsecutive, O!LoadReq,
                O!LoadFail, O!entry
  <2>9. ASSUME NEW l, O!EvaluateLatency(l) \/ O!LoopExit(l) \/ O!Observe(l)
        PROVE  UNCHANGED <<now, lastSeen, cutoff>>
    BY <2>9, Zenon DEF O!EvaluateLatency, O!LoopExit, O!Observe, O!ObserveBad, O!ObserveReset, O!entry
  <2>10. ASSUME NEW p, O!ReadClock(p) \/ O!Eject(p) PROVE UNCHANGED <<now, lastSeen, cutoff>>
    BY <2>10, Zenon DEF O!ReadClock, O!Eject, O!EjectLoad, O!EjectForget, O!EjectCount, O!StoreLastEject,
                 O!StoreEjectUntil, O!entry
  <2> QED BY <1>3, <2>1, <2>2, <2>3, <2>4, <2>5, <2>6, <2>7, <2>8, <2>9, <2>10, Zenon DEF O!Next
<1>4. ASSUME ReapInv, [O!Next]_O!vars PROVE [listed /\ ~listed' => now - lastSeen > TTL]_O!vars
  <2>1. CASE O!Reap
    BY <1>1, <1>4, <2>1 DEF ReapInv, O!Reap
  <2>2. ASSUME NEW cfg \in O!Configs, O!Reconcile(cfg) PROVE listed'
    BY <2>2, Zenon DEF O!Reconcile
  <2>3. O!Close \/ (\E l \in Loops : O!LoopExit(l)) => UNCHANGED listed
    BY Zenon DEF O!Close, O!LoopExit, O!entry
  <2> QED BY <1>4, <2>1, <2>2, <2>3, RegistrySteps, Zenon
<1> QED BY <1>2, <1>3, <1>4, PTL DEF O!Spec, O!UsedIsKept

-----------------------------------------------------------------------------
(* TrafficPlan: the entry of the registry, and the plan that a reload keeps.*)
CONSTANTS
  Appliers, Configs, Unbuildable, Off, Plans, MaxApplies
VARIABLES
  entry, running, drained, evidence, ended, live, apc, built, rpc, held,
  applies

P == INSTANCE TrafficPlan

Entries == [config : Configs, plan : Plans, old : BOOLEAN]

EntryInv == entry \in Entries \cup {None}

LEMMA EntryIsPlan == ASSUME P!TrafficPlanConstants, NEW e \in Entries PROVE e # None
BY Zenon DEF P!TrafficPlanConstants, Entries

\* What a build does to the entry: it keeps it, or lists a plan nobody refers to.
LEMMA KeepsEntry ==
  ASSUME P!TrafficPlanConstants, EntryInv, NEW a \in Appliers, P!KeepPlan(a)
  PROVE  /\ entry \in Entries /\ entry' \in Entries /\ entry' # None
         /\ entry'.plan = entry.plan /\ entry'.config = entry.config
         /\ entry.config = built[a].config
<1>1. entry \in Entries /\ entry' = [entry EXCEPT !.old = FALSE] /\ entry.config = built[a].config
  BY Zenon DEF P!KeepPlan, P!SameConfig, EntryInv
<1>2. entry' \in Entries /\ entry'.plan = entry.plan /\ entry'.config = entry.config
  BY <1>1, Zenon DEF Entries
<1> QED BY <1>1, <1>2, EntryIsPlan, Zenon

LEMMA NewEntry ==
  ASSUME P!TrafficPlanConstants, NEW a \in Appliers, NEW p \in Plans,
         built[a].config \in Configs,
         entry' = [config |-> built[a].config, plan |-> p, old |-> FALSE]
  PROVE  /\ entry' \in Entries /\ entry' # None
         /\ entry'.plan = p /\ entry'.config = built[a].config
<1>1. entry' \in Entries
  BY Zenon DEF Entries
<1> QED BY <1>1, EntryIsPlan, Zenon

\* The steps that touch neither the entry nor the controllers.
LEMMA OtherSteps ==
  ASSUME [P!Next]_P!vars
  PROVE  \/ \E a \in Appliers : P!KeepPlan(a) \/ P!NewPlan(a) \/ P!PlanFails(a)
         \/ P!Expire \/ P!ReapOnce
         \/ UNCHANGED <<entry, running>>
<1>1. ASSUME NEW a \in Appliers, P!StartApply(a) \/ P!SkipPlan(a) \/ P!PublishPlan(a) \/ P!RejectPlan(a)
      PROVE  UNCHANGED <<entry, running>>
  BY <1>1, Zenon DEF P!StartApply, P!SkipPlan, P!PublishPlan, P!RejectPlan, P!planVars
<1>2. ASSUME NEW r \in Requests, P!Serve(r) PROVE UNCHANGED <<entry, running>>
  BY <1>2, Zenon DEF P!Serve, P!Route, P!PickVariant, P!RecordOutcome, P!planVars
<1>3. ASSUME NEW p \in Plans, P!Evaluate(p) \/ P!AgeOut(p) \/ P!CoolOff(p)
      PROVE  UNCHANGED <<entry, running>>
  BY <1>3, Zenon DEF P!Evaluate, P!AgeOut, P!CoolOff
<1>4. UNCHANGED P!vars => UNCHANGED <<entry, running>>
  BY Zenon DEF P!vars, P!planVars
<1> QED BY <1>1, <1>2, <1>3, <1>4, Zenon DEF P!Next, P!Apply

LEMMA ControllersNext ==
  ASSUME P!TrafficPlanConstants, EntryInv, P!RunningIsListed, [P!Next]_P!vars
  PROVE  EntryInv' /\ P!RunningIsListed'
<1>1. ASSUME NEW a \in Appliers, P!KeepPlan(a) PROVE EntryInv' /\ P!RunningIsListed'
  <2>1. running' = running
    BY <1>1, Zenon DEF P!KeepPlan, P!planVars
  <2>2. P!Listed' = P!Listed
    BY <1>1, KeepsEntry, EntryIsPlan, Zenon DEF P!Listed
  <2> QED BY <1>1, <2>1, <2>2, KeepsEntry, Zenon DEF EntryInv, P!RunningIsListed
<1>2. ASSUME NEW a \in Appliers, P!NewPlan(a) PROVE EntryInv' /\ P!RunningIsListed'
  <2>1. PICK p \in Plans :
          /\ entry' = [config |-> built[a].config, plan |-> p, old |-> FALSE]
          /\ running' = (running \ {P!Listed}) \cup {p}
    BY <1>2, Zenon DEF P!NewPlan, P!Fresh, P!Stopped
  <2>2. built[a].config \in Configs
    BY <1>2, Zenon DEF P!NewPlan
  <2>3. entry' \in Entries /\ entry' # None /\ entry'.plan = p
    BY <2>1, <2>2, NewEntry, Zenon
  <2>4. P!Listed' = p
    BY <2>3, Zenon DEF P!Listed
  <2> QED BY <2>1, <2>3, <2>4, Zenon DEF EntryInv, P!RunningIsListed
<1>3. ASSUME NEW a \in Appliers, P!PlanFails(a) PROVE EntryInv' /\ P!RunningIsListed'
  BY <1>3, Zenon DEF P!PlanFails, P!Stopped, EntryInv, P!RunningIsListed, P!Listed
<1>4. CASE P!Expire
  <2>1. entry \in Entries /\ entry' = [entry EXCEPT !.old = TRUE] /\ running' = running
    BY <1>4, Zenon DEF P!Expire, EntryInv, P!planVars
  <2>2. entry' \in Entries /\ entry'.plan = entry.plan
    BY <2>1, Zenon DEF Entries
  <2>3. P!Listed' = P!Listed
    BY <2>1, <2>2, EntryIsPlan, Zenon DEF P!Listed
  <2> QED BY <2>1, <2>2, <2>3, Zenon DEF EntryInv, P!RunningIsListed
<1>5. CASE P!ReapOnce
  BY <1>5, Zenon DEF P!ReapOnce, P!Stopped, EntryInv, P!RunningIsListed, P!Listed
<1>6. CASE UNCHANGED <<entry, running>>
  BY <1>6, Zenon DEF EntryInv, P!RunningIsListed, P!Listed
<1> QED BY <1>1, <1>2, <1>3, <1>4, <1>5, <1>6, OtherSteps, Zenon

\* RunningIsListed, for any appliers, requests, plans and configurations: Plan and
\* reapOnce stop the controller of every plan that leaves the registry.
THEOREM ControllersListed == ASSUME P!TrafficPlanConstants PROVE P!Spec => []P!RunningIsListed
<1>1. P!Init => EntryInv /\ P!RunningIsListed
  BY Zenon DEF P!Init, EntryInv, P!RunningIsListed
<1>2. EntryInv /\ P!RunningIsListed /\ [P!Next]_P!vars => EntryInv' /\ P!RunningIsListed'
  BY ControllersNext, Zenon
<1> QED BY <1>1, <1>2, PTL DEF P!Spec

-----------------------------------------------------------------------------
Choices == [config : Configs \cup {Off}, plan : Plans \cup {None}]

\* The registry lists the plan of a snapshot's choice c.
Holds(c) == entry # None /\ entry.plan = c.plan /\ entry.config = c.config

\* When one snapshot is built at a time: a plan that did not end is the listed
\* one; the one a build was given is, until the build is over, listed or ended
\* with nothing in its place.
PlanInv ==
  /\ EntryInv
  /\ live \in Choices /\ built \in [Appliers -> Choices] /\ DOMAIN apc = Appliers
  /\ entry # None => entry.plan \notin ended
  /\ IF live.config = Off THEN live.plan = None ELSE live.plan \in ended \/ Holds(live)
  /\ \A a \in Appliers :
       IF apc[a] # "publish" \/ built[a].config = Off
       THEN built[a].plan = None
       ELSE IF built[a].plan \in ended THEN entry = None ELSE Holds(built[a])

OneApplier == \E a : Appliers = {a}

\* What PublishPlan promises is what this invariant gives.
LEMMA PublishKeeps ==
  ASSUME PlanInv, NEW a \in Appliers, P!PublishPlan(a),
         live'.config = live.config, live.plan \notin ended
  PROVE  live'.plan = live.plan
<1>1. apc[a] = "publish" /\ live' = built[a]
  BY Zenon DEF P!PublishPlan
<1>2. CASE live.config = Off
  BY <1>1, <1>2, Zenon DEF PlanInv
<1>3. CASE live.config # Off
  <2>1. Holds(live)
    BY <1>3, Zenon DEF PlanInv
  <2>2. built[a].plan \notin ended /\ Holds(built[a])
    BY <1>1, <1>3, <2>1, Zenon DEF PlanInv, Holds
  <2> QED BY <1>1, <2>1, <2>2, Zenon DEF Holds
<1> QED BY <1>2, <1>3, Zenon

LEMMA PlanInit == P!Init => PlanInv
<1> SUFFICES ASSUME P!Init PROVE PlanInv
  BY Zenon
<1>1. /\ entry = None /\ ended = {} /\ live = P!Disabled /\ DOMAIN apc = Appliers
      /\ \A a \in Appliers : apc[a] = "idle" /\ built[a] = P!Disabled
  BY Zenon DEF P!Init
<1>2. P!Disabled \in Choices /\ P!Disabled.config = Off /\ P!Disabled.plan = None
  BY DEF P!Disabled, Choices
<1>3. built \in [Appliers -> Choices]
  BY <1>2, Zenon DEF P!Init
<1>4. EntryInv
  BY <1>1, Zenon DEF EntryInv
<1> QED BY <1>1, <1>2, <1>3, <1>4 DEF PlanInv

LEMMA PlanStart ==
  ASSUME PlanInv, NEW a \in Appliers, P!StartApply(a) PROVE PlanInv'
<1>1. PICK c \in Configs \cup {Off} : built' = [built EXCEPT ![a] = [config |-> c, plan |-> None]]
  BY Zenon DEF P!StartApply
<1>2. /\ UNCHANGED <<entry, ended, live>> /\ apc[a] = "idle"
      /\ apc' = [apc EXCEPT ![a] = "plan"]
  BY Zenon DEF P!StartApply, P!planVars
<1>3. built' \in [Appliers -> Choices]
  BY <1>1, Zenon DEF PlanInv, Choices
<1> QED BY <1>1, <1>2, <1>3, Zenon DEF PlanInv, EntryInv, Holds

LEMMA PlanSkip ==
  ASSUME PlanInv, NEW a \in Appliers, P!SkipPlan(a) PROVE PlanInv'
BY Zenon DEF P!SkipPlan, P!planVars, PlanInv, EntryInv, Holds

LEMMA PlanEnds ==
  ASSUME PlanInv, NEW a \in Appliers, P!PublishPlan(a) \/ P!RejectPlan(a) \/ P!PlanFails(a) PROVE PlanInv'
<1>1. /\ UNCHANGED <<entry, ended>> /\ apc' = [apc EXCEPT ![a] = "idle"]
      /\ built' = [built EXCEPT ![a] = P!Disabled]
  BY Zenon DEF P!PublishPlan, P!RejectPlan, P!PlanFails, P!planVars
<1>2. built' \in [Appliers -> Choices]
  BY <1>1, Zenon DEF PlanInv, Choices, P!Disabled
<1>3. \/ live' = live
      \/ live' = built[a] /\ apc[a] = "publish"
  BY Zenon DEF P!PublishPlan, P!RejectPlan, P!PlanFails
<1>4. live' \in Choices
  BY <1>3, Zenon DEF PlanInv
<1>5. IF live'.config = Off THEN live'.plan = None ELSE live'.plan \in ended \/ Holds(live')
  BY <1>3, Zenon DEF PlanInv, Holds
<1> QED BY <1>1, <1>2, <1>4, <1>5, Zenon DEF PlanInv, EntryInv, Holds, P!Disabled

LEMMA PlanKeep ==
  ASSUME P!TrafficPlanConstants, OneApplier, PlanInv, NEW a \in Appliers, P!KeepPlan(a) PROVE PlanInv'
<1>1. /\ entry \in Entries /\ entry' \in Entries /\ entry' # None
      /\ entry'.plan = entry.plan /\ entry'.config = entry.config
      /\ entry.config = built[a].config
  BY KeepsEntry, Zenon DEF PlanInv
<1>2. /\ UNCHANGED <<ended, live>> /\ apc' = [apc EXCEPT ![a] = "publish"]
      /\ built' = [built EXCEPT ![a].plan = entry.plan] /\ built[a].config # Off
  BY Zenon DEF P!KeepPlan, P!planVars
<1>3. Appliers = {a}
  BY Zenon DEF OneApplier
<1>4. entry # None
  BY <1>1, EntryIsPlan, Zenon
<1>5. built' \in [Appliers -> Choices]
  BY <1>1, <1>2, Zenon DEF PlanInv, Choices, Entries
<1>6. built'[a].plan = entry.plan /\ built'[a].config = built[a].config
  BY <1>2, <1>3, Zenon DEF PlanInv, Choices
<1> QED BY <1>1, <1>2, <1>3, <1>4, <1>5, <1>6 DEF PlanInv, EntryInv, Holds

LEMMA PlanNew ==
  ASSUME P!TrafficPlanConstants, OneApplier, PlanInv, NEW a \in Appliers, P!NewPlan(a) PROVE PlanInv'
<1>1. PICK p \in P!Fresh :
        /\ entry' = [config |-> built[a].config, plan |-> p, old |-> FALSE]
        /\ built' = [built EXCEPT ![a].plan = p]
        /\ ended' = (ended \ {p}) \cup {q \in {P!Listed} \ {None} : entry.config # built[a].config}
  BY Zenon DEF P!NewPlan
<1>2. /\ live' = live /\ apc' = [apc EXCEPT ![a] = "publish"]
      /\ built[a].config \in Configs /\ built[a].config # Off
      /\ ~(entry # None /\ entry.config = built[a].config)
  BY Zenon DEF P!NewPlan, P!SameConfig, P!TrafficPlanConstants
<1>3. p \in Plans /\ p # P!Listed /\ p # live.plan
  BY Zenon DEF P!Fresh
<1>4. /\ entry' \in Entries /\ entry' # None
      /\ entry'.plan = p /\ entry'.config = built[a].config
  BY <1>1, <1>2, <1>3, NewEntry, Zenon
<1>5. p \notin ended'
  BY <1>1, <1>3, Zenon
<1>6. Appliers = {a}
  BY Zenon DEF OneApplier
<1>7. built' \in [Appliers -> Choices] /\ built'[a].plan = p /\ built'[a].config = built[a].config
  BY <1>1, <1>3, <1>6 DEF PlanInv, Choices
<1>8. ASSUME live.config # Off PROVE live.plan \in ended'
  <2>1. CASE live.plan \in ended
    BY <1>1, <1>3, <2>1, Zenon
  <2>2. CASE Holds(live)
    <3>1. entry \in Entries /\ P!Listed = live.plan /\ live.plan # None
      BY <2>2, Zenon DEF PlanInv, EntryInv, Holds, P!Listed, Entries, P!TrafficPlanConstants
    <3> QED BY <1>1, <1>2, <2>2, <3>1, Zenon DEF Holds
  <2> QED BY <1>8, <2>1, <2>2, Zenon DEF PlanInv
<1> QED BY <1>2, <1>4, <1>5, <1>6, <1>7, <1>8, Zenon DEF PlanInv, EntryInv, Holds

LEMMA PlanReap ==
  ASSUME P!TrafficPlanConstants, PlanInv, P!Expire \/ P!ReapOnce PROVE PlanInv'
<1>1. CASE P!Expire
  <2>1. /\ entry \in Entries /\ entry' = [entry EXCEPT !.old = TRUE]
        /\ UNCHANGED <<ended, live, built, apc>>
    BY <1>1, Zenon DEF P!Expire, PlanInv, EntryInv, P!planVars, P!applierVars
  <2>2. entry' \in Entries /\ entry'.plan = entry.plan /\ entry'.config = entry.config
    BY <2>1, Zenon DEF Entries
  <2>3. entry # None /\ entry' # None
    BY <2>1, <2>2, EntryIsPlan, Zenon
  <2> QED BY <2>1, <2>2, <2>3 DEF PlanInv, EntryInv, Holds
<1>2. CASE P!ReapOnce
  BY <1>2, Zenon DEF P!ReapOnce, PlanInv, EntryInv, Holds, P!applierVars
<1> QED BY <1>1, <1>2, Zenon

LEMMA PlanOther ==
  ASSUME PlanInv,
         \/ \E r \in Requests : P!Serve(r)
         \/ \E p \in Plans : P!Evaluate(p) \/ P!AgeOut(p) \/ P!CoolOff(p)
         \/ UNCHANGED P!vars
  PROVE  UNCHANGED <<entry, ended, live, built, apc>>
<1>1. ASSUME NEW r \in Requests, P!Serve(r) PROVE UNCHANGED <<entry, ended, live, built, apc>>
  BY <1>1, Zenon DEF P!Serve, P!Route, P!PickVariant, P!RecordOutcome, P!planVars, P!applierVars
<1>2. ASSUME NEW p \in Plans, P!Evaluate(p) \/ P!AgeOut(p) \/ P!CoolOff(p)
      PROVE  UNCHANGED <<entry, ended, live, built, apc>>
  BY <1>2, Zenon DEF P!Evaluate, P!AgeOut, P!CoolOff, P!applierVars
<1>3. UNCHANGED P!vars => UNCHANGED <<entry, ended, live, built, apc>>
  BY Zenon DEF P!vars, P!planVars, P!applierVars
<1> QED BY <1>1, <1>2, <1>3, Zenon

LEMMA PlanNext ==
  ASSUME P!TrafficPlanConstants, OneApplier, PlanInv, [P!Next]_P!vars PROVE PlanInv'
<1>1. ASSUME UNCHANGED <<entry, ended, live, built, apc>> PROVE PlanInv'
  BY <1>1, Zenon DEF PlanInv, EntryInv, Holds
<1> QED BY <1>1, PlanStart, PlanSkip, PlanEnds, PlanKeep, PlanNew, PlanReap, PlanOther, Zenon
        DEF P!Next, P!Apply

\* ReloadKeepsPlan, for any requests, plans and configurations and one builder of
\* snapshots: publishing the live configuration again keeps its plan object, and so
\* what Plan has learnt of the canary.
THEOREM ReloadsKeepPlan ==
  ASSUME P!TrafficPlanConstants, OneApplier PROVE P!Spec => P!ReloadKeepsPlan
<1> DEFINE Keeps == live'.config = live.config /\ live.plan \notin ended => live'.plan = live.plan
<1>1. P!Init => PlanInv
  BY PlanInit, Zenon
<1>2. PlanInv /\ [P!Next]_P!vars => PlanInv'
  BY PlanNext, Zenon
<1>3. ASSUME PlanInv, [P!Next]_P!vars PROVE [Keeps]_P!vars
  <2>1. ASSUME NEW a \in Appliers, P!PublishPlan(a) PROVE Keeps
    BY <1>3, <2>1, PublishKeeps, Zenon
  <2>2. ASSUME NEW a \in Appliers,
               \/ P!StartApply(a) \/ P!SkipPlan(a) \/ P!KeepPlan(a) \/ P!NewPlan(a) \/ P!PlanFails(a)
               \/ P!RejectPlan(a)
        PROVE  live' = live
    BY <2>2, Zenon DEF P!StartApply, P!SkipPlan, P!KeepPlan, P!NewPlan, P!PlanFails, P!RejectPlan
  <2>3. CASE P!Expire \/ P!ReapOnce
    BY <2>3, Zenon DEF P!Expire, P!ReapOnce
  <2> QED BY <1>3, <2>1, <2>2, <2>3, PlanOther, Zenon DEF P!Next, P!Apply
<1> QED BY <1>1, <1>2, <1>3, PTL DEF P!Spec, P!ReloadKeepsPlan
=============================================================================
