--------------------------- MODULE UpstreamProofs ---------------------------
(***************************************************************************)
(* Proofs about what stands before the upstreams: EndpointPool for any     *)
(* addresses, configurations, runtimes, requests and thresholds (a configured*)
(* address always has an endpoint to offer, and no runtime in the pool counts*)
(* more attempts than there are); Breaker for any finite set of requests.  *)
(***************************************************************************)
EXTENDS EndpointPool, FiniteSetTheorems, TLAPS

\* What Reconcile keeps for the addresses while it holds the lock: no two share
\* a runtime, each configured one has one, and one that drains is still to be
\* updated or restored.
PoolInv ==
  /\ \A a, b \in Addrs : endpoints[a] = endpoints[b] /\ endpoints[a] # None => a = b
  /\ todo \subseteq Present
  /\ restoring # None => restoring \in order
  /\ \A a \in order :
       endpoints[a] # None
         /\ (a \in todo \/ restoring = a \/ state[endpoints[a]] # "draining")

\* What an attempt has in hand.  The runtime it is about to count itself in or
\* out of may have left the pool, but it is not in use for another address.
AttemptInv(r) ==
  /\ pc[r] \notin {"idle", "choose"} => picked[r] \in Addrs
  /\ pc[r] \in {"incAdd", "failAdd", "eject", "decAdd"} => ref[r] \in Runtimes
  /\ pc[r] \in {"incAdd", "decAdd"} =>
       \A a \in Addrs : endpoints[a] = ref[r] => picked[r] = a

\* The attempts that may be counted by the runtime the address has now: one that
\* looked up an earlier runtime to count itself out is not.
CountedOn(a) ==
  {r \in Requests :
     picked[r] = a /\ (\/ pc[r] \in {"upstream", "failAdd", "eject", "decLookup"}
                       \/ pc[r] = "decAdd" /\ ref[r] = endpoints[a])}

CountInv == \A a \in Present : inflight[endpoints[a]] <= Cardinality(CountedOn(a))

\* The inductive invariant.
EndpointInv ==
  TypeOK /\ PoolInv /\ (\A r \in Requests : AttemptInv(r)) /\ CountInv

-----------------------------------------------------------------------------
(* What no step may do to each part of the invariant.                       *)

\* Nothing but Reconcile makes a runtime drain.
LEMMA PoolKept ==
  ASSUME PoolInv, UNCHANGED <<endpoints, order, todo, restoring>>, TypeOK,
         \A e \in Runtimes : state'[e] = "draining" => state[e] = "draining"
  PROVE  PoolInv'
  BY PoolAssumption DEF PoolInv, Present, TypeOK

LEMMA AttemptsKept ==
  ASSUME \A r \in Requests : AttemptInv(r), UNCHANGED <<endpoints, pc, picked, ref>>
  PROVE  \A r \in Requests : AttemptInv(r)'
  BY DEF AttemptInv

LEMMA CountKept ==
  ASSUME CountInv, UNCHANGED <<endpoints, inflight, pc, picked, ref>>
  PROVE  CountInv'
  BY DEF CountInv, CountedOn, Present

LEMMA CountedFinite ==
  \A a : IsFiniteSet(CountedOn(a)) /\ Cardinality(CountedOn(a)) \in Nat
<1> SUFFICES ASSUME NEW a PROVE IsFiniteSet(CountedOn(a)) /\ Cardinality(CountedOn(a)) \in Nat
  OBVIOUS
<1>1. CountedOn(a) \subseteq Requests
  BY DEF CountedOn
<1> QED BY <1>1, PoolAssumption, FS_Subset, FS_CardinalityType

\* Without a change of the counts it is enough that nobody who is counted leaves.
LEMMA CountGrows ==
  ASSUME TypeOK, CountInv, UNCHANGED <<endpoints, inflight>>,
         \A a \in Present : CountedOn(a) \subseteq CountedOn(a)'
  PROVE  CountInv'
<1> SUFFICES ASSUME NEW a \in Present
             PROVE  inflight[endpoints[a]] <= Cardinality(CountedOn(a)')
  BY Zenon DEF CountInv, Present
<1>1. inflight[endpoints[a]] \in Int /\ inflight[endpoints[a]] <= Cardinality(CountedOn(a))
  BY DEF TypeOK, CountInv, Present
<1>2. CountedOn(a)' \subseteq Requests
  BY DEF CountedOn
<1>3. IsFiniteSet(CountedOn(a)') /\ Cardinality(CountedOn(a)') \in Nat
  BY <1>2, PoolAssumption, FS_Subset, FS_CardinalityType
<1>4. Cardinality(CountedOn(a)) <= Cardinality(CountedOn(a)')
  BY <1>3, FS_Subset
<1> QED BY <1>1, <1>3, <1>4, CountedFinite

-----------------------------------------------------------------------------
(* Types.                                                                   *)

LEMMA InitType == Init => TypeOK
  BY PoolAssumption DEF Init, TypeOK, States, Probes, Labels

LEMMA UpdateType ==
  ASSUME EndpointInv, NEW a \in Addrs, Update(a)
  PROVE  TypeOK'
  BY PoolAssumption, Zenon
  DEF EndpointInv, TypeOK, Update, Turn, health, locals, reconcile

LEMMA RestoreType ==
  ASSUME EndpointInv, Restore
  PROVE  TypeOK'
  BY PoolAssumption, Zenon
  DEF EndpointInv, TypeOK, Restore, States, health, locals, reconcile

LEMMA MarkDrainingType ==
  ASSUME EndpointInv, NEW a \in Addrs, MarkDraining(a)
  PROVE  TypeOK'
<1>1. CASE state[endpoints[a]] = "draining"
  BY <1>1, Zenon DEF EndpointInv, TypeOK, MarkDraining, locals
<1>2. CASE state[endpoints[a]] # "draining"
  BY ZenonT(30), <1>2 DEF EndpointInv, TypeOK, MarkDraining, States, locals
<1> QED BY <1>1, <1>2

LEMMA ReapType ==
  ASSUME EndpointInv, Reap
  PROVE  TypeOK'
  BY PoolAssumption, Zenon
  DEF EndpointInv, TypeOK, Reap, Present, States, health, locals, reconcile

LEMMA DrainTimeoutType ==
  ASSUME EndpointInv, NEW e \in Runtimes, DrainTimeout(e)
  PROVE  TypeOK'
  BY PoolAssumption, Zenon
  DEF EndpointInv, TypeOK, DrainTimeout, health, locals, reconcile

LEMMA HealType ==
  ASSUME EndpointInv, Heal
  PROVE  TypeOK'
  BY PoolAssumption, Zenon
  DEF EndpointInv, TypeOK, Heal, health, locals, reconcile

LEMMA ProbeStartType ==
  ASSUME EndpointInv, NEW e \in Runtimes, ProbeStart(e)
  PROVE  TypeOK'
  BY PoolAssumption, Zenon
  DEF EndpointInv, TypeOK, ProbeStart, GotoProbe, Probes, health, locals, reconcile

LEMMA RecordActiveSuccessType ==
  ASSUME EndpointInv, NEW e \in Runtimes, RecordActiveSuccess(e)
  PROVE  TypeOK'
  BY PoolAssumption
  DEF EndpointInv, TypeOK, RecordActiveSuccess, GotoProbe, Probes, Counted, health, locals,
      reconcile

LEMMA RecordActiveFailureType ==
  ASSUME EndpointInv, NEW e \in Runtimes, RecordActiveFailure(e)
  PROVE  TypeOK'
  BY PoolAssumption
  DEF EndpointInv, TypeOK, RecordActiveFailure, GotoProbe, Probes, Counted, health, locals,
      reconcile

LEMMA ProbeMarkHealthyType ==
  ASSUME EndpointInv, NEW e \in Runtimes, ProbeMarkHealthy(e)
  PROVE  TypeOK'
  BY PoolAssumption
  DEF EndpointInv, TypeOK, ProbeMarkHealthy, GotoProbe, Probes, States, health, locals,
      reconcile

LEMMA ProbeEjectType ==
  ASSUME EndpointInv, NEW e \in Runtimes, ProbeEject(e)
  PROVE  TypeOK'
  BY PoolAssumption, Zenon
  DEF EndpointInv, TypeOK, ProbeEject, GotoProbe, Probes, States, health, locals, reconcile

LEMMA PickListType ==
  ASSUME EndpointInv, NEW r \in Requests, PickList(r)
  PROVE  TypeOK'
  BY PoolAssumption
  DEF EndpointInv, TypeOK, PickList, Goto, Labels, Present, health, locals, reconcile

LEMMA PickChooseType ==
  ASSUME EndpointInv, NEW r \in Requests, PickChoose(r)
  PROVE  TypeOK'
  BY PoolAssumption
  DEF EndpointInv, TypeOK, PickChoose, Goto, Labels, Candidates, health, locals, reconcile

LEMMA InflightStartType ==
  ASSUME EndpointInv, NEW r \in Requests, InflightStart(r)
  PROVE  TypeOK'
  BY PoolAssumption
  DEF EndpointInv, TypeOK, InflightStart, Lookup, Goto, Labels, AttemptInv, health, locals,
      reconcile

LEMMA InflightIncType ==
  ASSUME EndpointInv, NEW r \in Requests, InflightInc(r)
  PROVE  TypeOK'
  BY PoolAssumption
  DEF EndpointInv, TypeOK, InflightInc, Goto, Labels, AttemptInv, health, locals, reconcile

LEMMA PassiveFailureType ==
  ASSUME EndpointInv, NEW r \in Requests, PassiveFailure(r)
  PROVE  TypeOK'
  BY PoolAssumption
  DEF EndpointInv, TypeOK, PassiveFailure, Goto, Labels, AttemptInv, health, locals,
      reconcile

LEMMA RecordPassiveFailureType ==
  ASSUME EndpointInv, NEW r \in Requests, RecordPassiveFailure(r)
  PROVE  TypeOK'
  BY PoolAssumption
  DEF EndpointInv, TypeOK, RecordPassiveFailure, Goto, Labels, Counted, AttemptInv, health,
      locals, reconcile

LEMMA EjectType ==
  ASSUME EndpointInv, NEW r \in Requests, Eject(r)
  PROVE  TypeOK'
  BY PoolAssumption, Zenon
  DEF EndpointInv, TypeOK, Eject, Goto, Labels, States, AttemptInv, health, locals,
      reconcile

LEMMA InflightDoneType ==
  ASSUME EndpointInv, NEW r \in Requests, NEW response \in BOOLEAN, InflightDone(r, response)
  PROVE  TypeOK'
  BY PoolAssumption
  DEF EndpointInv, TypeOK, InflightDone, Lookup, Goto, Labels, AttemptInv, health, locals,
      reconcile

LEMMA InflightDecType ==
  ASSUME EndpointInv, NEW r \in Requests, InflightDec(r)
  PROVE  TypeOK'
  BY PoolAssumption
  DEF EndpointInv, TypeOK, InflightDec, Goto, Labels, AttemptInv, health, locals, reconcile

LEMMA PassiveSuccessType ==
  ASSUME EndpointInv, NEW r \in Requests, PassiveSuccess(r)
  PROVE  TypeOK'
  BY PoolAssumption
  DEF EndpointInv, TypeOK, PassiveSuccess, Goto, Labels, AttemptInv, health, locals,
      reconcile

-----------------------------------------------------------------------------
(* Reconcile and Reap.                                                      *)

\* The new runtimes: each address its own, and nobody refers to one of them.
LEMMA NewAreFree ==
  ASSUME NEW added, NewRuntimes(added) # {}, NEW new, new = CHOOSE f \in NewRuntimes(added) : TRUE
  PROVE  /\ \A a \in added : new[a] \in Runtimes /\ Free(new[a])
         /\ \A a, b \in added : new[a] = new[b] => a = b
<1>1. new \in NewRuntimes(added)
  OBVIOUS
<1> QED BY <1>1, Zenon DEF NewRuntimes

LEMMA ReconcileBeginInv ==
  ASSUME EndpointInv, NEW desired \in Configs, ReconcileBegin(desired)
  PROVE  EndpointInv'
<1> DEFINE added == desired \ Present
           new == CHOOSE f \in NewRuntimes(added) : TRUE
           made == {new[a] : a \in added}
<1>1. /\ \A a \in added : new[a] \in Runtimes /\ Free(new[a])
      /\ \A a, b \in added : new[a] = new[b] => a = b
  BY NewAreFree, Zenon DEF ReconcileBegin
<1> HIDE DEF new
<1>2. desired \subseteq Addrs /\ None \notin Runtimes
  BY PoolAssumption
<1>3. /\ endpoints' = [a \in Addrs |-> IF a \in added THEN new[a] ELSE endpoints[a]]
      /\ state' = [e \in Runtimes |-> IF e \in made THEN "healthy" ELSE state[e]]
      /\ inflight' = [e \in Runtimes |-> IF e \in made THEN 0 ELSE inflight[e]]
      /\ order' = desired /\ todo' = Present /\ restoring = None
      /\ UNCHANGED <<restoring, pc, picked, ref>>
  BY Zenon DEF ReconcileBegin, ZeroAt, Unlocked, locals, new
<1>4. \A a \in Addrs \ added : endpoints'[a] = endpoints[a] /\ endpoints[a] \notin made
  BY <1>1, <1>3, Zenon DEF Free
<1>5. TypeOK'
  <2>1. endpoints' \in [Addrs -> Runtimes \cup {None}]
    BY <1>1, <1>3, Zenon DEF EndpointInv, TypeOK
  <2>2. /\ state' \in [Runtimes -> States] /\ inflight' \in [Runtimes -> Int]
        /\ order' \subseteq Addrs /\ todo' \subseteq Addrs
    BY <1>2, <1>3 DEF EndpointInv, TypeOK, States, Present
  <2>3. /\ expired' \in [Runtimes -> BOOLEAN] /\ probing' \in [Runtimes -> BOOLEAN]
        /\ activeFails' \in [Runtimes -> 0..UnhealthyAfter - 1]
        /\ activeOks' \in [Runtimes -> 0..HealthyAfter - 1]
        /\ passiveFails' \in [Runtimes -> 0..UnhealthyAfter - 1]
    BY PoolAssumption DEF EndpointInv, TypeOK, ReconcileBegin, ZeroAt
  <2> QED BY <2>1, <2>2, <2>3, Zenon DEF EndpointInv, TypeOK, ReconcileBegin, locals
<1>6. PoolInv'
  <2>1. \A a, b \in Addrs : endpoints'[a] = endpoints'[b] /\ endpoints'[a] # None => a = b
    BY <1>1, <1>3, <1>4 DEF EndpointInv, PoolInv
  <2>2. todo' \subseteq Present'
    BY <1>3, <1>4, Zenon DEF Present
  <2>3. ASSUME NEW a \in desired, a \in added
        PROVE  endpoints'[a] # None /\ state'[endpoints'[a]] # "draining"
    BY <1>1, <1>2, <1>3, <2>3, Zenon
  <2>4. ASSUME NEW a \in desired, a \notin added PROVE endpoints'[a] # None /\ a \in todo'
    BY <1>2, <1>3, <1>4, <2>4, Zenon DEF Present
  <2> QED BY <1>3, <2>1, <2>2, <2>3, <2>4, Zenon DEF PoolInv
<1>7. \A r \in Requests : AttemptInv(r)'
  <2>1. \A r \in Requests, a \in added : ref[r] # new[a]
    BY <1>1, Zenon DEF Free, Referenced
  <2> QED BY <1>3, <1>4, <2>1, Zenon DEF EndpointInv, AttemptInv
<1>8. CountInv'
  <2> SUFFICES ASSUME NEW a \in Addrs, endpoints'[a] # None
               PROVE  inflight'[endpoints'[a]] <= Cardinality(CountedOn(a)')
    BY Zenon DEF CountInv, Present
  <2>1. CASE a \in added
    <3>1. inflight'[endpoints'[a]] = 0
      BY <1>1, <1>3, <2>1, Zenon
    <3>2. CountedOn(a)' \subseteq Requests
      BY Zenon DEF CountedOn
    <3> QED BY <3>1, <3>2, PoolAssumption, FS_Subset, FS_CardinalityType
  <2>2. CASE a \notin added
    <3>1. endpoints'[a] = endpoints[a] /\ inflight'[endpoints[a]] = inflight[endpoints[a]]
      BY <1>3, <1>4, <2>2, Zenon DEF EndpointInv, TypeOK
    <3>2. CountedOn(a)' = CountedOn(a)
      BY <1>3, <3>1, Zenon DEF CountedOn
    <3> QED BY <3>1, <3>2, Zenon DEF EndpointInv, CountInv, Present
  <2> QED BY <2>1, <2>2, Zenon
<1> QED BY <1>5, <1>6, <1>7, <1>8 DEF EndpointInv

\* The runtime of a configured address does not drain: the reaper leaves it.
LEMMA ReapInv ==
  ASSUME EndpointInv, Reap
  PROVE  EndpointInv'
<1> DEFINE gone == {a \in Present : Reapable(endpoints[a])}
<1>1. /\ endpoints' = [a \in Addrs |-> IF a \in gone THEN None ELSE endpoints[a]]
      /\ todo = {} /\ restoring = None
      /\ UNCHANGED <<order, todo, restoring, inflight, pc, picked, ref>>
  BY Zenon DEF Reap, Unlocked, reconcile, locals
<1>2. \A a \in order : a \notin gone /\ state[endpoints[a]] # "draining"
  BY <1>1, PoolAssumption DEF EndpointInv, TypeOK, PoolInv, Reapable
<1>3. \A e \in Runtimes : state'[e] = "draining" => state[e] = "draining"
  BY Zenon DEF Reap, Reapable
<1>4. \A a \in order : endpoints'[a] = endpoints[a] /\ endpoints[a] \in Runtimes /\ endpoints[a] # None
  BY <1>1, <1>2 DEF EndpointInv, TypeOK, PoolInv
<1>5. PoolInv'
  BY <1>1, <1>2, <1>3, <1>4, Zenon DEF EndpointInv, TypeOK, PoolInv, Present
<1>6. \A r \in Requests : AttemptInv(r)'
  BY <1>1, PoolAssumption DEF EndpointInv, AttemptInv
<1>7. ASSUME NEW a \in Addrs, endpoints'[a] # None
      PROVE  endpoints'[a] = endpoints[a] /\ CountedOn(a)' = CountedOn(a)
  BY <1>1, <1>7, Zenon DEF CountedOn
<1>8. CountInv'
  BY <1>1, <1>7, Zenon DEF EndpointInv, CountInv, Present
<1> QED BY <1>5, <1>6, <1>8, ReapType, Zenon DEF EndpointInv

LEMMA UpdateInv ==
  ASSUME EndpointInv, NEW a \in Addrs, Update(a)
  PROVE  EndpointInv'
<1>1. PoolInv'
  BY PoolAssumption DEF EndpointInv, TypeOK, PoolInv, Update, Turn, Present, health
<1> QED BY <1>1, UpdateType, AttemptsKept, CountKept, Zenon DEF EndpointInv, Update, locals

LEMMA RestoreInv ==
  ASSUME EndpointInv, Restore
  PROVE  EndpointInv'
<1>1. endpoints[restoring] \in Runtimes
  BY PoolAssumption, Zenon DEF EndpointInv, TypeOK, PoolInv, Restore
<1>2. PoolInv'
  BY <1>1, Zenon DEF EndpointInv, TypeOK, PoolInv, Restore, Present
<1> QED BY <1>2, RestoreType, AttemptsKept, CountKept, Zenon DEF EndpointInv, Restore, locals

LEMMA MarkDrainingInv ==
  ASSUME EndpointInv, NEW a \in Addrs, MarkDraining(a)
  PROVE  EndpointInv'
<1>1. \A b \in order : endpoints[b] # endpoints[a] /\ endpoints[b] \in Runtimes
  BY DEF EndpointInv, TypeOK, PoolInv, MarkDraining, Turn, Present
<1>2. \A b \in order : state'[endpoints[b]] = state[endpoints[b]]
  BY <1>1, Zenon DEF EndpointInv, TypeOK, MarkDraining
<1>3. PoolInv'
  BY <1>2, Zenon DEF EndpointInv, PoolInv, MarkDraining, Turn, Present
<1> QED BY <1>3, MarkDrainingType, AttemptsKept, CountKept, Zenon DEF EndpointInv, MarkDraining, locals

-----------------------------------------------------------------------------
(* Clocks and probes.                                                       *)

LEMMA DrainTimeoutInv ==
  ASSUME EndpointInv, NEW e \in Runtimes, DrainTimeout(e)
  PROVE  EndpointInv'
<1>1. /\ UNCHANGED <<endpoints, order, todo, restoring, inflight, pc, picked, ref>>
      /\ \A f \in Runtimes : state'[f] = "draining" => state[f] = "draining"
  BY Zenon DEF EndpointInv, TypeOK, DrainTimeout, reconcile, health, locals
<1> QED BY <1>1, DrainTimeoutType, PoolKept, AttemptsKept, CountKept, Zenon DEF EndpointInv

LEMMA HealInv ==
  ASSUME EndpointInv, Heal
  PROVE  EndpointInv'
<1>1. /\ UNCHANGED <<endpoints, order, todo, restoring, inflight, pc, picked, ref>>
      /\ \A f \in Runtimes : state'[f] = "draining" => state[f] = "draining"
  BY Zenon DEF EndpointInv, TypeOK, Heal, reconcile, health, locals
<1> QED BY <1>1, HealType, PoolKept, AttemptsKept, CountKept, Zenon DEF EndpointInv

LEMMA ProbeStartInv ==
  ASSUME EndpointInv, NEW e \in Runtimes, ProbeStart(e)
  PROVE  EndpointInv'
<1>1. /\ UNCHANGED <<endpoints, order, todo, restoring, inflight, pc, picked, ref>>
      /\ \A f \in Runtimes : state'[f] = "draining" => state[f] = "draining"
  BY Zenon DEF EndpointInv, TypeOK, ProbeStart, reconcile, health, locals
<1> QED BY <1>1, ProbeStartType, PoolKept, AttemptsKept, CountKept DEF EndpointInv

LEMMA RecordActiveSuccessInv ==
  ASSUME EndpointInv, NEW e \in Runtimes, RecordActiveSuccess(e)
  PROVE  EndpointInv'
<1>1. /\ UNCHANGED <<endpoints, order, todo, restoring, inflight, pc, picked, ref>>
      /\ \A f \in Runtimes : state'[f] = "draining" => state[f] = "draining"
  BY Zenon DEF EndpointInv, TypeOK, RecordActiveSuccess, reconcile, locals
<1> QED BY <1>1, RecordActiveSuccessType, PoolKept, AttemptsKept, CountKept DEF EndpointInv

LEMMA RecordActiveFailureInv ==
  ASSUME EndpointInv, NEW e \in Runtimes, RecordActiveFailure(e)
  PROVE  EndpointInv'
<1>1. /\ UNCHANGED <<endpoints, order, todo, restoring, inflight, pc, picked, ref>>
      /\ \A f \in Runtimes : state'[f] = "draining" => state[f] = "draining"
  BY Zenon DEF EndpointInv, TypeOK, RecordActiveFailure, reconcile, locals
<1> QED BY <1>1, RecordActiveFailureType, PoolKept, AttemptsKept, CountKept DEF EndpointInv

LEMMA ProbeMarkHealthyInv ==
  ASSUME EndpointInv, NEW e \in Runtimes, ProbeMarkHealthy(e)
  PROVE  EndpointInv'
<1>1. /\ UNCHANGED <<endpoints, order, todo, restoring, inflight, pc, picked, ref>>
      /\ \A f \in Runtimes : state'[f] = "draining" => state[f] = "draining"
  BY Zenon DEF EndpointInv, TypeOK, ProbeMarkHealthy, reconcile, locals
<1> QED BY <1>1, ProbeMarkHealthyType, PoolKept, AttemptsKept, CountKept DEF EndpointInv

LEMMA ProbeEjectInv ==
  ASSUME EndpointInv, NEW e \in Runtimes, ProbeEject(e)
  PROVE  EndpointInv'
<1>1. /\ UNCHANGED <<endpoints, order, todo, restoring, inflight, pc, picked, ref>>
      /\ \A f \in Runtimes : state'[f] = "draining" => state[f] = "draining"
  BY Zenon DEF EndpointInv, TypeOK, ProbeEject, reconcile, locals
<1> QED BY <1>1, ProbeEjectType, PoolKept, AttemptsKept, CountKept DEF EndpointInv

-----------------------------------------------------------------------------
(* Attempts.                                                                *)

LEMMA PickListInv ==
  ASSUME EndpointInv, NEW r \in Requests, PickList(r)
  PROVE  EndpointInv'
<1>1. /\ UNCHANGED <<endpoints, order, todo, restoring, inflight>>
      /\ \A f \in Runtimes : state'[f] = "draining" => state[f] = "draining"
  BY Zenon DEF EndpointInv, TypeOK, PickList, reconcile, health
<1>2. \A q \in Requests : AttemptInv(q)'
  BY PoolAssumption
  DEF EndpointInv, TypeOK, PoolInv, AttemptInv, PickList, Goto
<1>3. \A b \in Present : CountedOn(b) \subseteq CountedOn(b)'
  BY PoolAssumption
  DEF EndpointInv, TypeOK, AttemptInv, CountedOn, Present, PickList, Goto
<1> QED BY <1>1, <1>2, <1>3, PickListType, PoolKept, CountGrows, Zenon DEF EndpointInv

LEMMA PickChooseInv ==
  ASSUME EndpointInv, NEW r \in Requests, PickChoose(r)
  PROVE  EndpointInv'
<1>1. /\ UNCHANGED <<endpoints, order, todo, restoring, inflight>>
      /\ \A f \in Runtimes : state'[f] = "draining" => state[f] = "draining"
  BY Zenon DEF EndpointInv, TypeOK, PickChoose, reconcile, health
<1>2. \A q \in Requests : AttemptInv(q)'
  BY PoolAssumption
  DEF EndpointInv, TypeOK, PoolInv, AttemptInv, PickChoose, Goto, Candidates
<1>3. \A b \in Present : CountedOn(b) \subseteq CountedOn(b)'
  BY PoolAssumption
  DEF EndpointInv, TypeOK, AttemptInv, CountedOn, Present, PickChoose, Goto, Candidates
<1> QED BY <1>1, <1>2, <1>3, PickChooseType, PoolKept, CountGrows DEF EndpointInv

LEMMA InflightStartInv ==
  ASSUME EndpointInv, NEW r \in Requests, InflightStart(r)
  PROVE  EndpointInv'
<1>1. /\ UNCHANGED <<endpoints, order, todo, restoring, inflight>>
      /\ \A f \in Runtimes : state'[f] = "draining" => state[f] = "draining"
  BY Zenon DEF EndpointInv, TypeOK, InflightStart, Lookup, reconcile, health
<1>2. \A q \in Requests : AttemptInv(q)'
  BY PoolAssumption
  DEF EndpointInv, TypeOK, PoolInv, AttemptInv, InflightStart, Lookup, Goto
<1>3. \A b \in Present : CountedOn(b) \subseteq CountedOn(b)'
  BY PoolAssumption
  DEF EndpointInv, TypeOK, AttemptInv, CountedOn, Present, InflightStart, Lookup, Goto
<1> QED BY <1>1, <1>2, <1>3, InflightStartType, PoolKept, CountGrows DEF EndpointInv

LEMMA PassiveFailureInv ==
  ASSUME EndpointInv, NEW r \in Requests, PassiveFailure(r)
  PROVE  EndpointInv'
<1>1. /\ UNCHANGED <<endpoints, order, todo, restoring, inflight>>
      /\ \A f \in Runtimes : state'[f] = "draining" => state[f] = "draining"
  BY Zenon DEF EndpointInv, TypeOK, PassiveFailure, reconcile, health
<1>2. \A q \in Requests : AttemptInv(q)'
  BY PoolAssumption
  DEF EndpointInv, TypeOK, PoolInv, AttemptInv, PassiveFailure, Goto
<1>3. \A b \in Present : CountedOn(b) \subseteq CountedOn(b)'
  BY PoolAssumption
  DEF EndpointInv, TypeOK, AttemptInv, CountedOn, Present, PassiveFailure, Goto
<1> QED BY <1>1, <1>2, <1>3, PassiveFailureType, PoolKept, CountGrows DEF EndpointInv

LEMMA RecordPassiveFailureInv ==
  ASSUME EndpointInv, NEW r \in Requests, RecordPassiveFailure(r)
  PROVE  EndpointInv'
<1>1. /\ UNCHANGED <<endpoints, order, todo, restoring, inflight>>
      /\ \A f \in Runtimes : state'[f] = "draining" => state[f] = "draining"
  BY Zenon DEF EndpointInv, TypeOK, RecordPassiveFailure, reconcile
<1>2. \A q \in Requests : AttemptInv(q)'
  BY PoolAssumption
  DEF EndpointInv, TypeOK, PoolInv, AttemptInv, RecordPassiveFailure, Goto, locals
<1>3. \A b \in Present : CountedOn(b) \subseteq CountedOn(b)'
  BY PoolAssumption
  DEF EndpointInv, TypeOK, AttemptInv, CountedOn, Present, RecordPassiveFailure, Goto,
      locals
<1> QED BY <1>1, <1>2, <1>3, RecordPassiveFailureType, PoolKept, CountGrows DEF EndpointInv

LEMMA EjectInv ==
  ASSUME EndpointInv, NEW r \in Requests, Eject(r)
  PROVE  EndpointInv'
<1>1. /\ UNCHANGED <<endpoints, order, todo, restoring, inflight>>
      /\ \A f \in Runtimes : state'[f] = "draining" => state[f] = "draining"
  BY Zenon DEF EndpointInv, TypeOK, Eject, reconcile
<1>2. \A q \in Requests : AttemptInv(q)'
  BY PoolAssumption
  DEF EndpointInv, TypeOK, PoolInv, AttemptInv, Eject, Goto
<1>3. \A b \in Present : CountedOn(b) \subseteq CountedOn(b)'
  BY PoolAssumption
  DEF EndpointInv, TypeOK, AttemptInv, CountedOn, Present, Eject, Goto
<1> QED BY <1>1, <1>2, <1>3, EjectType, PoolKept, CountGrows DEF EndpointInv

LEMMA InflightDoneInv ==
  ASSUME EndpointInv, NEW r \in Requests, NEW response \in BOOLEAN, InflightDone(r, response)
  PROVE  EndpointInv'
<1>1. /\ UNCHANGED <<endpoints, order, todo, restoring, inflight>>
      /\ \A f \in Runtimes : state'[f] = "draining" => state[f] = "draining"
  BY Zenon DEF EndpointInv, TypeOK, InflightDone, Lookup, reconcile, health
<1>2. \A q \in Requests : AttemptInv(q)'
  BY PoolAssumption
  DEF EndpointInv, TypeOK, PoolInv, AttemptInv, InflightDone, Lookup, Goto
<1>3. \A b \in Present : CountedOn(b) \subseteq CountedOn(b)'
  BY PoolAssumption
  DEF EndpointInv, TypeOK, AttemptInv, CountedOn, Present, InflightDone, Lookup, Goto
<1> QED BY <1>1, <1>2, <1>3, InflightDoneType, PoolKept, CountGrows, Zenon DEF EndpointInv

LEMMA PassiveSuccessInv ==
  ASSUME EndpointInv, NEW r \in Requests, PassiveSuccess(r)
  PROVE  EndpointInv'
<1>1. /\ UNCHANGED <<endpoints, order, todo, restoring, inflight>>
      /\ \A f \in Runtimes : state'[f] = "draining" => state[f] = "draining"
  BY Zenon DEF EndpointInv, TypeOK, PassiveSuccess, reconcile
<1>2. \A q \in Requests : AttemptInv(q)'
  BY PoolAssumption
  DEF EndpointInv, TypeOK, PoolInv, AttemptInv, PassiveSuccess, Goto
<1>3. \A b \in Present : CountedOn(b) \subseteq CountedOn(b)'
  BY PoolAssumption
  DEF EndpointInv, TypeOK, AttemptInv, CountedOn, Present, PassiveSuccess, Goto
<1> QED BY <1>1, <1>2, <1>3, PassiveSuccessType, PoolKept, CountGrows DEF EndpointInv

\* An attempt counts itself in: the runtime it looked up, if it is still in the
\* pool, is the one of the address it picked.
LEMMA InflightIncInv ==
  ASSUME EndpointInv, NEW r \in Requests, InflightInc(r)
  PROVE  EndpointInv'
<1>1. UNCHANGED <<endpoints, order, todo, restoring, state, picked>>
  BY Zenon DEF InflightInc, reconcile, health
<1>2. /\ pc[r] = "incAdd" /\ pc' = [pc EXCEPT ![r] = "upstream"]
      /\ ref' = [ref EXCEPT ![r] = None] /\ ref[r] \in Runtimes /\ picked[r] \in Addrs
      /\ inflight' = [inflight EXCEPT ![ref[r]] = @ + 1]
  BY Zenon DEF EndpointInv, AttemptInv, InflightInc, Goto
<1>3. \A q \in Requests : AttemptInv(q)'
  BY <1>1, <1>2, Zenon DEF EndpointInv, TypeOK, AttemptInv
<1>4. PoolInv'
  BY <1>1, PoolKept, Zenon DEF EndpointInv
<1>5. CountInv'
  <2> SUFFICES ASSUME NEW a \in Addrs, endpoints[a] # None
               PROVE  inflight'[endpoints[a]] <= Cardinality(CountedOn(a)')
    BY <1>1, Zenon DEF CountInv, Present
  <2>1. /\ endpoints[a] \in Runtimes /\ inflight[endpoints[a]] \in Int
        /\ inflight[endpoints[a]] <= Cardinality(CountedOn(a))
    BY Zenon DEF EndpointInv, TypeOK, CountInv, Present
  <2>2. IsFiniteSet(CountedOn(a)) /\ Cardinality(CountedOn(a)) \in Nat
    BY CountedFinite, Zenon
  <2>3. CASE endpoints[a] = ref[r]
    <3>1. picked[r] = a
      BY <1>2, <2>3, Zenon DEF EndpointInv, AttemptInv
    <3>2. CountedOn(a)' = CountedOn(a) \cup {r} /\ r \notin CountedOn(a)
      BY <1>1, <1>2, <2>3, <3>1 DEF EndpointInv, TypeOK, CountedOn
    <3>3. Cardinality(CountedOn(a)') = Cardinality(CountedOn(a)) + 1
      BY <2>2, <3>2, FS_AddElement, Zenon
    <3>4. inflight'[endpoints[a]] = inflight[endpoints[a]] + 1
      BY <1>2, <2>3, Zenon DEF EndpointInv, TypeOK
    <3> QED BY <2>1, <2>2, <3>3, <3>4
  <2>4. CASE endpoints[a] # ref[r]
    <3>1. CountedOn(a) \subseteq CountedOn(a)' /\ CountedOn(a)' \subseteq Requests
      BY <1>1, <1>2, <2>4, Zenon DEF EndpointInv, TypeOK, CountedOn
    <3>2. IsFiniteSet(CountedOn(a)') /\ Cardinality(CountedOn(a)') \in Nat
      BY <3>1, PoolAssumption, FS_Subset, FS_CardinalityType, Zenon
    <3>3. Cardinality(CountedOn(a)) <= Cardinality(CountedOn(a)')
      BY <3>1, <3>2, FS_Subset, Zenon
    <3>4. inflight'[endpoints[a]] = inflight[endpoints[a]]
      BY <1>2, <2>1, <2>4, Zenon DEF EndpointInv, TypeOK
    <3> QED BY <2>1, <2>2, <3>2, <3>3, <3>4
  <2> QED BY <2>3, <2>4, Zenon
<1> QED BY <1>3, <1>4, <1>5, InflightIncType, Zenon DEF EndpointInv

\* An attempt counts itself out: of the runtime it looked up, if it is still in the
\* pool, is the one of the address it picked.
LEMMA InflightDecInv ==
  ASSUME EndpointInv, NEW r \in Requests, InflightDec(r)
  PROVE  EndpointInv'
<1>1. UNCHANGED <<endpoints, order, todo, restoring, state, picked>>
  BY Zenon DEF InflightDec, reconcile, health
<1>2. /\ pc[r] = "decAdd" /\ pc' = [pc EXCEPT ![r] = "passiveOk"]
      /\ ref' = [ref EXCEPT ![r] = None] /\ ref[r] \in Runtimes /\ picked[r] \in Addrs
      /\ inflight' = [inflight EXCEPT ![ref[r]] = @ - 1]
  BY Zenon DEF EndpointInv, AttemptInv, InflightDec, Goto
<1>3. \A q \in Requests : AttemptInv(q)'
  BY <1>1, <1>2, Zenon DEF EndpointInv, TypeOK, AttemptInv
<1>4. PoolInv'
  BY <1>1, PoolKept, Zenon DEF EndpointInv
<1>5. CountInv'
  <2> SUFFICES ASSUME NEW a \in Addrs, endpoints[a] # None
               PROVE  inflight'[endpoints[a]] <= Cardinality(CountedOn(a)')
    BY <1>1 DEF CountInv, Present
  <2>1. /\ endpoints[a] \in Runtimes /\ inflight[endpoints[a]] \in Int
        /\ inflight[endpoints[a]] <= Cardinality(CountedOn(a))
    BY DEF EndpointInv, TypeOK, CountInv, Present
  <2>2. IsFiniteSet(CountedOn(a)) /\ Cardinality(CountedOn(a)) \in Nat
    BY CountedFinite
  <2>3. CASE endpoints[a] = ref[r]
    <3>1. picked[r] = a
      BY <1>2, <2>3, Zenon DEF EndpointInv, AttemptInv
    <3>2. CountedOn(a)' = CountedOn(a) \ {r} /\ r \in CountedOn(a)
      BY <1>1, <1>2, <2>3, <3>1, Zenon DEF EndpointInv, TypeOK, CountedOn
    <3>3. Cardinality(CountedOn(a)') = Cardinality(CountedOn(a)) - 1
      BY <2>2, <3>2, FS_RemoveElement, Zenon
    <3>4. inflight'[endpoints[a]] = inflight[endpoints[a]] - 1
      BY <1>2, <2>3, Zenon DEF EndpointInv, TypeOK
    <3> QED BY <2>1, <2>2, <3>3, <3>4
  <2>4. CASE endpoints[a] # ref[r]
    <3>1. CountedOn(a) \subseteq CountedOn(a)' /\ CountedOn(a)' \subseteq Requests
      BY <1>1, <1>2, <2>4, Zenon DEF EndpointInv, TypeOK, CountedOn
    <3>2. IsFiniteSet(CountedOn(a)') /\ Cardinality(CountedOn(a)') \in Nat
      BY <3>1, PoolAssumption, FS_Subset, FS_CardinalityType, Zenon
    <3>3. Cardinality(CountedOn(a)) <= Cardinality(CountedOn(a)')
      BY <3>1, <3>2, FS_Subset
    <3>4. inflight'[endpoints[a]] = inflight[endpoints[a]]
      BY <1>2, <2>1, <2>4, Zenon DEF EndpointInv, TypeOK
    <3> QED BY <2>1, <2>2, <3>2, <3>3, <3>4
  <2> QED BY <2>3, <2>4
<1> QED BY <1>3, <1>4, <1>5, InflightDecType, Zenon DEF EndpointInv

-----------------------------------------------------------------------------
LEMMA InitInv == Init => EndpointInv
<1> SUFFICES ASSUME Init PROVE EndpointInv
  OBVIOUS
<1>1. PoolInv /\ \A r \in Requests : AttemptInv(r)
  BY Zenon DEF Init, PoolInv, Present, AttemptInv
<1>2. CountInv
  BY Zenon DEF Init, CountInv, Present
<1> QED BY <1>1, <1>2, InitType, Zenon DEF EndpointInv

LEMMA UnchangedInv == ASSUME EndpointInv, UNCHANGED vars PROVE EndpointInv'
<1>1. TypeOK'
  BY Zenon DEF EndpointInv, TypeOK, vars, reconcile, health, locals
<1>2. PoolInv'
  BY Zenon DEF EndpointInv, PoolInv, Present, vars, reconcile, health
<1> QED BY <1>1, <1>2, AttemptsKept, CountKept, Zenon DEF EndpointInv, vars, locals

LEMMA NextInv == EndpointInv /\ [Next]_vars => EndpointInv'
<1> SUFFICES ASSUME EndpointInv, [Next]_vars PROVE EndpointInv'
  BY Zenon
<1>1. ASSUME NEW desired \in Configs, ReconcileBegin(desired) PROVE EndpointInv'
  BY <1>1, ReconcileBeginInv
<1>2. CASE ReconcileStep
  BY <1>2, UpdateInv, RestoreInv, MarkDrainingInv, Zenon DEF ReconcileStep
<1>3. CASE Reap \/ Heal
  BY <1>3, ReapInv, HealInv, Zenon
<1>4. ASSUME NEW e \in Runtimes, DrainTimeout(e) \/ Probe(e) PROVE EndpointInv'
  BY <1>4, DrainTimeoutInv, ProbeStartInv, RecordActiveSuccessInv, RecordActiveFailureInv,
     ProbeMarkHealthyInv, ProbeEjectInv, Zenon DEF Probe
<1>5. ASSUME NEW r \in Requests, PickList(r) \/ Attempt(r) PROVE EndpointInv'
  BY <1>5, PickListInv, PickChooseInv, InflightStartInv, InflightIncInv, PassiveFailureInv,
     RecordPassiveFailureInv, EjectInv, InflightDoneInv, InflightDecInv, PassiveSuccessInv, Zenon
  DEF Attempt
<1>6. CASE UNCHANGED vars
  BY <1>6, UnchangedInv, Zenon
<1> QED BY <1>1, <1>2, <1>3, <1>4, <1>5, <1>6, Zenon DEF Next

LEMMA CountedAreAttempts ==
  ASSUME EndpointInv, NEW a \in Present
  PROVE  inflight[endpoints[a]] <= Cardinality(AttemptsOn(a))
<1>1. CountedOn(a) \subseteq AttemptsOn(a) /\ AttemptsOn(a) \subseteq Requests
  BY Zenon DEF CountedOn, AttemptsOn
<1>2. IsFiniteSet(AttemptsOn(a)) /\ Cardinality(AttemptsOn(a)) \in Nat
  BY <1>1, PoolAssumption, FS_Subset, FS_CardinalityType, Zenon
<1>3. Cardinality(CountedOn(a)) <= Cardinality(AttemptsOn(a))
  BY <1>1, <1>2, FS_Subset, Zenon
<1>4. inflight[endpoints[a]] \in Int /\ inflight[endpoints[a]] <= Cardinality(CountedOn(a))
  BY Zenon DEF EndpointInv, TypeOK, CountInv, Present
<1> QED BY <1>2, <1>3, <1>4, CountedFinite

\* Whatever probes and requests store into a runtime while Reconcile works on
\* it, outside the lock a configured address has a runtime that is not draining,
\* which Pick can offer and the reaper leaves alone; and however the runtime of
\* an address is replaced between InflightStart and InflightDone, the count of
\* the one in the pool never exceeds the attempts that run against the address.
THEOREM EndpointsCorrect == Spec => [](TypeOK /\ ConfiguredServes /\ InflightNeverOver)
<1>1. EndpointInv => ConfiguredServes
  BY PoolAssumption DEF EndpointInv, TypeOK, PoolInv, ConfiguredServes, Unlocked
<1>2. EndpointInv => InflightNeverOver
  BY CountedAreAttempts, Zenon DEF InflightNeverOver
<1>3. EndpointInv => TypeOK /\ ConfiguredServes /\ InflightNeverOver
  BY <1>1, <1>2 DEF EndpointInv
<1> QED BY <1>3, InitInv, NextInv, PTL DEF Spec

\* InflightNeverOver: an InflightDone that misses its runtime, or meets another,
\* never leaves a count above the attempts that run against the address.
THEOREM CountNeverOver == Spec => []InflightNeverOver
BY EndpointsCorrect, PTL

\* Reconcile, Reap: no step takes the runtime of a configured address out of
\* the pool or puts another in its place.
RuntimeKept == [][\A a \in order : endpoints'[a] = endpoints[a]]_vars

LEMMA NextKeeps ==
  ASSUME EndpointInv, [Next]_vars
  PROVE  \A a \in order : endpoints'[a] = endpoints[a]
<1>1. ASSUME NEW desired \in Configs, ReconcileBegin(desired), NEW a \in order
      PROVE  endpoints'[a] = endpoints[a]
  <2>1. a \in Present
    BY Zenon DEF EndpointInv, TypeOK, PoolInv, Present
  <2> QED BY <1>1, <2>1, Zenon DEF ReconcileBegin, Present
<1>2. ASSUME Reap, NEW a \in order PROVE endpoints'[a] = endpoints[a]
  <2>1. a \in Addrs /\ todo = {} /\ restoring = None
    BY <1>2, Zenon DEF EndpointInv, TypeOK, Reap, Unlocked
  <2>2. a # None /\ state[endpoints[a]] # "draining"
    BY <2>1, PoolAssumption, Zenon DEF EndpointInv, PoolInv
  <2> QED BY <1>2, <2>1, <2>2, Zenon DEF Reap, Reapable
<1>3. CASE ReconcileStep \/ Heal
  BY <1>3, Zenon DEF ReconcileStep, Update, MarkDraining, Restore, Heal
<1>4. ASSUME NEW e \in Runtimes, DrainTimeout(e) \/ Probe(e) PROVE endpoints' = endpoints
  BY <1>4, Zenon DEF DrainTimeout, Probe, ProbeStart, RecordActiveSuccess, RecordActiveFailure,
     ProbeMarkHealthy, ProbeEject
<1>5. ASSUME NEW r \in Requests, PickList(r) \/ Attempt(r) PROVE endpoints' = endpoints
  BY <1>5, Zenon DEF PickList, Attempt, PickChoose, InflightStart, InflightInc, PassiveFailure,
     RecordPassiveFailure, Eject, InflightDone, InflightDec, PassiveSuccess, Lookup
<1>6. CASE UNCHANGED vars
  BY <1>6, Zenon DEF vars
<1> QED BY <1>1, <1>2, <1>3, <1>4, <1>5, <1>6, Zenon DEF Next

\* An endpoint that stays configured keeps its runtime through any reloads, with
\* its health and its count: the reaper, which looks at it without knowing the
\* configuration, takes it only once it has been dropped.
THEOREM RuntimesStay == Spec => RuntimeKept
<1>1. EndpointInv /\ [Next]_vars => [\A a \in order : endpoints'[a] = endpoints[a]]_vars
  BY NextKeeps, Zenon
<1> QED BY <1>1, InitInv, NextInv, PTL DEF Spec, RuntimeKept

-----------------------------------------------------------------------------
(* Breaker: how far probeInFlight can fall below zero.                      *)
CONSTANTS
  HalfOpenMaxProbes, MinimumRequests, Threshold, MaxAttempts, MaxCount
VARIABLES
  reqCount, failCount, probeInFlight, probeSuccess, probeFail, cooling,
  windowOld, ok, attempts, seen

B == INSTANCE Breaker

\* The operators of FiniteSets, as the instance names them.
LEMMA BFinite == \A X : B!IsFiniteSet(X) <=> IsFiniteSet(X)
BY Zenon DEF B!IsFiniteSet, IsFiniteSet

LEMMA BCardinality == \A X : B!Cardinality(X) = Cardinality(X)
BY DEF B!Cardinality, Cardinality

\* The requests that are about to decrement probeInFlight.
Decrementing == {r \in Requests : pc[r] \in {"decrement", "undo"}}

\* A decrement is decided on a count that was positive or just incremented; only
\* a reset, by a request that is not itself decrementing, takes that away.
ProbeInv ==
  /\ probeInFlight \in Int /\ DOMAIN pc = Requests
  /\ probeInFlight >= 1 - Cardinality(Requests) + Cardinality(Decrementing)

LEMMA Decrementers ==
  ASSUME B!BreakerConstants
  PROVE  /\ IsFiniteSet(Decrementing)
         /\ Cardinality(Requests) \in Nat /\ Cardinality(Decrementing) \in Nat
         /\ Cardinality(Decrementing) <= Cardinality(Requests)
BY FS_Subset, FS_CardinalityType, BFinite, Zenon DEF B!BreakerConstants, Decrementing

\* Somebody who is not decrementing leaves at most the others.
LEMMA OneIsNot ==
  ASSUME B!BreakerConstants, NEW r \in Requests, r \notin Decrementing
  PROVE  Cardinality(Decrementing) <= Cardinality(Requests) - 1
<1>1. IsFiniteSet(Requests \ {r}) /\ Cardinality(Requests \ {r}) = Cardinality(Requests) - 1
  BY FS_RemoveElement, BFinite, Zenon DEF B!BreakerConstants
<1>2. Decrementing \subseteq Requests \ {r}
  BY Zenon DEF Decrementing
<1> QED BY <1>1, <1>2, FS_Subset

LEMMA ProbeInit == ASSUME B!BreakerConstants, B!Init PROVE ProbeInv
<1>1. Decrementing = {}
  BY Zenon DEF B!Init, Decrementing
<1>2. Cardinality(Requests) \in Nat \ {0}
  BY FS_EmptySet, FS_CardinalityType, BFinite DEF B!BreakerConstants
<1> QED BY <1>1, <1>2, FS_EmptySet DEF B!Init, ProbeInv

\* A step that joins or leaves the decrementing requests.
LEMMA Joins ==
  ASSUME B!BreakerConstants, NEW r \in Requests, r \notin Decrementing,
         Decrementing' = Decrementing \cup {r}
  PROVE  Cardinality(Decrementing') = Cardinality(Decrementing) + 1
BY Decrementers, FS_AddElement, Zenon

LEMMA Leaves ==
  ASSUME B!BreakerConstants, NEW r \in Requests, r \in Decrementing,
         Decrementing' = Decrementing \ {r}
  PROVE  Cardinality(Decrementing') = Cardinality(Decrementing) - 1
BY Decrementers, FS_RemoveElement, Zenon

LEMMA MoveKeeps ==
  ASSUME DOMAIN pc = Requests, NEW r \in Requests, NEW from, NEW to, B!Move(r, from, to)
  PROVE  /\ DOMAIN pc' = Requests /\ pc[r] = from /\ pc'[r] = to
         /\ \A q \in Requests \ {r} : pc'[q] = pc[q]
BY Zenon DEF B!Move

LEMMA ProbeProbeAdd ==
  ASSUME B!BreakerConstants, ProbeInv, NEW r \in Requests, B!ProbeAdd(r) PROVE ProbeInv'
<1>1. PICK to \in {"undo", "admitted"} : B!Move(r, "probe", to)
  BY Zenon DEF B!ProbeAdd
<1>2. probeInFlight' = probeInFlight + 1
  BY Zenon DEF B!ProbeAdd
<1>3. /\ DOMAIN pc' = Requests /\ pc[r] = "probe" /\ pc'[r] = to
      /\ \A q \in Requests \ {r} : pc'[q] = pc[q]
  BY <1>1, MoveKeeps, Zenon DEF ProbeInv
<1>4. CASE to = "undo"
  <2>1. r \notin Decrementing /\ Decrementing' = Decrementing \cup {r}
    BY <1>3, <1>4, Zenon DEF Decrementing
  <2>2. Cardinality(Decrementing') = Cardinality(Decrementing) + 1
    BY <2>1, Joins, Zenon
  <2>3. Cardinality(Decrementing) \in Nat /\ Cardinality(Requests) \in Nat
    BY Decrementers, Zenon
  <2> DEFINE d == Cardinality(Decrementing)
             n == Cardinality(Requests)
  <2>4. /\ d \in Nat /\ n \in Nat /\ probeInFlight \in Int
        /\ probeInFlight >= 1 - n + d
    BY <2>3, Zenon DEF ProbeInv
  <2> HIDE DEF d, n
  <2>5. probeInFlight' \in Int /\ probeInFlight' >= 1 - n + (d + 1)
    BY <1>2, <2>4
  <2> QED BY <1>3, <2>2, <2>5, Zenon DEF ProbeInv, d, n
<1>5. CASE to = "admitted"
  <2>1. Decrementing' = Decrementing
    BY <1>3, <1>5, Zenon DEF Decrementing
  <2> QED BY <1>2, <1>3, <2>1, Decrementers DEF ProbeInv
<1> QED BY <1>4, <1>5

LEMMA ProbeLeave ==
  ASSUME B!BreakerConstants, ProbeInv, NEW r \in Requests, B!ProbeUndo(r) \/ B!ReportDecrement(r)
  PROVE  ProbeInv'
<1>1. PICK from \in {"undo", "decrement"}, to \in {"refused", "addSuccess", "addProbeFail"} :
        B!Move(r, from, to)
  BY Zenon DEF B!ProbeUndo, B!ReportDecrement, B!AfterDecrement
<1>2. probeInFlight' = probeInFlight - 1
  BY DEF B!ProbeUndo, B!ReportDecrement
<1>3. /\ DOMAIN pc' = Requests /\ pc[r] = from /\ pc'[r] = to
      /\ \A q \in Requests \ {r} : pc'[q] = pc[q]
  BY <1>1, MoveKeeps, Zenon DEF ProbeInv
<1>4. r \in Decrementing /\ Decrementing' = Decrementing \ {r}
  BY <1>3, Zenon DEF Decrementing
<1>5. Cardinality(Decrementing') = Cardinality(Decrementing) - 1
  BY <1>4, Leaves, Zenon
<1>6. Cardinality(Decrementing) \in Nat /\ Cardinality(Requests) \in Nat
  BY Decrementers, Zenon
<1> DEFINE d == Cardinality(Decrementing)
           n == Cardinality(Requests)
<1>7. /\ d \in Nat /\ n \in Nat /\ probeInFlight \in Int
      /\ probeInFlight >= 1 - n + d
  BY <1>6, Zenon DEF ProbeInv
<1> HIDE DEF d, n
<1>8. probeInFlight' \in Int /\ probeInFlight' >= 1 - n + (d - 1)
  BY <1>2, <1>7
<1> QED BY <1>3, <1>5, <1>8, Zenon DEF ProbeInv, d, n

LEMMA ProbeReport ==
  ASSUME B!BreakerConstants, ProbeInv, NEW r \in Requests, B!ReportInFlight(r) PROVE ProbeInv'
<1>1. PICK to \in {"decrement", "addSuccess", "addProbeFail"} :
        B!Move(r, "inflight?", to) /\ (to = "decrement" => probeInFlight > 0)
  BY Zenon DEF B!ReportInFlight, B!AfterDecrement
<1>2. probeInFlight' = probeInFlight
  BY DEF B!ReportInFlight, B!breakerVars, B!probeVars
<1>3. /\ DOMAIN pc' = Requests /\ pc[r] = "inflight?" /\ pc'[r] = to
      /\ \A q \in Requests \ {r} : pc'[q] = pc[q]
  BY <1>1, MoveKeeps, Zenon DEF ProbeInv
<1>4. CASE to = "decrement"
  <2>1. r \notin Decrementing /\ Decrementing' = Decrementing \cup {r}
    BY <1>3, <1>4, Zenon DEF Decrementing
  <2>2. Cardinality(Decrementing') = Cardinality(Decrementing) + 1
    BY <2>1, Joins, Zenon
  <2>3. Cardinality(Decrementing) <= Cardinality(Requests) - 1
    BY <2>1, OneIsNot, Zenon
  <2>4. Cardinality(Decrementing) \in Nat /\ Cardinality(Requests) \in Nat
    BY Decrementers, Zenon
  <2> QED BY <1>1, <1>2, <1>3, <1>4, <2>2, <2>3, <2>4 DEF ProbeInv
<1>5. CASE to # "decrement"
  <2>1. Decrementing' = Decrementing
    BY <1>1, <1>3, <1>5, Zenon DEF Decrementing
  <2> QED BY <1>2, <1>3, <2>1, Zenon DEF ProbeInv
<1> QED BY <1>4, <1>5

\* Every other step of a request keeps the count, or resets it.
LEMMA ProbeOther ==
  ASSUME B!BreakerConstants, ProbeInv, NEW r \in Requests, NEW from, NEW to, B!Move(r, from, to),
         {from, to} \cap {"decrement", "undo"} = {},
         probeInFlight' = probeInFlight \/ probeInFlight' = 0
  PROVE  ProbeInv'
<1>1. /\ DOMAIN pc' = Requests /\ pc[r] = from /\ pc'[r] = to
      /\ \A q \in Requests \ {r} : pc'[q] = pc[q]
  BY MoveKeeps, Zenon DEF ProbeInv
<1>2. r \notin Decrementing /\ Decrementing' = Decrementing
  BY <1>1, Zenon DEF Decrementing
<1> QED BY <1>1, <1>2, OneIsNot, Decrementers DEF ProbeInv

LEMMA ProbeReset ==
  ASSUME B!BreakerConstants, ProbeInv, NEW r \in Requests, B!ResetProbes(r) PROVE ProbeInv'
<1>1. PICK from \in {"reset", "reset2", "reset3", "closeReset", "closeReset2", "closeReset3"},
           to \in {"reset2", "reset3", "reload", "closeReset2", "closeReset3", "reported"} :
        B!Move(r, from, to)
  BY Zenon DEF B!ResetProbes
<1>2. probeInFlight' = probeInFlight \/ probeInFlight' = 0
  BY Zenon DEF B!ResetProbes
<1> QED BY <1>1, <1>2, ProbeOther, Zenon


\* Every other step of a request only moves it.
LEMMA ProbeMoves ==
  ASSUME B!BreakerConstants, ProbeInv, NEW r \in Requests, probeInFlight' = probeInFlight,
         \E from, to \in B!Labels \ {"decrement", "undo"} : B!Move(r, from, to)
  PROVE  ProbeInv'
BY ProbeOther

LEMMA ProbeAllow ==
  ASSUME B!BreakerConstants, ProbeInv, NEW r \in Requests,
         B!AllowOpen(r) \/ B!AllowCAS(r) \/ B!AllowReload(r) \/ B!Unreported(r) \/ B!Retry(r)
  PROVE  ProbeInv'
<1>1. \E from, to \in B!Labels \ {"decrement", "undo"} : B!Move(r, from, to)
  BY Zenon DEF B!AllowOpen, B!AllowCAS, B!AllowReload, B!Unreported, B!Retry, B!Labels
<1>2. probeInFlight' = probeInFlight
  BY Zenon DEF B!AllowOpen, B!AllowCAS, B!AllowReload, B!Unreported, B!Retry, B!breakerVars, B!probeVars
<1> QED BY <1>1, <1>2, ProbeMoves, Zenon

LEMMA ProbeLoad ==
  ASSUME B!BreakerConstants, ProbeInv, state \in {"closed", "open", "half"}, NEW r \in Requests,
         \/ B!AllowLoad(r) \/ B!Attempt(r, TRUE) \/ B!Attempt(r, FALSE)
  PROVE  ProbeInv'
<1>1. \E from, to \in B!Labels \ {"decrement", "undo"} : B!Move(r, from, to)
  BY DEF B!AllowLoad, B!Free, B!Attempt, B!Labels
<1>2. probeInFlight' = probeInFlight
  BY DEF B!AllowLoad, B!Attempt, B!breakerVars, B!probeVars
<1> QED BY <1>1, <1>2, ProbeMoves, Zenon

LEMMA ProbeWindow ==
  ASSUME B!BreakerConstants, ProbeInv, NEW r \in Requests,
         \/ B!RotateWindow(r) \/ B!ZeroReq(r) \/ B!ZeroFail(r) \/ B!AddReq(r) \/ B!AddFail(r)
         \/ B!MaybeOpenReq(r) \/ B!MaybeOpenFail(r) \/ B!OpenUntil(r) \/ B!OpenState(r)
  PROVE  ProbeInv'
<1>1. \E from, to \in B!Labels \ {"decrement", "undo"} : B!Move(r, from, to)
  BY DEF B!RotateWindow, B!ZeroReq, B!ZeroFail, B!AddReq, B!AddFail, B!MaybeOpenReq,
         B!MaybeOpenFail,
         B!OpenUntil, B!OpenState, B!Labels
<1>2. probeInFlight' = probeInFlight
  BY Zenon DEF B!RotateWindow, B!ZeroReq, B!ZeroFail, B!AddReq, B!AddFail, B!MaybeOpenReq,
         B!MaybeOpenFail,
         B!OpenUntil, B!OpenState, B!breakerVars, B!probeVars
<1> QED BY <1>1, <1>2, ProbeMoves, Zenon

LEMMA ProbeOutcome ==
  ASSUME B!BreakerConstants, ProbeInv, NEW r \in Requests,
         \/ B!AddProbeFail(r) \/ B!AddProbeSuccess(r) \/ B!NoProbeFailed(r) \/ B!EnoughProbes(r)
         \/ B!CloseState(r) \/ B!CloseWindow(r)
  PROVE  ProbeInv'
<1>1. \E from, to \in B!Labels \ {"decrement", "undo"} : B!Move(r, from, to)
  BY Zenon DEF B!AddProbeFail, B!AddProbeSuccess, B!NoProbeFailed, B!EnoughProbes, B!CloseState,
         B!CloseWindow,
         B!Labels
<1>2. probeInFlight' = probeInFlight
  BY Zenon DEF B!AddProbeFail, B!AddProbeSuccess, B!NoProbeFailed, B!EnoughProbes, B!CloseState,
         B!CloseWindow,
         B!breakerVars, B!probeVars
<1> QED BY <1>1, <1>2, ProbeMoves, Zenon

LEMMA ProbeClock ==
  ASSUME B!BreakerConstants, ProbeInv, B!OpenExpires \/ B!WindowPasses \/ B!Reap \/ UNCHANGED B!vars
  PROVE  ProbeInv'
<1>1. CASE B!Reap
  <2>1. Decrementing' = {}
    BY <1>1, Zenon DEF B!Reap, B!Free, Decrementing
  <2>2. Cardinality(Requests) \in Nat \ {0}
    BY FS_EmptySet, FS_CardinalityType, BFinite, Zenon DEF B!BreakerConstants
  <2> QED BY <1>1, <2>1, <2>2, FS_EmptySet DEF B!Reap, ProbeInv
<1>2. CASE B!OpenExpires \/ B!WindowPasses \/ UNCHANGED B!vars
  BY <1>2, Zenon DEF B!OpenExpires, B!WindowPasses, B!vars, B!breakerVars, B!probeVars, ProbeInv,
              Decrementing
<1> QED BY <1>1, <1>2

StateOK == state \in {"closed", "open", "half"}

LEMMA StateNext ==
  ASSUME StateOK, [B!Next]_B!vars PROVE StateOK'
<1>1. ASSUME NEW r, B!AllowLoad(r) \/ B!Allow(r) \/ B!ResetProbes(r) PROVE StateOK'
  BY <1>1, Zenon DEF StateOK, B!AllowLoad, B!Allow, B!AllowOpen, B!AllowCAS, B!AllowReload, B!ProbeAdd,
              B!ProbeUndo,
              B!ResetProbes, B!breakerVars
<1>2. ASSUME NEW r, B!Attempt(r, TRUE) \/ B!Attempt(r, FALSE) \/ B!Unreported(r) \/ B!Retry(r) PROVE StateOK'
  BY <1>2, Zenon DEF StateOK, B!Attempt, B!Unreported, B!Retry, B!breakerVars
<1>3. ASSUME NEW r, B!Report(r) PROVE StateOK'
  BY <1>3, Zenon DEF StateOK, B!Report, B!RotateWindow, B!ZeroReq, B!ZeroFail, B!AddReq, B!AddFail,
              B!MaybeOpenReq,
              B!MaybeOpenFail, B!OpenUntil, B!OpenState, B!ReportInFlight, B!ReportDecrement,
              B!AddProbeFail,
              B!AddProbeSuccess, B!NoProbeFailed, B!EnoughProbes, B!CloseState, B!CloseWindow,
              B!breakerVars
<1>4. CASE B!OpenExpires \/ B!WindowPasses \/ B!Reap \/ UNCHANGED B!vars
  BY <1>4, Zenon DEF StateOK, B!OpenExpires, B!WindowPasses, B!Reap, B!vars, B!breakerVars
<1> QED BY <1>1, <1>2, <1>3, <1>4, Zenon DEF B!Next, B!Proceed

LEMMA ProbeNext ==
  ASSUME B!BreakerConstants, StateOK, ProbeInv, [B!Next]_B!vars PROVE ProbeInv'
<1>1. ASSUME NEW r \in Requests, B!AllowLoad(r) \/ B!Proceed(r) PROVE ProbeInv'
  BY <1>1, ProbeProbeAdd, ProbeLeave, ProbeReport, ProbeReset, ProbeAllow, ProbeLoad, ProbeWindow,
     ProbeOutcome, Zenon DEF StateOK, B!Proceed, B!Allow, B!Report
<1> QED BY <1>1, ProbeClock, Zenon DEF B!Next

\* ProbeDeficitBounded, for any set of requests: however resetProbes, Allow and
\* Report race on probeInFlight, it falls below zero by less than the number of
\* requests, which bounds the probes admitted beyond HalfOpenMaxProbes.
THEOREM DeficitBounded == ASSUME B!BreakerConstants PROVE B!Spec => []B!ProbeDeficitBounded
<1>1. B!Init => StateOK /\ ProbeInv
  BY ProbeInit, Zenon DEF B!Init, StateOK
<1>2. StateOK /\ ProbeInv /\ [B!Next]_B!vars => StateOK' /\ ProbeInv'
  BY StateNext, ProbeNext, Zenon
<1>3. ProbeInv => B!ProbeDeficitBounded
  BY Decrementers, BCardinality DEF ProbeInv, B!ProbeDeficitBounded
<1> QED BY <1>1, <1>2, <1>3, PTL DEF B!Spec
=============================================================================
