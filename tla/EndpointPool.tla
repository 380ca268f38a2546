---------------------------- MODULE EndpointPool ----------------------------
(***************************************************************************)
(* One upstream pool: pool.PoolRuntime and its EndpointRuntimes            *)
(* (internal/pool/pool.go), reached through registry.Registry              *)
(* (internal/registry/registry.go) by the attempts of proxy/engine.go, by  *)
(* config applies (Reconcile), by the reap loop and by the active probes   *)
(* (internal/health/active.go).                                            *)
(*                                                                         *)
(* PoolRuntime.mu guards the map and the order; the fields of a runtime    *)
(* are atomics that requests and probes use without it, so each of their   *)
(* accesses that can matter is a step.  A runtime is an identity: after an *)
(* address is reaped and configured again it has a new one.  The clock is  *)
(* abstracted to a drain deadline that has or has not expired; how long an *)
(* ejection lasts is a choice of Pick's.                                   *)
(***************************************************************************)
EXTENDS Integers, FiniteSets

CONSTANTS
  Addrs, Requests, None,
  Configs,           \* the endpoint lists that configurations give this pool
  Runtimes,          \* bounds the runtimes that exist at a time
  UnhealthyAfter,    \* cfg.UnhealthyAfterFailures
  HealthyAfter,      \* cfg.HealthyAfterSuccesses
  Active             \* cfg.Interval > 0: there are active probes

ASSUME PoolAssumption ==
  /\ None \notin Runtimes \cup Addrs /\ IsFiniteSet(Requests)
  /\ Configs \subseteq (SUBSET Addrs) \ {{}}
  /\ UnhealthyAfter \in Nat \ {0} /\ HealthyAfter \in Nat \ {0} /\ Active \in BOOLEAN

VARIABLES
  endpoints,         \* PoolRuntime.endpoints
  order,             \* PoolRuntime.order, the configured addresses
  state, inflight, expired, activeFails, activeOks, passiveFails, probing,
  todo, restoring,   \* Reconcile: the addresses left, the one Restore found draining
  probe,             \* the probe of each runtime
  pc,
  list,              \* Pick: the runtimes copied under the lock
  picked, ref,       \* the address picked, the runtime last looked up for it
  responded,         \* the attempt got a response
  sick               \* upstreams may fail

health == <<state, activeFails, activeOks, passiveFails>>
locals == <<list, picked, ref, responded>>
reconcile == <<order, todo, restoring>>
vars == <<endpoints, reconcile, health, inflight, expired, probing, probe, pc, locals, sick>>

Present == {a \in Addrs : endpoints[a] # None}
Unlocked == todo = {} /\ restoring = None

\* A runtime nothing points to: a new one may take its name.
Referenced(e) ==
  \/ \E r \in Requests : ref[r] = e \/ \E p \in list[r] : p.runtime = e
  \/ probe[e] # "idle"

Free(e) == ~Referenced(e) /\ \A a \in Addrs : endpoints[a] # e

\* The ways to give new addresses a runtime of their own each.
NewRuntimes(new) ==
  {f \in [new -> {e \in Runtimes : Free(e)}] : \A a, b \in new : f[a] = f[b] => a = b}

ZeroAt(f, S) == [e \in Runtimes |-> IF e \in S THEN 0 ELSE f[e]]

Goto(r, label) == pc' = [pc EXCEPT ![r] = label]
GotoProbe(e, label) == probe' = [probe EXCEPT ![e] = label]

Init ==
  /\ endpoints = [a \in Addrs |-> None] /\ order = {} /\ todo = {} /\ restoring = None
  /\ state = [e \in Runtimes |-> "healthy"]
  /\ inflight = [e \in Runtimes |-> 0]
  /\ expired = [e \in Runtimes |-> FALSE]
  /\ activeFails = [e \in Runtimes |-> 0]
  /\ activeOks = [e \in Runtimes |-> 0]
  /\ passiveFails = [e \in Runtimes |-> 0]
  /\ probing = [e \in Runtimes |-> FALSE]
  /\ probe = [e \in Runtimes |-> "idle"]
  /\ pc = [r \in Requests |-> "idle"]
  /\ list = [r \in Requests |-> {}]
  /\ picked = [r \in Requests |-> None]
  /\ ref = [r \in Requests |-> None]
  /\ responded = [r \in Requests |-> FALSE]
  /\ sick = TRUE

-----------------------------------------------------------------------------
(* Reconcile, under the pool's mutex: order is replaced at once, then each  *)
(* address is created, updated and restored, or marked draining.            *)
\* The new runtimes are made at once: nobody sees one before the lock is
\* released, and which of the unused names they get makes no difference.
ReconcileBegin(desired) ==
  LET added == desired \ Present
      new == CHOOSE f \in NewRuntimes(added) : TRUE
      made == {new[a] : a \in added}
  IN
  /\ Unlocked /\ desired \in Configs /\ NewRuntimes(added) # {}
  /\ endpoints' = [a \in Addrs |-> IF a \in added THEN new[a] ELSE endpoints[a]]
  /\ state' = [e \in Runtimes |-> IF e \in made THEN "healthy" ELSE state[e]]
  /\ expired' = [e \in Runtimes |-> expired[e] /\ e \notin made]
  /\ probing' = [e \in Runtimes |-> IF e \in made THEN Active ELSE probing[e]]
  /\ activeFails' = ZeroAt(activeFails, made)
  /\ activeOks' = ZeroAt(activeOks, made)
  /\ passiveFails' = ZeroAt(passiveFails, made)
  /\ inflight' = ZeroAt(inflight, made)
  /\ order' = desired
  /\ todo' = Present
  /\ UNCHANGED <<restoring, probe, pc, locals, sick>>

\* The configured addresses come first, in the order of their list.
Turn(a) ==
  /\ restoring = None /\ a \in todo
  /\ IF a \in order THEN a = CHOOSE x \in todo \cap order : TRUE ELSE todo \cap order = {}

\* Mutant of Update: an address that comes back is not restored.
UpdateNoRestore(a) ==
  /\ Turn(a) /\ a \in order
  /\ probing' = [probing EXCEPT ![endpoints[a]] = Active]
  /\ todo' = todo \ {a}
  /\ UNCHANGED <<endpoints, order, restoring, health, inflight, expired, probe, pc, locals, sick>>

\* UpdateConfig restarts the probes; Restore loads the state.
Update(a) ==
  /\ Turn(a) /\ a \in order
  /\ probing' = [probing EXCEPT ![endpoints[a]] = Active]
  /\ restoring' = IF state[endpoints[a]] = "draining" THEN a ELSE None
  /\ todo' = todo \ {a}
  /\ UNCHANGED <<endpoints, order, health, inflight, expired, probe, pc, locals, sick>>

Restore ==
  /\ restoring # None
  /\ state' = [state EXCEPT ![endpoints[restoring]] = "healthy"]
  /\ expired' = [expired EXCEPT ![endpoints[restoring]] = FALSE]
  /\ restoring' = None
  /\ UNCHANGED <<endpoints, order, todo, inflight, activeFails, activeOks, passiveFails,
                 probing, probe, pc, locals, sick>>

MarkDraining(a) ==
  /\ Turn(a) /\ a \notin order
  /\ IF state[endpoints[a]] = "draining"
     THEN UNCHANGED <<state, expired, probing>>
     ELSE /\ state' = [state EXCEPT ![endpoints[a]] = "draining"]
          /\ expired' = [expired EXCEPT ![endpoints[a]] = FALSE]
          /\ probing' = [probing EXCEPT ![endpoints[a]] = FALSE]
  /\ todo' = todo \ {a}
  /\ UNCHANGED <<endpoints, order, restoring, inflight, activeFails, activeOks,
                 passiveFails, probe, pc, locals, sick>>

Reapable(e) == state[e] = "draining" /\ expired[e] /\ inflight[e] = 0

\* Registry.reapOnce and PoolRuntime.Reap.
Reap ==
  LET gone == {a \in Present : Reapable(endpoints[a])}
      forgotten == {e \in Runtimes : (\E a \in gone : endpoints[a] = e) /\ ~Referenced(e)}
  IN
  /\ Unlocked /\ gone # {}
  /\ probing' = [e \in Runtimes |-> probing[e] /\ \A a \in gone : endpoints[a] # e]
  /\ endpoints' = [a \in Addrs |-> IF a \in gone THEN None ELSE endpoints[a]]
  /\ state' = [e \in Runtimes |-> IF e \in forgotten THEN "healthy" ELSE state[e]]
  /\ expired' = [e \in Runtimes |-> expired[e] /\ e \notin forgotten]
  /\ UNCHANGED <<reconcile, activeFails, activeOks, passiveFails, inflight, probe, pc, locals, sick>>

DrainTimeout(e) ==
  /\ state[e] = "draining" /\ ~expired[e]
  /\ expired' = [expired EXCEPT ![e] = TRUE]
  /\ UNCHANGED <<endpoints, reconcile, health, inflight, probing, probe, pc, locals, sick>>

\* The upstreams stop failing for good.
Heal ==
  /\ sick /\ sick' = FALSE
  /\ UNCHANGED <<endpoints, reconcile, health, inflight, expired, probing, probe, pc, locals>>

-----------------------------------------------------------------------------

\* A counter is compared with its threshold only after it was incremented, so
\* it can stop one below.
Counted(count, threshold) == IF count + 1 < threshold THEN count + 1 ELSE threshold - 1

(* Active probes: RecordActiveSuccess and RecordActiveFailure return if the *)
(* runtime drains, else count, which only the runtime's own probe does, and *)
(* at the threshold store the new state.                                    *)
ProbeStart(e) ==
  /\ probing[e] /\ probe[e] = "idle"
  /\ GotoProbe(e, "sent")
  /\ UNCHANGED <<endpoints, reconcile, health, inflight, expired, probing, pc, locals, sick>>

RecordActiveSuccess(e) ==
  /\ probe[e] = "sent"
  /\ IF state[e] = "draining"
     THEN GotoProbe(e, "idle") /\ UNCHANGED <<activeOks, activeFails>>
     ELSE /\ activeOks' = [activeOks EXCEPT ![e] = Counted(@, HealthyAfter)]
          /\ activeFails' = [activeFails EXCEPT ![e] = 0]
          /\ GotoProbe(e, IF activeOks[e] + 1 >= HealthyAfter THEN "markHealthy" ELSE "idle")
  /\ UNCHANGED <<endpoints, reconcile, state, passiveFails, inflight, expired, probing, pc, locals,
                 sick>>

RecordActiveFailure(e) ==
  /\ probe[e] = "sent" /\ sick
  /\ IF state[e] = "draining"
     THEN GotoProbe(e, "idle") /\ UNCHANGED <<activeOks, activeFails>>
     ELSE /\ activeFails' = [activeFails EXCEPT ![e] = Counted(@, UnhealthyAfter)]
          /\ activeOks' = [activeOks EXCEPT ![e] = 0]
          /\ GotoProbe(e, IF activeFails[e] + 1 >= UnhealthyAfter THEN "eject" ELSE "idle")
  /\ UNCHANGED <<endpoints, reconcile, state, passiveFails, inflight, expired, probing, pc, locals,
                 sick>>

\* Mutant of ProbeMarkHealthy: markHealthy clears the counters and not the state.
ProbeMarkNothing(e) ==
  /\ probe[e] = "markHealthy"
  /\ passiveFails' = [passiveFails EXCEPT ![e] = 0]
  /\ activeFails' = [activeFails EXCEPT ![e] = 0]
  /\ GotoProbe(e, "idle")
  /\ UNCHANGED <<endpoints, reconcile, state, activeOks, inflight, expired, probing, pc, locals, sick>>

\* (A failure that is counted between the stores might as well come first.)
ProbeMarkHealthy(e) ==
  /\ probe[e] = "markHealthy"
  /\ state' = [state EXCEPT ![e] = "healthy"]
  /\ passiveFails' = [passiveFails EXCEPT ![e] = 0]
  /\ activeFails' = [activeFails EXCEPT ![e] = 0]
  /\ GotoProbe(e, "idle")
  /\ UNCHANGED <<endpoints, reconcile, activeOks, inflight, expired, probing, pc, locals, sick>>

ProbeEject(e) ==
  /\ probe[e] = "eject"
  /\ state' = [state EXCEPT ![e] = "unhealthy"]
  /\ GotoProbe(e, "idle")
  /\ UNCHANGED <<endpoints, reconcile, activeFails, activeOks, passiveFails, inflight, expired,
                 probing, pc, locals, sick>>

Probe(e) ==
  \/ ProbeStart(e) \/ RecordActiveSuccess(e) \/ RecordActiveFailure(e)
  \/ ProbeMarkHealthy(e) \/ ProbeEject(e)

-----------------------------------------------------------------------------
(* An attempt.  Pick copies the runtimes under the read lock and judges     *)
(* them without it; an ejection that has not ended, of this pool's own or   *)
(* of the outlier registry, may exclude any of them.                        *)
PickList(r) ==
  LET configured == order \cap Present
      from == IF configured # {} THEN configured ELSE Present
  IN
  /\ pc[r] = "idle" /\ Unlocked /\ Present # {}
  /\ list' = [list EXCEPT ![r] = {[addr |-> a, runtime |-> endpoints[a]] : a \in from}]
  /\ Goto(r, "choose")
  /\ UNCHANGED <<endpoints, reconcile, health, inflight, expired, probing, probe, picked, ref,
                 responded, sick>>

Candidates(r, excluded) ==
  LET nonDraining == {p \in list[r] : state[p.runtime] # "draining"}
      eligible == {p \in list[r] \ excluded : state[p.runtime] = "healthy"}
  IN IF eligible # {} THEN eligible ELSE IF nonDraining # {} THEN nonDraining ELSE list[r]

PickChoose(r) ==
  /\ pc[r] = "choose"
  /\ \E excluded \in SUBSET list[r] : \E p \in Candidates(r, excluded) :
       picked' = [picked EXCEPT ![r] = p.addr]
  /\ list' = [list EXCEPT ![r] = {}]
  /\ Goto(r, "incLookup")
  /\ UNCHANGED <<endpoints, reconcile, health, inflight, expired, probing, probe, ref, responded,
                 sick>>

\* registry.endpoint, under the read locks.
Lookup(r, found, missing) ==
  /\ Unlocked
  /\ ref' = [ref EXCEPT ![r] = endpoints[picked[r]]]
  /\ Goto(r, IF endpoints[picked[r]] = None THEN missing ELSE found)
  /\ UNCHANGED <<endpoints, reconcile, health, inflight, expired, probing, probe, list, picked, sick>>

InflightStart(r) ==
  /\ pc[r] = "incLookup"
  /\ Lookup(r, "incAdd", "upstream")
  /\ UNCHANGED responded

InflightInc(r) ==
  /\ pc[r] = "incAdd"
  /\ inflight' = [inflight EXCEPT ![ref[r]] = @ + 1]
  /\ ref' = [ref EXCEPT ![r] = None]
  /\ Goto(r, "upstream")
  /\ UNCHANGED <<endpoints, reconcile, health, expired, probing, probe, list, picked, responded,
                 sick>>

\* The round trip ends with a dial error or a timeout.  passiveFailure looks
\* the runtime up and returns if there is none or it drains.
PassiveFailure(r) ==
  LET e == endpoints[picked[r]] IN
  /\ pc[r] = "upstream" /\ sick /\ Unlocked
  /\ IF e = None \/ (e # None /\ state[e] = "draining")
     THEN Goto(r, "decLookup") /\ UNCHANGED ref
     ELSE Goto(r, "failAdd") /\ ref' = [ref EXCEPT ![r] = e]
  /\ UNCHANGED <<endpoints, reconcile, health, inflight, expired, probing, probe, list, picked,
                 responded, sick>>

RecordPassiveFailure(r) ==
  /\ pc[r] = "failAdd"
  /\ passiveFails' = [passiveFails EXCEPT ![ref[r]] = Counted(@, UnhealthyAfter)]
  /\ Goto(r, IF passiveFails[ref[r]] + 1 >= UnhealthyAfter THEN "eject" ELSE "decLookup")
  /\ UNCHANGED <<endpoints, reconcile, state, activeFails, activeOks, inflight, expired,
                 probing, probe, locals, sick>>

Eject(r) ==
  /\ pc[r] = "eject"
  /\ state' = [state EXCEPT ![ref[r]] = "unhealthy"]
  /\ ref' = [ref EXCEPT ![r] = None]
  /\ Goto(r, "decLookup")
  /\ UNCHANGED <<endpoints, reconcile, activeFails, activeOks, passiveFails, inflight, expired,
                 probing, probe, list, picked, responded, sick>>

\* The round trip ends with a response or with another error, which is not
\* counted, or the failure has been.
InflightDone(r, response) ==
  /\ \/ pc[r] = "upstream" /\ (response \/ sick)
     \/ pc[r] = "decLookup" /\ ~response
  /\ responded' = [responded EXCEPT ![r] = response]
  /\ Lookup(r, "decAdd", "passiveOk")

\* Mutant of InflightDec: an attempt that failed is not counted out.
InflightDecOnResponse(r) ==
  /\ pc[r] = "decAdd"
  /\ inflight' = IF responded[r] THEN [inflight EXCEPT ![ref[r]] = @ - 1] ELSE inflight
  /\ ref' = [ref EXCEPT ![r] = None]
  /\ Goto(r, "passiveOk")
  /\ UNCHANGED <<endpoints, reconcile, health, expired, probing, probe, list, picked, responded,
                 sick>>

InflightDec(r) ==
  /\ pc[r] = "decAdd"
  /\ inflight' = [inflight EXCEPT ![ref[r]] = @ - 1]
  /\ ref' = [ref EXCEPT ![r] = None]
  /\ Goto(r, "passiveOk")
  /\ UNCHANGED <<endpoints, reconcile, health, expired, probing, probe, list, picked, responded,
                 sick>>

\* passiveSuccess, after an attempt that had a response.
PassiveSuccess(r) ==
  LET e == endpoints[picked[r]] IN
  /\ pc[r] = "passiveOk" /\ Unlocked
  /\ passiveFails' = IF responded[r] /\ e # None THEN [passiveFails EXCEPT ![e] = 0] ELSE passiveFails
  /\ picked' = [picked EXCEPT ![r] = None]
  /\ responded' = [responded EXCEPT ![r] = FALSE]
  /\ Goto(r, "idle")
  /\ UNCHANGED <<endpoints, reconcile, state, activeFails, activeOks, inflight, expired,
                 probing, probe, list, ref, sick>>

Attempt(r) ==
  \/ PickChoose(r) \/ InflightStart(r) \/ InflightInc(r)
  \/ PassiveFailure(r) \/ RecordPassiveFailure(r) \/ Eject(r)
  \/ (\E response \in BOOLEAN : InflightDone(r, response))
  \/ InflightDec(r) \/ PassiveSuccess(r)

ReconcileStep ==
  \/ \E a \in Addrs : Update(a) \/ MarkDraining(a)
  \/ Restore

Next ==
  \/ \E desired \in Configs : ReconcileBegin(desired)
  \/ ReconcileStep \/ Reap \/ Heal
  \/ \E e \in Runtimes : DrainTimeout(e) \/ Probe(e)
  \/ \E r \in Requests : PickList(r) \/ Attempt(r)

Spec == Init /\ [][Next]_vars

(* The reap loop, the probe loops and the goroutines of requests run; the   *)
(* steps that take the mutex are strongly fair, since a Go mutex that has   *)
(* been waited for is handed over.  Drain deadlines pass.                   *)
FairSpec ==
  /\ Spec
  /\ WF_vars(ReconcileStep) /\ SF_vars(Reap)
  /\ \A e \in Runtimes : WF_vars(DrainTimeout(e)) /\ WF_vars(Probe(e))
  /\ \A r \in Requests : SF_vars(Attempt(r))

-----------------------------------------------------------------------------
States == {"healthy", "unhealthy", "draining"}
Probes == {"idle", "sent", "markHealthy", "eject"}
Labels == {"idle", "choose", "incLookup", "incAdd", "upstream", "failAdd",
           "eject", "decLookup", "decAdd", "passiveOk"}

\* Types.  Nothing bounds inflight from below.
TypeOK ==
  /\ endpoints \in [Addrs -> Runtimes \cup {None}] /\ order \subseteq Addrs
  /\ todo \subseteq Addrs /\ restoring \in Addrs \cup {None}
  /\ state \in [Runtimes -> States] /\ inflight \in [Runtimes -> Int]
  /\ probing \in [Runtimes -> BOOLEAN]
  /\ expired \in [Runtimes -> BOOLEAN]
  /\ activeFails \in [Runtimes -> 0..UnhealthyAfter - 1]
  /\ activeOks \in [Runtimes -> 0..HealthyAfter - 1]
  /\ passiveFails \in [Runtimes -> 0..UnhealthyAfter - 1]
  /\ probe \in [Runtimes -> Probes] /\ pc \in [Requests -> Labels]
  /\ list \in [Requests -> SUBSET [addr : Addrs, runtime : Runtimes]]
  /\ picked \in [Requests -> Addrs \cup {None}] /\ ref \in [Requests -> Runtimes \cup {None}]
  /\ responded \in [Requests -> BOOLEAN] /\ sick \in BOOLEAN

\* Reconcile, Reap: a configured address has a runtime that is not draining,
\* so that Pick always has an endpoint to offer and the reaper never takes a
\* configured one, whatever probes and requests store meanwhile.
ConfiguredServes ==
  Unlocked => \A a \in order : endpoints[a] # None /\ state[endpoints[a]] # "draining"

AttemptsOn(a) ==
  {r \in Requests : picked[r] = a /\ pc[r] \notin {"incLookup", "incAdd", "passiveOk"}}

\* InflightStart, InflightDone: the two look the address up separately, and
\* the runtime may have been replaced between them.  The count of a runtime
\* in the pool may then be too low, but it never exceeds the attempts that
\* are running against its address: no count is leaked that would keep an
\* idle endpoint from being reaped for ever.
InflightNeverOver ==
  \A a \in Present : inflight[endpoints[a]] <= Cardinality(AttemptsOn(a))

\* RecordActiveSuccess, Update: once the upstreams answer, every configured
\* endpoint becomes healthy and stays so, whatever failures recorded late and
\* reconfigurations still happen (observed outside Reconcile's lock).
Recovers ==
  <>~sick => <>[](Unlocked => \A a \in order : endpoints[a] # None /\ state[endpoints[a]] = "healthy")

\* internal/integration/endpoint_removal_test.go: an endpoint that left the
\* configuration is removed once its requests are over.
RemovedIsReaped == \A a \in Addrs : a \notin order ~> (a \in order \/ endpoints[a] = None)
=============================================================================
