----------------------------- MODULE TrafficPlan -----------------------------
(***************************************************************************)
(* The traffic plan of one route: the registry that keeps it across config *)
(* applies (internal/traffic/traffic.go), the auto-drain controller it     *)
(* runs (internal/traffic/stats.go), the snapshot build that asks for it   *)
(* (runtime/snapshot.go) and the requests that use it (proxy/handler.go).  *)
(*                                                                         *)
(* Every enabled configuration has auto-drain on; the canary fails every   *)
(* request and the stable pool none.  The requests are the ones the split  *)
(* sends to the canary while its weight is not zeroed.  The sliding window *)
(* of counters is abstracted to whether a plan has enough evidence against *)
(* its canary or not.  The window has at least two buckets and the         *)
(* controller's ticker fires once per bucket, so a running controller      *)
(* looks at evidence before it ages out.  The clocks are flags: drained    *)
(* plans are the ones whose drainedUntil is in the future, entry.old says  *)
(* that the entry's lastSeen is more than the registry's TTL ago.          *)
(***************************************************************************)
EXTENDS Integers, FiniteSets

CONSTANTS
  Appliers,    \* goroutines that build and publish snapshots
  Requests,    \* goroutines, each serving one request after another
  Configs,     \* enabled traffic configurations of the route
  Unbuildable, \* those whose cohort key buildPlan refuses
  Off,         \* the route without traffic management
  None,        \* no plan, no entry
  Plans,       \* plan objects
  MaxApplies   \* applies (a bound)

TrafficPlanConstants ==
  /\ IsFiniteSet(Plans) /\ IsFiniteSet(Appliers) /\ IsFiniteSet(Requests)
  /\ Cardinality(Plans) >= 2 + Cardinality(Appliers) + Cardinality(Requests)
  /\ Unbuildable \subseteq Configs /\ Off \notin Configs /\ None \notin Plans
  /\ None \notin [config : Configs, plan : Plans, old : BOOLEAN]
  /\ MaxApplies \in Nat

ASSUME TrafficPlanAssumption == TrafficPlanConstants

VARIABLES
  entry,     \* routes[routeID]: [config, plan, old], or None
  running,   \* plans whose controller loop runs
  drained,   \* plans whose auto-drain is active
  evidence,  \* plans whose window holds enough canary errors
  ended,     \* history: plans that were reaped, or replaced by another configuration's
  live,      \* what the published snapshot carries: [config, plan]
  apc, built,  \* per applier: control point, [config, plan] it is building
  rpc, held,   \* per request: control point, the plan it was routed with
  applies      \* applies started

planVars == <<running, drained, evidence, ended>>
applierVars == <<apc, built, applies>>
requestVars == <<rpc, held>>
vars == <<entry, planVars, live, applierVars, requestVars>>

Disabled == [config |-> Off, plan |-> None]

Init ==
  /\ entry = None /\ running = {} /\ drained = {} /\ evidence = {} /\ ended = {}
  /\ live = Disabled
  /\ apc = [a \in Appliers |-> "idle"] /\ built = [a \in Appliers |-> Disabled]
  /\ rpc = [r \in Requests |-> "idle"] /\ held = [r \in Requests |-> None]
  /\ applies = 0

Listed == IF entry = None THEN None ELSE entry.plan

\* A plan object nobody refers to: what buildPlan returns.
Fresh ==
  Plans \ ({Listed, live.plan} \cup {built[a].plan : a \in Appliers}
                               \cup {held[r] : r \in Requests})

-----------------------------------------------------------------------------
(* The build: Registry.Plan, under the registry's mutex, then the rest.    *)

StartApply(a) ==
  /\ apc[a] = "idle" /\ applies < MaxApplies
  /\ \E c \in Configs \cup {Off} : built' = [built EXCEPT ![a] = [config |-> c, plan |-> None]]
  /\ apc' = [apc EXCEPT ![a] = "plan"] /\ applies' = applies + 1
  /\ UNCHANGED <<entry, planVars, live, requestVars>>

\* A route without traffic management does not ask the registry.
SkipPlan(a) ==
  /\ apc[a] = "plan" /\ built[a].config = Off
  /\ apc' = [apc EXCEPT ![a] = "publish"]
  /\ UNCHANGED <<entry, planVars, live, built, applies, requestVars>>

\* Mutant of SameConfig: every build makes a new plan.
NeverSame(a) == FALSE

SameConfig(a) == entry # None /\ entry.config = built[a].config

\* The configuration is unchanged: the plan, its statistics and its drain stay.
KeepPlan(a) ==
  /\ apc[a] = "plan" /\ built[a].config # Off /\ SameConfig(a)
  /\ entry' = [entry EXCEPT !.old = FALSE]
  /\ built' = [built EXCEPT ![a].plan = entry.plan]
  /\ apc' = [apc EXCEPT ![a] = "publish"]
  /\ UNCHANGED <<planVars, live, applies, requestVars>>

\* Mutant of Stopped: the controller of the replaced plan goes on.
StoppedNever(plans) == running

\* Plan.Stop of the given plans: their controllers' loops end.
Stopped(plans) == running \ plans

NewPlan(a) ==
  /\ apc[a] = "plan" /\ built[a].config \in Configs \ Unbuildable /\ ~SameConfig(a)
  /\ \E p \in Fresh :
       /\ entry' = [config |-> built[a].config, plan |-> p, old |-> FALSE]
       /\ built' = [built EXCEPT ![a].plan = p]
       /\ running' = Stopped({Listed}) \cup {p}
       /\ drained' = drained \ {p} /\ evidence' = evidence \ {p}
       /\ ended' = (ended \ {p}) \cup
                     {q \in {Listed} \ {None} : entry.config # built[a].config}
  /\ apc' = [apc EXCEPT ![a] = "publish"]
  /\ UNCHANGED <<live, applies, requestVars>>

\* buildPlan fails after the current plan was stopped; the entry stays.
PlanFails(a) ==
  /\ apc[a] = "plan" /\ built[a].config \in Unbuildable /\ ~SameConfig(a)
  /\ running' = Stopped({Listed})
  /\ apc' = [apc EXCEPT ![a] = "idle"]
  /\ built' = [built EXCEPT ![a] = Disabled]
  /\ UNCHANGED <<entry, drained, evidence, ended, live, applies, requestVars>>

\* The rest of the build succeeds and the snapshot is published ...
PublishPlan(a) ==
  /\ apc[a] = "publish"
  /\ live' = built[a]
  /\ apc' = [apc EXCEPT ![a] = "idle"] /\ built' = [built EXCEPT ![a] = Disabled]
  /\ UNCHANGED <<entry, planVars, applies, requestVars>>

\* ... or a later route, the TLS section or the time limit refuses it.
RejectPlan(a) ==
  /\ apc[a] = "publish"
  /\ apc' = [apc EXCEPT ![a] = "idle"] /\ built' = [built EXCEPT ![a] = Disabled]
  /\ UNCHANGED <<entry, planVars, live, applies, requestVars>>

Apply(a) ==
  SkipPlan(a) \/ KeepPlan(a) \/ NewPlan(a) \/ PlanFails(a) \/ PublishPlan(a) \/ RejectPlan(a)

-----------------------------------------------------------------------------
(* The reaper: lastSeen is only renewed by Registry.Plan.                  *)

Expire ==
  /\ entry # None /\ ~entry.old
  /\ entry' = [entry EXCEPT !.old = TRUE]
  /\ UNCHANGED <<planVars, live, applierVars, requestVars>>

ReapOnce ==
  /\ entry # None /\ entry.old
  /\ entry' = None
  /\ running' = Stopped({entry.plan}) /\ ended' = ended \cup {entry.plan}
  /\ UNCHANGED <<drained, evidence, live, applierVars, requestVars>>

-----------------------------------------------------------------------------
(* Requests and the controller.                                            *)

\* The request reads the plan of its snapshot.
Route(r) ==
  /\ rpc[r] = "idle"
  /\ rpc' = [rpc EXCEPT ![r] = "pick"] /\ held' = [held EXCEPT ![r] = live.plan]
  /\ UNCHANGED <<entry, planVars, live, applierVars>>

\* An active drain zeroes the canary's weight: the request goes to the stable
\* pool, as it does without a plan.
PickVariant(r) ==
  /\ rpc[r] = "pick"
  /\ rpc' = [rpc EXCEPT ![r] = IF held[r] \in drained \cup {None} THEN "stable" ELSE "canary"]
  /\ UNCHANGED <<entry, planVars, live, applierVars, held>>

\* The deferred function of ServeHTTP records the outcome in the plan's window.
RecordOutcome(r) ==
  /\ rpc[r] \in {"stable", "canary"}
  /\ evidence' = IF rpc[r] = "canary" THEN evidence \cup {held[r]} ELSE evidence
  /\ rpc' = [rpc EXCEPT ![r] = "idle"] /\ held' = [held EXCEPT ![r] = None]
  /\ UNCHANGED <<entry, running, drained, ended, live, applierVars>>

Serve(r) == Route(r) \/ PickVariant(r) \/ RecordOutcome(r)

\* Mutant of Evaluate: a plan is drained only when it is no longer running.
EvaluateStopped(p) ==
  /\ p \in evidence \ running
  /\ drained' = drained \cup {p}
  /\ UNCHANGED <<entry, running, evidence, ended, live, applierVars, requestVars>>

\* A tick of the controller: the canary's error rate is too high.
Evaluate(p) ==
  /\ p \in running \cap evidence /\ p \notin drained
  /\ drained' = drained \cup {p}
  /\ UNCHANGED <<entry, running, evidence, ended, live, applierVars, requestVars>>

\* The errors leave the window.
AgeOut(p) ==
  /\ p \in evidence /\ (p \in drained \/ p \notin running)
  /\ evidence' = evidence \ {p}
  /\ UNCHANGED <<entry, running, drained, ended, live, applierVars, requestVars>>

\* The cool-off ends.  A running controller renews it while it sees evidence.
CoolOff(p) ==
  /\ p \in drained \ (evidence \cap running)
  /\ drained' = drained \ {p}
  /\ UNCHANGED <<entry, running, evidence, ended, live, applierVars, requestVars>>

Next ==
  \/ \E a \in Appliers : StartApply(a) \/ Apply(a)
  \/ Expire \/ ReapOnce
  \/ \E r \in Requests : Serve(r)
  \/ \E p \in Plans : Evaluate(p) \/ AgeOut(p) \/ CoolOff(p)

Spec == Init /\ [][Next]_vars

\* Builds end, requests keep arriving and end, and tickers fire.
FairSpec ==
  /\ Spec
  /\ \A a \in Appliers : WF_vars(Apply(a))
  /\ \A r \in Requests : WF_vars(Serve(r))
  /\ \A p \in Plans : WF_vars(Evaluate(p))
  /\ WF_vars(ReapOnce)

-----------------------------------------------------------------------------
(* Properties.                                                             *)

\* Type invariant of the registry entry, the plans and the actors.
TypeOK ==
  /\ entry \in {None} \cup [config : Configs \ Unbuildable, plan : Plans, old : BOOLEAN]
  /\ running \subseteq Plans /\ drained \subseteq Plans /\ evidence \subseteq Plans
  /\ ended \subseteq Plans
  /\ live \in [config : Configs \cup {Off}, plan : Plans \cup {None}]
  /\ apc \in [Appliers -> {"idle", "plan", "publish"}]
  /\ built \in [Appliers -> [config : Configs \cup {Off}, plan : Plans \cup {None}]]
  /\ rpc \in [Requests -> {"idle", "pick", "stable", "canary"}]
  /\ held \in [Requests -> Plans \cup {None}]
  /\ applies \in 0..MaxApplies

\* No controller goroutine leaks: whatever is applied, refused or reaped, and in
\* whatever order, the only running controller is the one of the plan in the
\* registry (traffic.go Plan, reapOnce).
RunningIsListed == running \subseteq {Listed}

\* Re-applying an unchanged route does not give a failing canary its traffic
\* back: when one snapshot is built at a time, publishing the configuration that
\* is live keeps the plan object, whatever builds were refused since, unless the
\* plan was reaped or another configuration's plan took its place in the
\* registry (traffic.go Plan).
ReloadKeepsPlan ==
  [][live'.config = live.config /\ live.plan \notin ended => live'.plan = live.plan]_vars

\* A canary that keeps failing is drained, again after every cool-off, as long
\* as the snapshot with its plan is served and its controller runs (stats.go
\* evaluate).
RunningDrainsCanary ==
  []<>(live.plan \in running => live.plan \in drained)

\* internal/integration/canary_autodrain_test.go:125: the same, whether or not
\* its controller was stopped by the reaper or by a configuration that was
\* refused.
FailingCanaryDrained == []<>(live.plan = None \/ live.plan \in drained)
=============================================================================
