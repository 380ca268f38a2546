---------------------------- MODULE ConfigApply ----------------------------
(***************************************************************************)
(* The control plane's way to a new configuration: apply.Manager           *)
(* (internal/apply), the admin provider's slot (internal/provider/         *)
(* adminpush.go), the staged rollout (internal/rollout), and what          *)
(* BuildSnapshot (internal/runtime/snapshot.go) does to the shared pools   *)
(* and transports on the way.  Operators are admin API calls and the puller.     *)
(*                                                                         *)
(* Nothing serialises operators.  Each runs its build in a goroutine of    *)
(* its own, which goes on changing the registry after the operator has     *)
(* timed out.  The snapshot store is one pointer here (SnapshotStore has   *)
(* its detail), a pool is represented by the configuration whose endpoints *)
(* it was last reconciled with, and its entry in the transport registry    *)
(* (internal/transport/pool.go) by the configuration its options are from. *)
(* The clock of that registry is a choice: an entry that was removed is    *)
(* reaped at any time after.                                               *)
(***************************************************************************)
EXTENDS Naturals

CONSTANTS
  Operators, Requests, Configs, Pools, None,
  Default,     \* transport.DefaultOptions
  InitialConfig,  \* the file provider's, and what Merge gives when the slot is empty
  PoolsOf,     \* the pools of each configuration
  Verdict,     \* "ok"; "invalid": refused before the registry is touched; "late":
               \* BuildSnapshot refuses it on the way, for a pool or for a route
  Kinds        \* what operators submit: "validate", "apply", "bundle"

ASSUME ApplyAssumption ==
  /\ InitialConfig \in Configs /\ {None, Default} \cap Configs = {} /\ None # Default
  /\ PoolsOf \in [Configs -> SUBSET Pools]
  /\ Verdict \in [Configs -> {"ok", "invalid", "late"}] /\ Verdict[InitialConfig] = "ok"
  /\ Kinds \subseteq {"validate", "apply", "bundle"}
  /\ None \notin {"validate", "apply", "bundle", "locked", "full", "ok", "error"}
  /\ None \notin [opts : Configs \cup {Default}, draining : BOOLEAN]

VARIABLES
  current,     \* the current snapshot: [version, config, locked]
  slot,        \* AdminPush.cfg
  pools,       \* Registry.pools
  transports,  \* transport.Registry.transports: [opts, draining]
  pc, kind, submitted,
  saved,       \* Apply: the slot's previous content
  previous,    \* ApplyBundle: the snapshot to roll back to
  stage,       \* ApplyBundle: "validate", "locked", "full"
  build,       \* the build goroutine: its label
  resolved,    \* the configuration it builds
  todo,        \* the pools it has yet to reconcile, then the ones it pruned
  result,      \* what it left in resultCh
  held,        \* the snapshot a request holds
  outcome,     \* of the last operation but validations: "ok", "rejected", "other"
  applied      \* what the last apply that succeeded was given

builder == <<build, resolved, todo, result>>
registries == <<pools, transports>>
task == <<kind, submitted>>
vars == <<current, slot, registries, pc, task, saved, previous, stage, builder, held, outcome,
          applied>>

Goto(o, label) == pc' = [pc EXCEPT ![o] = label]

Snapshot(version, config, locked) == [version |-> version, config |-> config, locked |-> locked]

PoolsFor(c) == [p \in Pools |-> IF p \in PoolsOf[c] THEN c ELSE None]

Transport(options) == [opts |-> options, draining |-> FALSE]

Init ==
  /\ current = Snapshot(InitialConfig, InitialConfig, FALSE)
  /\ slot = None
  /\ pools = PoolsFor(InitialConfig)
  /\ transports = [p \in Pools |-> IF p \in PoolsOf[InitialConfig]
                                   THEN Transport(InitialConfig) ELSE None]
  /\ pc = [o \in Operators |-> "idle"]
  /\ kind = [o \in Operators |-> None]
  /\ submitted = [o \in Operators |-> None]
  /\ saved = [o \in Operators |-> None]
  /\ previous = [o \in Operators |-> None]
  /\ stage = [o \in Operators |-> None]
  /\ build = [o \in Operators |-> "idle"]
  /\ resolved = [o \in Operators |-> None]
  /\ todo = [o \in Operators |-> {}]
  /\ result = [o \in Operators |-> None]
  /\ held = [r \in Requests |-> None]
  /\ outcome = "ok"
  /\ applied = None

\* The call and its goroutine are both over.
Forget(o) ==
  /\ kind' = [kind EXCEPT ![o] = None]
  /\ submitted' = [submitted EXCEPT ![o] = None]
  /\ stage' = [stage EXCEPT ![o] = None]
  /\ resolved' = [resolved EXCEPT ![o] = None]

-----------------------------------------------------------------------------
(* Entry points.  The checks that precede any effect (size, pressure,       *)
(* parsing) leave no trace when they fail.  ApplyBundle first remembers the *)
(* current snapshot.  An operator's next call waits for a goroutine it left *)
(* behind, which bounds their number.                                       *)
Submit(o, k, c) ==
  /\ pc[o] = "idle" /\ build[o] = "idle"
  /\ kind' = [kind EXCEPT ![o] = k]
  /\ submitted' = [submitted EXCEPT ![o] = c]
  /\ previous' = [previous EXCEPT ![o] = IF k = "bundle" THEN current ELSE None]
  /\ stage' = [stage EXCEPT ![o] = IF k = "bundle" THEN "validate" ELSE None]
  /\ Goto(o, IF k = "bundle" THEN "compile" ELSE "swapSlot")
  /\ UNCHANGED <<current, slot, registries, saved, builder, held, outcome, applied>>

\* Apply: previous = m.adminProvider.Swap(cfg).
SwapSlot(o) ==
  /\ pc[o] = "swapSlot"
  /\ saved' = [saved EXCEPT ![o] = slot]
  /\ slot' = submitted[o]
  /\ Goto(o, "compile")
  /\ UNCHANGED <<current, registries, task, previous, stage, builder, held, outcome, applied>>

\* compile and compileResolved start the goroutine and wait for it.
Compile(o) ==
  /\ pc[o] = "compile" /\ build[o] = "idle"
  /\ build' = [build EXCEPT ![o] = "merge"]
  /\ result' = [result EXCEPT ![o] = None]
  /\ Goto(o, "wait")
  /\ UNCHANGED <<current, slot, registries, task, saved, previous, stage, resolved, todo, held,
                 outcome, applied>>

-----------------------------------------------------------------------------
(* The build goroutine.  Merge reads the slot, whoever filled it; a bundle  *)
(* is built as it is.  A validation works on registries of its own.         *)
\* config.Validate, or the merge of the providers, refuses the configuration.
Invalid(c) == Verdict[c] = "invalid"

\* A route's cache, plugin or traffic policy, or another part of it, is refused.
RefusedLate(c) == Verdict[c] = "late"

Throwaway(o) == kind[o] = "validate" \/ stage[o] = "validate"

Merge(o) ==
  LET c == IF kind[o] = "bundle" THEN submitted[o] ELSE IF slot = None THEN InitialConfig ELSE slot
  IN
  /\ build[o] = "merge"
  /\ resolved' = [resolved EXCEPT ![o] = c]
  /\ \/ /\ Invalid(c) \/ (RefusedLate(c) /\ Throwaway(o))
        /\ build' = [build EXCEPT ![o] = "done"] /\ result' = [result EXCEPT ![o] = "error"]
        /\ UNCHANGED todo
     \/ /\ ~Invalid(c) /\ ~RefusedLate(c) /\ Throwaway(o)
        /\ build' = [build EXCEPT ![o] = "done"] /\ result' = [result EXCEPT ![o] = "ok"]
        /\ UNCHANGED todo
     \/ /\ ~Invalid(c) /\ ~Throwaway(o)
        /\ build' = [build EXCEPT ![o] = "reconcile"] /\ todo' = [todo EXCEPT ![o] = PoolsOf[c]]
        /\ UNCHANGED result
  /\ UNCHANGED <<current, slot, registries, pc, task, saved, previous, stage, held, outcome,
                 applied>>

\* Mutant of Reconcile: a transport that was removed goes on draining.
ReconcileDraining(o, p) ==
  /\ build[o] = "reconcile" /\ p \in todo[o]
  /\ pools' = [pools EXCEPT ![p] = resolved[o]]
  /\ transports' = [transports EXCEPT ![p] =
       [opts |-> resolved[o], draining |-> @ # None /\ @.draining]]
  /\ todo' = [todo EXCEPT ![o] = @ \ {p}]
  /\ UNCHANGED <<current, slot, pc, task, saved, previous, stage, build, resolved, result, held,
                 outcome, applied>>

\* BuildSnapshot: reg.Reconcile for each pool, in the order of a Go map: the
\* pool's endpoints, then its transport, which stops draining and gets the
\* configured options.
Reconcile(o, p) ==
  /\ build[o] = "reconcile" /\ p \in todo[o]
  /\ pools' = [pools EXCEPT ![p] = resolved[o]]
  /\ transports' = [transports EXCEPT ![p] = Transport(resolved[o])]
  /\ todo' = [todo EXCEPT ![o] = @ \ {p}]
  /\ UNCHANGED <<current, slot, pc, task, saved, previous, stage, build, resolved, result, held,
                 outcome, applied>>

\* BuildSnapshot meets a pool without endpoints and returns from the loop.
ReconcileFails(o) ==
  /\ build[o] = "reconcile" /\ todo[o] # {} /\ RefusedLate(resolved[o])
  /\ build' = [build EXCEPT ![o] = "done"]
  /\ result' = [result EXCEPT ![o] = "error"]
  /\ todo' = [todo EXCEPT ![o] = {}]
  /\ UNCHANGED <<current, slot, registries, pc, task, saved, previous, stage, resolved, held,
                 outcome, applied>>

\* Mutant of PrunePools: the pools the configuration dropped stay.
PruneNothing(o) ==
  /\ build[o] = "reconcile" /\ todo[o] = {}
  /\ build' = [build EXCEPT ![o] = "routes"]
  /\ UNCHANGED <<current, slot, registries, pc, task, saved, previous, stage, resolved, todo,
                 result, held, outcome, applied>>

\* reg.PrunePools, before the routes are looked at: the pools first, then
\* transports.Remove for each of them.
PrunePools(o) ==
  /\ build[o] = "reconcile" /\ todo[o] = {}
  /\ pools' = [p \in Pools |-> IF p \in PoolsOf[resolved[o]] THEN pools[p] ELSE None]
  /\ todo' = [todo EXCEPT ![o] = {p \in Pools \ PoolsOf[resolved[o]] : pools[p] # None}]
  /\ build' = [build EXCEPT ![o] = "remove"]
  /\ UNCHANGED <<current, slot, transports, pc, task, saved, previous, stage, resolved, result,
                 held, outcome, applied>>

RemoveTransports(o) ==
  /\ build[o] = "remove"
  /\ transports' = [p \in Pools |-> IF p \in todo[o] /\ transports[p] # None
                                    THEN [transports[p] EXCEPT !.draining = TRUE]
                                    ELSE transports[p]]
  /\ todo' = [todo EXCEPT ![o] = {}]
  /\ build' = [build EXCEPT ![o] = "routes"]
  /\ UNCHANGED <<current, slot, pools, pc, task, saved, previous, stage, resolved, result, held,
                 outcome, applied>>

\* Mutant of BuildRoutes: errors of the route loop are dropped.
BuildRoutesOk(o) ==
  /\ build[o] = "routes"
  /\ result' = [result EXCEPT ![o] = "ok"]
  /\ build' = [build EXCEPT ![o] = "done"]
  /\ UNCHANGED <<current, slot, registries, pc, task, saved, previous, stage, resolved, todo,
                 held, outcome, applied>>

BuildRoutes(o) ==
  /\ build[o] = "routes"
  /\ result' = [result EXCEPT ![o] = IF RefusedLate(resolved[o]) THEN "error" ELSE "ok"]
  /\ build' = [build EXCEPT ![o] = "done"]
  /\ UNCHANGED <<current, slot, registries, pc, task, saved, previous, stage, resolved, todo,
                 held, outcome, applied>>

\* The goroutine of an operator that timed out ends; nobody takes its result.
BuildExit(o) ==
  /\ build[o] = "done" /\ pc[o] = "idle"
  /\ build' = [build EXCEPT ![o] = "idle"]
  /\ result' = [result EXCEPT ![o] = None]
  /\ Forget(o)
  /\ UNCHANGED <<current, slot, registries, pc, saved, previous, todo, held, outcome, applied>>

Build(o) ==
  \/ Merge(o) \/ (\E p \in Pools : Reconcile(o, p)) \/ ReconcileFails(o)
  \/ PrunePools(o) \/ RemoveTransports(o) \/ BuildRoutes(o) \/ BuildExit(o)

-----------------------------------------------------------------------------
(* Back in the operator: an error, ErrCompileTimeout included, a success,   *)
(* or for a bundle the next stage.                                          *)
AfterError(o) == IF kind[o] # "bundle" THEN "restoreSlot"
                 ELSE IF stage[o] = "full" THEN "rollback" ELSE "return"

Fail(o, error) ==
  /\ Goto(o, AfterError(o))
  /\ outcome' = IF Throwaway(o) THEN outcome ELSE error
  /\ UNCHANGED <<current, slot, registries, task, saved, previous, stage, resolved, todo, held,
                 applied>>

TakeResult(o) ==
  /\ build' = [build EXCEPT ![o] = "idle"]
  /\ result' = [result EXCEPT ![o] = None]

\* Mutant of CompileTimeout: compile waits for its goroutine without a timer.
CompileNoTimeout(o) == pc[o] = "wait" /\ FALSE /\ UNCHANGED vars

CompileTimeout(o) ==
  /\ pc[o] = "wait" /\ Fail(o, "other") /\ UNCHANGED <<build, result>>

CompileError(o) ==
  /\ pc[o] = "wait" /\ result[o] = "error"
  /\ Fail(o, "rejected") /\ TakeResult(o)

CompileOk(o) ==
  /\ pc[o] = "wait" /\ result[o] = "ok"
  /\ TakeResult(o)
  /\ stage' = [stage EXCEPT ![o] = IF @ = "validate" THEN "locked" ELSE @]
  /\ Goto(o, CASE kind[o] = "validate" -> "restoreSlot"
               [] stage[o] = "validate" -> "compile"
               [] OTHER -> "publish")
  /\ UNCHANGED <<current, slot, registries, task, saved, previous, resolved, todo, held, outcome,
                 applied>>

\* UnderPressure at the start of a bundle's later stages.
StagePressure(o) ==
  /\ pc[o] = "compile" /\ kind[o] = "bundle" /\ stage[o] # "validate"
  /\ Fail(o, "other") /\ UNCHANGED <<build, result>>

\* store.Swap; the version is the operator's, the content what was built.
Publish(o) ==
  /\ pc[o] = "publish"
  /\ current' = Snapshot(submitted[o], resolved[o], stage[o] = "locked")
  /\ outcome' = "ok"
  /\ applied' = IF kind[o] = "apply" THEN submitted[o] ELSE applied
  /\ Goto(o, IF stage[o] = "locked" THEN "bake" ELSE "return")
  /\ UNCHANGED <<slot, registries, task, saved, previous, stage, builder, held>>

\* Mutant of RestoreSlot: the slot keeps what was rejected or only validated.
RestoreSlotNot(o) ==
  /\ pc[o] = "restoreSlot"
  /\ Goto(o, "return")
  /\ UNCHANGED <<current, slot, registries, task, saved, previous, stage, builder, held, outcome,
                 applied>>

\* The deferred Swap of the slot.
RestoreSlot(o) ==
  /\ pc[o] = "restoreSlot"
  /\ slot' = saved[o]
  /\ Goto(o, "return")
  /\ UNCHANGED <<current, registries, task, saved, previous, stage, builder, held, outcome,
                 applied>>

\* ApplyBundle: the locked configuration bakes, the gates are checked.
BakeCancelled(o) ==
  /\ pc[o] = "bake" /\ Goto(o, "return")
  /\ UNCHANGED <<current, slot, registries, task, saved, previous, stage, builder, held, outcome,
                 applied>>

GatesPass(o) ==
  /\ pc[o] = "bake"
  /\ stage' = [stage EXCEPT ![o] = "full"]
  /\ Goto(o, "compile")
  /\ UNCHANGED <<current, slot, registries, task, saved, previous, builder, held, outcome,
                 applied>>

GatesFail(o) ==
  /\ pc[o] = "bake" /\ Goto(o, "rollback")
  /\ UNCHANGED <<current, slot, registries, task, saved, previous, stage, builder, held, outcome,
                 applied>>

\* rollback swaps the snapshot pointer only.
Rollback(o) ==
  /\ pc[o] = "rollback"
  /\ current' = previous[o]
  /\ outcome' = "other"
  /\ Goto(o, "return")
  /\ UNCHANGED <<slot, registries, task, saved, previous, stage, builder, held, applied>>

Return(o) ==
  /\ pc[o] = "return"
  /\ IF build[o] = "idle" THEN Forget(o) ELSE UNCHANGED <<task, stage, resolved>>
  /\ saved' = [saved EXCEPT ![o] = None]
  /\ previous' = [previous EXCEPT ![o] = None]
  /\ Goto(o, "idle")
  /\ UNCHANGED <<current, slot, registries, build, todo, result, held, outcome, applied>>

Operate(o) ==
  \/ SwapSlot(o) \/ Compile(o) \/ CompileError(o) \/ CompileOk(o) \/ StagePressure(o)
  \/ Publish(o) \/ RestoreSlot(o) \/ BakeCancelled(o) \/ GatesPass(o) \/ GatesFail(o)
  \/ Rollback(o) \/ Return(o) \/ CompileTimeout(o)

-----------------------------------------------------------------------------
(* A request holds one snapshot while it runs and asks for the transport of *)
(* its pool; a missing one is created with the default options.             *)
Acquire(r) ==
  /\ held[r] = None
  /\ held' = [held EXCEPT ![r] = current]
  /\ UNCHANGED <<current, slot, registries, pc, task, saved, previous, stage, builder, outcome,
                 applied>>

Release(r) ==
  /\ held[r] # None
  /\ held' = [held EXCEPT ![r] = None]
  /\ UNCHANGED <<current, slot, registries, pc, task, saved, previous, stage, builder, outcome,
                 applied>>

GetTransport(r, p) ==
  /\ held[r] # None /\ p \in PoolsOf[held[r].config] /\ transports[p] = None
  /\ transports' = [transports EXCEPT ![p] = Transport(Default)]
  /\ UNCHANGED <<current, slot, pools, pc, task, saved, previous, stage, builder, held, outcome,
                 applied>>

\* transport.Registry.reapOnce: removed for longer than the TTL, used or not.
ReapTransport(p) ==
  /\ transports[p] # None /\ transports[p].draining
  /\ transports' = [transports EXCEPT ![p] = None]
  /\ UNCHANGED <<current, slot, pools, pc, task, saved, previous, stage, builder, held, outcome,
                 applied>>

Next ==
  \/ \E o \in Operators :
       (\E k \in Kinds, c \in Configs : Submit(o, k, c)) \/ Operate(o) \/ Build(o)
  \/ \E r \in Requests : Acquire(r) \/ Release(r) \/ \E p \in Pools : GetTransport(r, p)
  \/ \E p \in Pools : ReapTransport(p)

Spec == Init /\ [][Next]_vars

(* Operators run; a wait ends at the latest by its timer.  Builds may hang. *)
FairSpec == Spec /\ \A o \in Operators : WF_vars(Operate(o))

-----------------------------------------------------------------------------
Snapshots == [version : Configs, config : Configs, locked : BOOLEAN]
Labels == {"idle", "swapSlot", "compile", "wait", "publish", "restoreSlot", "bake", "rollback", "return"}

\* Types.
TypeOK ==
  /\ current \in Snapshots /\ slot \in Configs \cup {None}
  /\ pools \in [Pools -> Configs \cup {None}]
  /\ pc \in [Operators -> Labels] /\ kind \in [Operators -> Kinds \cup {None}]
  /\ submitted \in [Operators -> Configs \cup {None}] /\ saved \in [Operators -> Configs \cup {None}]
  /\ previous \in [Operators -> Snapshots \cup {None}]
  /\ stage \in [Operators -> {None, "validate", "locked", "full"}]
  /\ build \in [Operators -> {"idle", "merge", "reconcile", "remove", "routes", "done"}]
  /\ resolved \in [Operators -> Configs \cup {None}] /\ todo \in [Operators -> SUBSET Pools]
  /\ result \in [Operators -> {None, "ok", "error"}]
  /\ held \in [Requests -> Snapshots \cup {None}]
  /\ transports \in [Pools -> [opts : Configs \cup {Default}, draining : BOOLEAN] \cup {None}]
  /\ outcome \in {"ok", "rejected", "other"} /\ applied \in Configs \cup {None}

Quiet == \A o \in Operators : pc[o] = "idle" /\ build[o] = "idle"

\* Publish, Rollback: whatever operators, timeouts and left-over builds do,
\* the current snapshot was built from a configuration that every check
\* accepted.
PublishedIsValid == Verdict[current.config] = "ok"

\* Apply, one operator at a time: the version a snapshot carries is the one of
\* the configuration it was built from, and a validation, or an apply that
\* failed, leaves nothing of itself in the admin provider's slot.
SlotIsLastApplied ==
  /\ current.version = current.config
  /\ Quiet => slot = applied

\* BuildSnapshot, Publish, one operator at a time: after an apply that
\* succeeded the registry holds exactly the pools of the current snapshot, and
\* each has a transport with the options of that configuration, which the
\* reaper will not take although it may have been draining before.
SuccessIsInstalled ==
  Quiet /\ outcome = "ok" =>
    /\ pools = PoolsFor(current.config)
    /\ \A p \in PoolsOf[current.config] : transports[p] = Transport(current.config)

\* compile, ApplyBundle: an operator's call returns even if its build hangs.
OperationEnds == \A o \in Operators : pc[o] # "idle" ~> pc[o] = "idle"

Serves(snapshot) == \A p \in PoolsOf[snapshot.config] : pools[p] # None

\* README.md: a configuration can be validated without applying it: while it
\* is validated, no step makes it current unless some operator applies it.
ValidateAppliesNothing ==
  [][\A o \in Operators :
       kind[o] = "validate" /\ current'.config = submitted[o] =>
         \/ current.config = submitted[o]
         \/ \E q \in Operators : kind[q] # "validate" /\ submitted[q] = submitted[o]]_vars

\* README.md: an invalid configuration is rejected and the current snapshot
\* stays active, with the pools its routes need.
RejectionKeepsServing == Quiet /\ outcome = "rejected" => Serves(current)

\* docs/INVARIANTS.md: a snapshot remains valid until its last reference is
\* released.
HeldSnapshotServes == \A r \in Requests : held[r] # None => Serves(held[r])

\* docs/INVARIANTS.md: no request sees partially applied configuration: when
\* the last apply has succeeded, all pools come from the current one.
NoMixedPools ==
  Quiet /\ outcome = "ok" => \A p \in PoolsOf[current.config] : pools[p] = current.config
=============================================================================
