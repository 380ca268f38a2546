---------------------------- MODULE ConfigProofs ----------------------------
(***************************************************************************)
(* Proofs about applying configurations: ConfigApply for any               *)
(* configurations, pools and requests (with any number of operators only   *)
(* valid configurations are published; with one at a time the slot, the    *)
(* registry and the transports are those of the last success);             *)
(* BundleHistory for any versions and operators and any limit.             *)
(***************************************************************************)
EXTENDS ConfigApply, Sequences, TLAPS

Building(o) == build[o] \in {"reconcile", "remove", "routes"}

\* What a call and its goroutine know at each point: the task is remembered while
\* either runs, a result is there only when the build is done and says what the
\* checks say, and a publication follows a build that has ended well.
CallInv(o) ==
  /\ (pc[o] # "idle" \/ build[o] # "idle") => submitted[o] \in Configs /\ kind[o] \in Kinds
  /\ stage[o] # None => kind[o] = "bundle"
  /\ build[o] # "done" => result[o] = None
  /\ Building(o) => resolved[o] \in Configs /\ Verdict[resolved[o]] # "invalid"
  /\ result[o] = "ok" => resolved[o] \in Configs /\ Verdict[resolved[o]] = "ok"
  /\ pc[o] \in {"swapSlot", "compile", "publish", "bake"} => build[o] = "idle"
  /\ pc[o] \in {"bake", "rollback"} => kind[o] = "bundle"
  /\ pc[o] = "publish" => resolved[o] \in Configs /\ Verdict[resolved[o]] = "ok"
  /\ pc[o] # "idle" /\ kind[o] = "bundle" =>
       previous[o] \in Snapshots /\ Verdict[previous[o].config] = "ok"

\* The inductive invariant for any number of operators.
ApplyInv == TypeOK /\ PublishedIsValid /\ \A o \in Operators : CallInv(o)

-----------------------------------------------------------------------------
(* One operator at a time.                                                  *)

\* What is between the slot and the last apply: the running call.
SlotInv(o) ==
  /\ current.version = current.config
  /\ pc[o] # "idle" /\ kind[o] = "bundle" => previous[o].version = previous[o].config
  /\ pc[o] \in {"swapSlot", "restoreSlot"} => kind[o] # "bundle"
  /\ pc[o] \in {"idle", "swapSlot", "return"} \/ kind[o] = "bundle" => slot = applied
  /\ pc[o] \in {"compile", "wait", "publish", "restoreSlot"} /\ kind[o] # "bundle" =>
       slot = submitted[o] /\ saved[o] = applied
  /\ pc[o] = "wait" /\ (Building(o) \/ build[o] = "done") => resolved[o] = submitted[o]
  /\ pc[o] = "publish" => resolved[o] = submitted[o] /\ kind[o] # "validate"

Installed(P, T, c) ==
  /\ P = PoolsFor(c)
  /\ \A p \in PoolsOf[c] : T[p] = Transport(c)

\* The loop over the pools has still to do those in left.
Reconciled(P, T, c, left) ==
  /\ left \subseteq PoolsOf[c]
  /\ \A p \in PoolsOf[c] \ left : P[p] = c /\ T[p] = Transport(c)

\* The build of the call has begun to change the shared registry.
Dirty(o) == (build[o] # "idle" /\ build[o] # "merge" /\ ~Throwaway(o)) \/ pc[o] = "publish"

\* What the registry holds while a build goes on, and after it.
InstallInv(o) ==
  /\ outcome = "ok" /\ ~Dirty(o) => Installed(pools, transports, current.config)
  /\ Building(o) => ~Throwaway(o)
  /\ build[o] = "reconcile" => Reconciled(pools, transports, resolved[o], todo[o])
  /\ build[o] = "remove" => todo[o] \cap PoolsOf[resolved[o]] = {}
  /\ build[o] \in {"remove", "routes"} => Installed(pools, transports, resolved[o])
  /\ result[o] = "ok" /\ ~Throwaway(o) => Installed(pools, transports, resolved[o])
  /\ pc[o] = "publish" => Installed(pools, transports, resolved[o]) /\ ~Throwaway(o)
  /\ build[o] # "idle" /\ ~Throwaway(o) => pc[o] = "wait" \/ outcome # "ok"

\* Only one admin API call or pull of a bundle is under way at a time, the
\* goroutine it leaves behind when it times out included.
OneOperator == \E o : Operators = {o}

\* The inductive invariant for one operator at a time.
SerialInv == ApplyInv /\ \A o \in Operators : SlotInv(o) /\ InstallInv(o)
-----------------------------------------------------------------------------
(* Any number of operators.                                                *)

LEMMA InitInv == Init => ApplyInv
<1> SUFFICES ASSUME Init PROVE ApplyInv
  OBVIOUS
<1> USE ApplyAssumption DEF Init
<1>1. current \in Snapshots /\ Verdict[current.config] = "ok"
  BY DEF Snapshot, Snapshots
<1>2. TypeOK
  BY <1>1, Zenon DEF TypeOK, Labels, Transport, PoolsFor
<1>3. \A o \in Operators : CallInv(o)
  BY Zenon DEF CallInv, Building
<1> QED BY <1>1, <1>2, <1>3, Zenon DEF ApplyInv, PublishedIsValid

LEMMA SubmitInv ==
  ASSUME ApplyInv, NEW o \in Operators, NEW k \in Kinds, NEW c \in Configs, Submit(o, k, c)
  PROVE  ApplyInv'
  BY ApplyAssumption
  DEF ApplyInv, TypeOK, Submit, Goto, builder, registries, task, PublishedIsValid, CallInv,
      Building, Labels

LEMMA SwapSlotInv ==
  ASSUME ApplyInv, NEW o \in Operators, SwapSlot(o)
  PROVE  ApplyInv'
  BY ApplyAssumption
  DEF ApplyInv, TypeOK, SwapSlot, Goto, builder, registries, task, PublishedIsValid,
      CallInv, Building, Labels

LEMMA CompileInv ==
  ASSUME ApplyInv, NEW o \in Operators, Compile(o)
  PROVE  ApplyInv'
  BY ApplyAssumption
  DEF ApplyInv, TypeOK, Compile, Goto, builder, registries, task, PublishedIsValid,
      CallInv, Building, Labels

LEMMA MergeInv ==
  ASSUME ApplyInv, NEW o \in Operators, Merge(o)
  PROVE  ApplyInv'
<1>1. submitted[o] \in Configs /\ slot \in Configs \cup {None}
  BY Zenon DEF ApplyInv, TypeOK, CallInv, Merge
<1>2. TypeOK'
  <2>1. resolved' \in [Operators -> Configs \cup {None}]
    BY <1>1, ApplyAssumption, Zenon DEF ApplyInv, TypeOK, Merge
  <2>2. todo' \in [Operators -> SUBSET Pools]
    BY <1>1, ApplyAssumption DEF ApplyInv, TypeOK, Merge
  <2> QED BY <2>1, <2>2, Zenon DEF ApplyInv, TypeOK, Merge, registries, task
<1>3. PublishedIsValid' /\ \A q \in Operators : CallInv(q)'
  BY <1>1, ApplyAssumption
  DEF ApplyInv, TypeOK, PublishedIsValid, CallInv, Building, Merge, Invalid, RefusedLate,
      registries, task
<1> QED BY <1>2, <1>3 DEF ApplyInv

LEMMA ReconcileInv ==
  ASSUME ApplyInv, NEW o \in Operators, NEW p \in Pools, Reconcile(o, p)
  PROVE  ApplyInv'
  BY ApplyAssumption
  DEF ApplyInv, TypeOK, Reconcile, Transport, builder, registries, task, PublishedIsValid,
      CallInv, Building

LEMMA ReconcileFailsInv ==
  ASSUME ApplyInv, NEW o \in Operators, ReconcileFails(o)
  PROVE  ApplyInv'
  BY ApplyAssumption
  DEF ApplyInv, TypeOK, ReconcileFails, builder, registries, task, PublishedIsValid,
      CallInv, Building

LEMMA PrunePoolsInv ==
  ASSUME ApplyInv, NEW o \in Operators, PrunePools(o)
  PROVE  ApplyInv'
  BY ApplyAssumption
  DEF ApplyInv, TypeOK, PrunePools, builder, registries, task, PublishedIsValid, CallInv,
      Building

LEMMA RemoveTransportsInv ==
  ASSUME ApplyInv, NEW o \in Operators, RemoveTransports(o)
  PROVE  ApplyInv'
<1>1. ASSUME NEW p \in Pools, transports[p] # None
      PROVE  [transports[p] EXCEPT !.draining = TRUE]
               \in [opts : Configs \cup {Default}, draining : BOOLEAN]
  BY <1>1, Zenon DEF ApplyInv, TypeOK
<1>2. TypeOK'
  BY <1>1 DEF ApplyInv, TypeOK, RemoveTransports, task
<1>3. PublishedIsValid' /\ \A q \in Operators : CallInv(q)'
  BY DEF ApplyInv, TypeOK, PublishedIsValid, CallInv, Building, RemoveTransports, task
<1> QED BY <1>2, <1>3 DEF ApplyInv

LEMMA BuildRoutesInv ==
  ASSUME ApplyInv, NEW o \in Operators, BuildRoutes(o)
  PROVE  ApplyInv'
  BY ApplyAssumption
  DEF ApplyInv, TypeOK, BuildRoutes, RefusedLate, builder, registries, task,
      PublishedIsValid, CallInv, Building

LEMMA BuildExitInv ==
  ASSUME ApplyInv, NEW o \in Operators, BuildExit(o)
  PROVE  ApplyInv'
  BY ApplyAssumption
  DEF ApplyInv, TypeOK, BuildExit, Forget, builder, registries, task, PublishedIsValid,
      CallInv, Building

LEMMA CompileTimeoutInv ==
  ASSUME ApplyInv, NEW o \in Operators, CompileTimeout(o)
  PROVE  ApplyInv'
  BY ApplyAssumption
  DEF ApplyInv, TypeOK, CompileTimeout, Fail, AfterError, Goto, builder, registries, task,
      PublishedIsValid, CallInv, Building, Labels

LEMMA CompileErrorInv ==
  ASSUME ApplyInv, NEW o \in Operators, CompileError(o)
  PROVE  ApplyInv'
  BY ApplyAssumption
  DEF ApplyInv, TypeOK, CompileError, Fail, AfterError, TakeResult, Goto, builder,
      registries, task, PublishedIsValid, CallInv, Building, Labels

LEMMA CompileOkInv ==
  ASSUME ApplyInv, NEW o \in Operators, CompileOk(o)
  PROVE  ApplyInv'
  BY ApplyAssumption
  DEF ApplyInv, TypeOK, CompileOk, TakeResult, Goto, builder, registries, task,
      PublishedIsValid, CallInv, Building, Labels

LEMMA StagePressureInv ==
  ASSUME ApplyInv, NEW o \in Operators, StagePressure(o)
  PROVE  ApplyInv'
  BY ApplyAssumption
  DEF ApplyInv, TypeOK, StagePressure, Fail, AfterError, Goto, builder, registries, task,
      PublishedIsValid, CallInv, Building, Labels

LEMMA PublishInv ==
  ASSUME ApplyInv, NEW o \in Operators, Publish(o)
  PROVE  ApplyInv'
  BY ApplyAssumption
  DEF ApplyInv, TypeOK, Publish, Snapshot, Goto, builder, registries, task,
      PublishedIsValid, CallInv, Building, Labels, Snapshots

LEMMA RestoreSlotInv ==
  ASSUME ApplyInv, NEW o \in Operators, RestoreSlot(o)
  PROVE  ApplyInv'
  BY ApplyAssumption
  DEF ApplyInv, TypeOK, RestoreSlot, Goto, builder, registries, task, PublishedIsValid,
      CallInv, Building, Labels

LEMMA BakeCancelledInv ==
  ASSUME ApplyInv, NEW o \in Operators, BakeCancelled(o)
  PROVE  ApplyInv'
  BY ApplyAssumption
  DEF ApplyInv, TypeOK, BakeCancelled, Goto, builder, registries, task, PublishedIsValid,
      CallInv, Building, Labels

LEMMA GatesPassInv ==
  ASSUME ApplyInv, NEW o \in Operators, GatesPass(o)
  PROVE  ApplyInv'
  BY ApplyAssumption
  DEF ApplyInv, TypeOK, GatesPass, Goto, builder, registries, task, PublishedIsValid,
      CallInv, Building, Labels

LEMMA GatesFailInv ==
  ASSUME ApplyInv, NEW o \in Operators, GatesFail(o)
  PROVE  ApplyInv'
  BY ApplyAssumption
  DEF ApplyInv, TypeOK, GatesFail, Goto, builder, registries, task, PublishedIsValid,
      CallInv, Building, Labels

LEMMA RollbackInv ==
  ASSUME ApplyInv, NEW o \in Operators, Rollback(o)
  PROVE  ApplyInv'
  BY ApplyAssumption
  DEF ApplyInv, TypeOK, Rollback, Goto, builder, registries, task, PublishedIsValid,
      CallInv, Building, Labels

LEMMA ReturnInv ==
  ASSUME ApplyInv, NEW o \in Operators, Return(o)
  PROVE  ApplyInv'
<1>1. /\ kind' \in [Operators -> Kinds \cup {None}]
      /\ submitted' \in [Operators -> Configs \cup {None}]
      /\ stage' \in [Operators -> {None, "validate", "locked", "full"}]
      /\ resolved' \in [Operators -> Configs \cup {None}]
  BY Zenon DEF ApplyInv, TypeOK, Return, Forget, task
<1>2. TypeOK'
  BY <1>1, Zenon DEF ApplyInv, TypeOK, Labels, Return, Goto, registries
<1>3. PublishedIsValid' /\ \A q \in Operators : CallInv(q)'
  BY ApplyAssumption
  DEF ApplyInv, TypeOK, PublishedIsValid, CallInv, Building, Return, Forget, Goto, task
<1> QED BY <1>2, <1>3 DEF ApplyInv

LEMMA AcquireInv ==
  ASSUME ApplyInv, NEW r \in Requests, Acquire(r)
  PROVE  ApplyInv'
  BY ApplyAssumption
  DEF ApplyInv, TypeOK, Acquire, builder, registries, task, PublishedIsValid, CallInv,
      Building

LEMMA ReleaseInv ==
  ASSUME ApplyInv, NEW r \in Requests, Release(r)
  PROVE  ApplyInv'
  BY ApplyAssumption, Zenon
  DEF ApplyInv, TypeOK, Release, builder, registries, task, PublishedIsValid, CallInv,
      Building

LEMMA GetTransportInv ==
  ASSUME ApplyInv, NEW r \in Requests, NEW p \in Pools, GetTransport(r, p)
  PROVE  ApplyInv'
  BY ApplyAssumption, Zenon
  DEF ApplyInv, TypeOK, GetTransport, Transport, builder, registries, task,
      PublishedIsValid, CallInv, Building

LEMMA ReapTransportInv ==
  ASSUME ApplyInv, NEW p \in Pools, ReapTransport(p)
  PROVE  ApplyInv'
  BY ApplyAssumption, Zenon
  DEF ApplyInv, TypeOK, ReapTransport, builder, registries, task, PublishedIsValid,
      CallInv, Building

LEMMA UnchangedInv == ASSUME ApplyInv, UNCHANGED vars PROVE ApplyInv'
<1> USE DEF vars, builder, registries, task
<1>1. TypeOK'
  BY Zenon DEF ApplyInv, TypeOK
<1>2. PublishedIsValid'
  BY Zenon DEF ApplyInv, PublishedIsValid
<1>3. \A q \in Operators : CallInv(q)'
  BY Zenon DEF ApplyInv, CallInv, Building
<1> QED BY <1>1, <1>2, <1>3 DEF ApplyInv

LEMMA NextInv == ApplyInv /\ [Next]_vars => ApplyInv'
<1> SUFFICES ASSUME ApplyInv, [Next]_vars PROVE ApplyInv'
  OBVIOUS
<1>1. ASSUME NEW o \in Operators, NEW k \in Kinds, NEW c \in Configs, Submit(o, k, c)
      PROVE  ApplyInv'
  BY <1>1, SubmitInv
<1>2. ASSUME NEW o \in Operators, Operate(o) PROVE ApplyInv'
  BY <1>2, SwapSlotInv, CompileInv, CompileErrorInv, CompileOkInv, StagePressureInv, PublishInv,
     RestoreSlotInv, BakeCancelledInv, GatesPassInv, GatesFailInv, RollbackInv, ReturnInv,
     CompileTimeoutInv DEF Operate
<1>3. ASSUME NEW o \in Operators, Build(o) PROVE ApplyInv'
  BY <1>3, ReconcileInv, MergeInv, ReconcileFailsInv, PrunePoolsInv,
     RemoveTransportsInv, BuildRoutesInv, BuildExitInv DEF Build
<1>4. ASSUME NEW r \in Requests, Acquire(r) \/ Release(r) \/ \E p \in Pools : GetTransport(r, p)
      PROVE  ApplyInv'
  BY <1>4, AcquireInv, ReleaseInv, GetTransportInv
<1>5. ASSUME NEW p \in Pools, ReapTransport(p) PROVE ApplyInv'
  BY <1>5, ReapTransportInv
<1>6. CASE UNCHANGED vars
  BY <1>6, UnchangedInv
<1> QED BY <1>1, <1>2, <1>3, <1>4, <1>5, <1>6 DEF Next

\* Whatever operators overlap, time out and leave behind, and whichever part of
\* the slot each build happens to read, the current snapshot is one that every
\* check of BuildSnapshot accepted.
THEOREM PublishedCorrect == Spec => [](TypeOK /\ PublishedIsValid)
<1>1. ApplyInv => TypeOK /\ PublishedIsValid
  BY DEF ApplyInv
<1> QED BY <1>1, InitInv, NextInv, PTL DEF Spec

-----------------------------------------------------------------------------
(* One operator at a time.                                                  *)

\* What an update of one call's state needs of the types.
Shaped ==
  /\ DOMAIN pc = Operators /\ DOMAIN kind = Operators /\ DOMAIN submitted = Operators
  /\ DOMAIN saved = Operators /\ DOMAIN previous = Operators /\ DOMAIN stage = Operators
  /\ DOMAIN build = Operators /\ DOMAIN resolved = Operators /\ DOMAIN todo = Operators
  /\ DOMAIN result = Operators /\ DOMAIN pools = Pools /\ DOMAIN transports = Pools
  /\ None \notin {"validate", "apply", "bundle", "locked", "full", "ok", "error"}

\* What the invariant says of one call.
LEMMA OfCall ==
  ASSUME SerialInv, NEW o \in Operators
  PROVE  Shaped /\ CallInv(o) /\ SlotInv(o) /\ InstallInv(o)
  BY ApplyAssumption, Zenon DEF SerialInv, ApplyInv, TypeOK, Shaped

\* Replacing a transport that is not the one c has leaves c installed.
LEMMA OtherTransport ==
  ASSUME NEW P, NEW T, DOMAIN T = Pools, NEW c \in Configs, NEW p \in Pools, NEW t,
         T[p] # Transport(c)
  PROVE  /\ Installed(P, T, c) => Installed(P, [T EXCEPT ![p] = t], c)
         /\ \A left : Reconciled(P, T, c, left) => Reconciled(P, [T EXCEPT ![p] = t], c, left)
<1>1. \A q \in PoolsOf[c] : T[q] = Transport(c) => [T EXCEPT ![p] = t][q] = T[q]
  BY ApplyAssumption
<1> QED BY <1>1, Zenon DEF Installed, Reconciled

LEMMA InitSerial == Init => \A o \in Operators : SlotInv(o) /\ InstallInv(o)
<1> SUFFICES ASSUME Init, NEW o \in Operators PROVE SlotInv(o) /\ InstallInv(o)
  BY Zenon
<1>1. current.version = current.config /\ current.config = InitialConfig
  BY Zenon DEF Init, Snapshot
<1>2. Installed(pools, transports, InitialConfig)
  BY ApplyAssumption DEF Init, Installed
<1>3. /\ pc[o] = "idle" /\ kind[o] = None /\ build[o] = "idle" /\ result[o] = None
      /\ slot = applied
  BY Zenon DEF Init
<1> QED BY <1>1, <1>2, <1>3, ApplyAssumption, Zenon DEF SlotInv, InstallInv, Building

LEMMA SubmitSerial ==
  ASSUME SerialInv, NEW o \in Operators, NEW k \in Kinds, NEW c \in Configs, Submit(o, k, c)
  PROVE  SlotInv(o)' /\ InstallInv(o)'
  BY OfCall
  DEF Shaped, Submit, Goto, builder, registries, task, CallInv, SlotInv, InstallInv, Dirty,
      Building, Throwaway

LEMMA SwapSlotSerial ==
  ASSUME SerialInv, NEW o \in Operators, SwapSlot(o)
  PROVE  SlotInv(o)' /\ InstallInv(o)'
  BY OfCall
  DEF Shaped, SwapSlot, Goto, builder, registries, task, CallInv, SlotInv, InstallInv,
      Dirty, Building, Throwaway

LEMMA CompileSerial ==
  ASSUME SerialInv, NEW o \in Operators, Compile(o)
  PROVE  SlotInv(o)' /\ InstallInv(o)'
  BY OfCall
  DEF Shaped, Compile, Goto, builder, registries, task, CallInv, SlotInv, InstallInv,
      Dirty, Building, Throwaway

LEMMA CompileErrorSerial ==
  ASSUME SerialInv, NEW o \in Operators, CompileError(o)
  PROVE  SlotInv(o)' /\ InstallInv(o)'
  BY OfCall
  DEF Shaped, CompileError, Fail, AfterError, TakeResult, Goto, builder, registries, task,
      CallInv, SlotInv, InstallInv, Dirty, Building, Throwaway

LEMMA CompileOkSerial ==
  ASSUME SerialInv, NEW o \in Operators, CompileOk(o)
  PROVE  SlotInv(o)' /\ InstallInv(o)'
  BY OfCall
  DEF Shaped, CompileOk, TakeResult, Goto, builder, registries, task, CallInv, SlotInv,
      InstallInv, Dirty, Building, Throwaway

LEMMA StagePressureSerial ==
  ASSUME SerialInv, NEW o \in Operators, StagePressure(o)
  PROVE  SlotInv(o)' /\ InstallInv(o)'
  BY OfCall, Zenon
  DEF Shaped, StagePressure, Fail, AfterError, Goto, builder, registries, task, CallInv,
      SlotInv, InstallInv, Dirty, Building, Throwaway

LEMMA PublishSerial ==
  ASSUME SerialInv, NEW o \in Operators, Publish(o)
  PROVE  SlotInv(o)' /\ InstallInv(o)'
<1>1. Shaped /\ CallInv(o) /\ SlotInv(o) /\ InstallInv(o)
  BY OfCall
<1>2. resolved[o] = submitted[o] /\ kind[o] \in {"apply", "bundle"}
  BY <1>1, ApplyAssumption, Zenon DEF CallInv, SlotInv, Publish
<1>3. slot' = applied'
  BY <1>1, <1>2, Zenon DEF SlotInv, Publish
<1>4. pc'[o] \in {"bake", "return"} /\ (pc'[o] = "bake" => kind[o] = "bundle")
  BY <1>1, Zenon DEF Shaped, CallInv, Publish, Goto
<1>5. current'.version = submitted[o] /\ current'.config = resolved[o]
  BY Zenon DEF Publish, Snapshot
<1>6. SlotInv(o)'
  BY <1>1, <1>2, <1>3, <1>4, <1>5, Zenon DEF SlotInv, Publish, task
<1>7. InstallInv(o)'
  BY <1>1, <1>4, <1>5, Zenon DEF Publish, CallInv, InstallInv, Dirty, Building, builder, registries
<1> QED BY <1>6, <1>7

LEMMA RestoreSlotSerial ==
  ASSUME SerialInv, NEW o \in Operators, RestoreSlot(o)
  PROVE  SlotInv(o)' /\ InstallInv(o)'
  BY OfCall
  DEF Shaped, RestoreSlot, Goto, builder, registries, task, CallInv, SlotInv, InstallInv,
      Dirty, Building, Throwaway

LEMMA BakeCancelledSerial ==
  ASSUME SerialInv, NEW o \in Operators, BakeCancelled(o)
  PROVE  SlotInv(o)' /\ InstallInv(o)'
  BY OfCall, Zenon
  DEF Shaped, BakeCancelled, Goto, builder, registries, task, CallInv, SlotInv, InstallInv,
      Dirty, Building, Throwaway

LEMMA GatesPassSerial ==
  ASSUME SerialInv, NEW o \in Operators, GatesPass(o)
  PROVE  SlotInv(o)' /\ InstallInv(o)'
  BY OfCall, Zenon
  DEF Shaped, GatesPass, Goto, builder, registries, task, CallInv, SlotInv, InstallInv,
      Dirty, Building, Throwaway

LEMMA GatesFailSerial ==
  ASSUME SerialInv, NEW o \in Operators, GatesFail(o)
  PROVE  SlotInv(o)' /\ InstallInv(o)'
  BY OfCall, Zenon
  DEF Shaped, GatesFail, Goto, builder, registries, task, CallInv, SlotInv, InstallInv,
      Dirty, Building, Throwaway

LEMMA RollbackSerial ==
  ASSUME SerialInv, NEW o \in Operators, Rollback(o)
  PROVE  SlotInv(o)' /\ InstallInv(o)'
  BY OfCall, Zenon
  DEF Shaped, Rollback, Goto, builder, registries, task, CallInv, SlotInv, InstallInv,
      Dirty, Building, Throwaway

LEMMA ReturnSerial ==
  ASSUME SerialInv, NEW o \in Operators, Return(o)
  PROVE  SlotInv(o)' /\ InstallInv(o)'
<1>1. Shaped /\ CallInv(o) /\ SlotInv(o) /\ InstallInv(o)
  BY OfCall
<1>2. SlotInv(o)'
  BY <1>1, Zenon DEF Shaped, Return, Goto, SlotInv, task
<1>3. pc'[o] = "idle" /\ build' = build /\ result' = result
  BY <1>1, Zenon DEF Shaped, Return, Goto
<1>4. build[o] # "idle" => Throwaway(o)' = Throwaway(o) /\ resolved' = resolved
  BY DEF Return, Throwaway, task
<1>5. InstallInv(o)'
  BY <1>1, <1>3, <1>4, Zenon DEF Shaped, Return, registries, CallInv, InstallInv, Dirty, Building
<1> QED BY <1>2, <1>5

LEMMA CompileTimeoutSerial ==
  ASSUME SerialInv, NEW o \in Operators, CompileTimeout(o)
  PROVE  SlotInv(o)' /\ InstallInv(o)'
  BY OfCall, Zenon
  DEF Shaped, CompileTimeout, Fail, AfterError, Goto, builder, registries, task, CallInv,
      SlotInv, InstallInv, Dirty, Building, Throwaway

LEMMA ReconcileSerial ==
  ASSUME SerialInv, NEW o \in Operators, NEW p \in Pools, Reconcile(o, p)
  PROVE  SlotInv(o)' /\ InstallInv(o)'
<1>1. Shaped /\ CallInv(o) /\ SlotInv(o) /\ InstallInv(o)
  BY OfCall
<1>2. /\ resolved[o] \in Configs /\ PoolsOf[resolved[o]] \subseteq Pools
      /\ pc[o] # "publish" /\ result[o] = None /\ ~Throwaway(o)
      /\ pc[o] = "wait" \/ outcome # "ok"
  BY <1>1, ApplyAssumption, Zenon DEF CallInv, InstallInv, Building, Reconcile
<1>3. SlotInv(o)'
  BY <1>1, Zenon DEF Reconcile, SlotInv, Building, task
<1>4. Reconciled(pools, transports, resolved[o], todo[o])
  BY <1>1, Zenon DEF InstallInv, Reconcile
<1>5. Reconciled(pools', transports', resolved[o], todo'[o])
  BY <1>1, <1>2, <1>4, Zenon DEF Shaped, Reconciled, Reconcile
<1>6. /\ build[o] = "reconcile"
      /\ UNCHANGED <<pc, kind, stage, build, resolved, result, outcome>>
  BY Zenon DEF Reconcile, task
<1>7. InstallInv(o)'
  BY <1>1, <1>2, <1>5, <1>6, Zenon DEF Shaped, InstallInv, Building, Dirty, Throwaway
<1> QED BY <1>3, <1>7

LEMMA MergeSerial ==
  ASSUME SerialInv, NEW o \in Operators, Merge(o)
  PROVE  SlotInv(o)' /\ InstallInv(o)'
<1>1. Shaped /\ CallInv(o) /\ SlotInv(o) /\ InstallInv(o)
  BY OfCall
<1>2. pc[o] # "publish" /\ result[o] = None /\ (Throwaway(o)' <=> Throwaway(o))
  BY <1>1, Zenon DEF CallInv, Merge, Throwaway, task
<1>3. pc[o] = "wait" => resolved'[o] = submitted[o]
  BY <1>1, ApplyAssumption DEF Shaped, CallInv, SlotInv, Merge
<1>4. SlotInv(o)'
  BY <1>1, <1>2, <1>3, Zenon DEF SlotInv, Merge, task
<1>5. /\ outcome = "ok" => Installed(pools, transports, current.config)
      /\ ~Throwaway(o) => pc[o] = "wait" \/ outcome # "ok"
  BY <1>1, <1>2, Zenon DEF InstallInv, Dirty, Merge
<1>6. \/ build'[o] = "done" /\ Throwaway(o)
      \/ build'[o] = "done" /\ ~Throwaway(o) /\ result'[o] = "error"
      \/ /\ build'[o] = "reconcile" /\ ~Throwaway(o) /\ result' = result
         /\ todo'[o] = PoolsOf[resolved'[o]]
  BY <1>1, Zenon DEF Shaped, Merge
<1>7. build'[o] = "reconcile" => Reconciled(pools', transports', resolved'[o], todo'[o])
  BY <1>6 DEF Reconciled
<1>8. InstallInv(o)'
  BY <1>1, <1>2, <1>5, <1>6, <1>7, Zenon DEF Shaped, Merge, InstallInv, Building, Dirty, registries
<1> QED BY <1>4, <1>8

LEMMA ReconcileFailsSerial ==
  ASSUME SerialInv, NEW o \in Operators, ReconcileFails(o)
  PROVE  SlotInv(o)' /\ InstallInv(o)'
  BY OfCall
  DEF Shaped, ReconcileFails, builder, registries, task, CallInv, SlotInv, InstallInv,
      Dirty, Building, Throwaway

LEMMA PrunePoolsSerial ==
  ASSUME SerialInv, NEW o \in Operators, PrunePools(o)
  PROVE  SlotInv(o)' /\ InstallInv(o)'
<1>1. Shaped /\ CallInv(o) /\ SlotInv(o) /\ InstallInv(o)
  BY OfCall
<1>2. /\ resolved[o] \in Configs /\ PoolsOf[resolved[o]] \subseteq Pools
      /\ pc[o] # "publish" /\ result[o] = None /\ ~Throwaway(o)
      /\ pc[o] = "wait" \/ outcome # "ok"
  BY <1>1, ApplyAssumption, Zenon DEF CallInv, InstallInv, Building, PrunePools
<1>3. SlotInv(o)'
  BY <1>1, Zenon DEF Shaped, PrunePools, SlotInv, Building, task
<1>4. Reconciled(pools, transports, resolved[o], {})
  BY <1>1, Zenon DEF InstallInv, PrunePools
<1>5. pools' = PoolsFor(resolved[o])
  BY <1>2, <1>4, Zenon DEF Reconciled, PrunePools, PoolsFor
<1>6. Installed(pools', transports', resolved[o])
  BY <1>4, <1>5, Zenon DEF Reconciled, Installed, PrunePools
<1>7. build'[o] = "remove" /\ todo'[o] \cap PoolsOf[resolved[o]] = {}
  BY <1>1, Zenon DEF Shaped, PrunePools
<1>8. InstallInv(o)'
  BY <1>2, <1>6, <1>7, Zenon DEF PrunePools, InstallInv, Building, Dirty, Throwaway, task
<1> QED BY <1>3, <1>8

LEMMA RemoveTransportsSerial ==
  ASSUME SerialInv, NEW o \in Operators, RemoveTransports(o)
  PROVE  SlotInv(o)' /\ InstallInv(o)'
<1>1. Shaped /\ CallInv(o) /\ SlotInv(o) /\ InstallInv(o)
  BY OfCall
<1>2. /\ resolved[o] \in Configs /\ PoolsOf[resolved[o]] \subseteq Pools
      /\ pc[o] # "publish" /\ result[o] = None /\ ~Throwaway(o)
      /\ pc[o] = "wait" \/ outcome # "ok"
  BY <1>1, ApplyAssumption, Zenon DEF CallInv, InstallInv, Building, RemoveTransports
<1>3. SlotInv(o)'
  BY <1>1 DEF Shaped, RemoveTransports, SlotInv, Building, task
<1>4. Installed(pools, transports, resolved[o]) /\ todo[o] \cap PoolsOf[resolved[o]] = {}
  BY <1>1 DEF InstallInv, RemoveTransports
<1>5. Installed(pools', transports', resolved[o])
  BY <1>2, <1>4 DEF Installed, RemoveTransports
<1>6. InstallInv(o)'
  BY <1>1, <1>2, <1>5 DEF Shaped, RemoveTransports, InstallInv, Building, Dirty, Throwaway, task
<1> QED BY <1>3, <1>6

LEMMA BuildRoutesSerial ==
  ASSUME SerialInv, NEW o \in Operators, BuildRoutes(o)
  PROVE  SlotInv(o)' /\ InstallInv(o)'
<1>1. Shaped /\ CallInv(o) /\ SlotInv(o) /\ InstallInv(o)
  BY OfCall
<1>2. /\ resolved[o] \in Configs /\ PoolsOf[resolved[o]] \subseteq Pools
      /\ pc[o] # "publish" /\ result[o] = None /\ ~Throwaway(o)
      /\ pc[o] = "wait" \/ outcome # "ok"
  BY <1>1, ApplyAssumption, Zenon DEF CallInv, InstallInv, Building, BuildRoutes
<1>3. SlotInv(o)'
  BY <1>1, Zenon DEF Shaped, BuildRoutes, SlotInv, Building, task
<1>4. InstallInv(o)'
  BY <1>1, <1>2, Zenon
  DEF Shaped, BuildRoutes, InstallInv, Building, Dirty, Throwaway, registries, task
<1> QED BY <1>3, <1>4

LEMMA BuildExitSerial ==
  ASSUME SerialInv, NEW o \in Operators, BuildExit(o)
  PROVE  SlotInv(o)' /\ InstallInv(o)'
<1>1. Shaped /\ CallInv(o) /\ SlotInv(o) /\ InstallInv(o)
  BY OfCall
<1>2. SlotInv(o)'
  BY <1>1, Zenon DEF Shaped, BuildExit, Forget, SlotInv
<1>3. outcome = "ok" => Throwaway(o) /\ ~Dirty(o)
  BY <1>1, Zenon DEF InstallInv, Dirty, BuildExit
<1>4. build'[o] = "idle" /\ result'[o] = None /\ pc'[o] = "idle"
  BY <1>1, Zenon DEF Shaped, BuildExit
<1>5. InstallInv(o)'
  BY <1>1, <1>3, <1>4, Zenon DEF Shaped, BuildExit, InstallInv, Building, registries
<1> QED BY <1>2, <1>5

LEMMA AcquireSerial ==
  ASSUME SerialInv, NEW o \in Operators, NEW r \in Requests, Acquire(r)
  PROVE  SlotInv(o)' /\ InstallInv(o)'
  BY OfCall, Zenon
  DEF Shaped, Acquire, builder, registries, task, CallInv, SlotInv, InstallInv, Dirty,
      Building, Throwaway

LEMMA ReleaseSerial ==
  ASSUME SerialInv, NEW o \in Operators, NEW r \in Requests, Release(r)
  PROVE  SlotInv(o)' /\ InstallInv(o)'
  BY OfCall, Zenon
  DEF Shaped, Release, builder, registries, task, CallInv, SlotInv, InstallInv, Dirty,
      Building, Throwaway

LEMMA GetTransportSerial ==
  ASSUME SerialInv, NEW o \in Operators, NEW r \in Requests, NEW p \in Pools, GetTransport(r, p)
  PROVE  SlotInv(o)' /\ InstallInv(o)'
<1>1. Shaped /\ CallInv(o) /\ SlotInv(o) /\ InstallInv(o)
  BY OfCall
<1>2. ASSUME NEW c \in Configs PROVE transports[p] # Transport(c)
  <2>1. Transport(c) \in [opts : Configs \cup {Default}, draining : BOOLEAN]
    BY DEF Transport
  <2> QED BY <2>1, ApplyAssumption, Zenon DEF GetTransport
<1>3. current.config \in Configs
  BY Zenon DEF SerialInv, ApplyInv, TypeOK, Snapshots
<1>4. Building(o) \/ result[o] = "ok" \/ pc[o] = "publish" => resolved[o] \in Configs
  BY <1>1, Zenon DEF CallInv
<1>5. ASSUME NEW c \in Configs
      PROVE  /\ Installed(pools, transports, c) => Installed(pools', transports', c)
             /\ \A left : Reconciled(pools, transports, c, left)
                          => Reconciled(pools', transports', c, left)
  BY <1>1, <1>2, OtherTransport, Zenon DEF Shaped, GetTransport
<1>6. SlotInv(o)'
  BY <1>1, Zenon DEF GetTransport, SlotInv, Building, builder, task
<1>7. InstallInv(o)'
  BY <1>1, <1>3, <1>4, <1>5, Zenon DEF GetTransport, InstallInv, Dirty, Building, Throwaway, builder,
                                task
<1> QED BY <1>6, <1>7

LEMMA ReapTransportSerial ==
  ASSUME SerialInv, NEW o \in Operators, NEW p \in Pools, ReapTransport(p)
  PROVE  SlotInv(o)' /\ InstallInv(o)'
<1>1. Shaped /\ CallInv(o) /\ SlotInv(o) /\ InstallInv(o)
  BY OfCall
<1>2. ASSUME NEW c \in Configs PROVE transports[p] # Transport(c)
  <2>1. Transport(c).draining = FALSE
    BY Zenon DEF Transport
  <2> QED BY <2>1, Zenon DEF ReapTransport
<1>3. current.config \in Configs
  BY Zenon DEF SerialInv, ApplyInv, TypeOK, Snapshots
<1>4. Building(o) \/ result[o] = "ok" \/ pc[o] = "publish" => resolved[o] \in Configs
  BY <1>1, Zenon DEF CallInv
<1>5. ASSUME NEW c \in Configs
      PROVE  /\ Installed(pools, transports, c) => Installed(pools', transports', c)
             /\ \A left : Reconciled(pools, transports, c, left)
                          => Reconciled(pools', transports', c, left)
  BY <1>1, <1>2, OtherTransport, Zenon DEF Shaped, ReapTransport
<1>6. SlotInv(o)'
  BY <1>1, Zenon DEF ReapTransport, SlotInv, Building, builder, task
<1>7. InstallInv(o)'
  BY <1>1, <1>3, <1>4, <1>5, Zenon DEF ReapTransport, InstallInv, Dirty, Building, Throwaway, builder,
                                task
<1> QED BY <1>6, <1>7, Zenon

LEMMA NextSerial == OneOperator /\ SerialInv /\ [Next]_vars => SerialInv'
<1> SUFFICES ASSUME OneOperator, SerialInv, [Next]_vars,
                    NEW o \in Operators
             PROVE  SlotInv(o)' /\ InstallInv(o)'
  BY NextInv, Zenon DEF SerialInv
<1>1. ASSUME NEW k \in Kinds, NEW c \in Configs, Submit(o, k, c)
      PROVE  SlotInv(o)' /\ InstallInv(o)'
  BY <1>1, SubmitSerial
<1>2. CASE Operate(o)
  BY <1>2, SwapSlotSerial, CompileSerial, CompileErrorSerial, CompileOkSerial, StagePressureSerial,
     PublishSerial, RestoreSlotSerial, BakeCancelledSerial, GatesPassSerial, GatesFailSerial, RollbackSerial,
     ReturnSerial, CompileTimeoutSerial, Zenon DEF Operate
<1>3. CASE Build(o)
  BY <1>3, ReconcileSerial, MergeSerial, ReconcileFailsSerial, PrunePoolsSerial,
     RemoveTransportsSerial, BuildRoutesSerial, BuildExitSerial, Zenon DEF Build
<1>4. ASSUME NEW r \in Requests, Acquire(r) \/ Release(r) \/ \E p \in Pools : GetTransport(r, p)
      PROVE  SlotInv(o)' /\ InstallInv(o)'
  BY <1>4, AcquireSerial, ReleaseSerial, GetTransportSerial, Zenon
<1>5. ASSUME NEW p \in Pools, ReapTransport(p) PROVE SlotInv(o)' /\ InstallInv(o)'
  BY <1>5, ReapTransportSerial, Zenon
<1>6. CASE UNCHANGED vars
  BY <1>6, Zenon DEF SerialInv, SlotInv, InstallInv, Building, Dirty, Throwaway, vars, builder,
              registries, task
<1>7. ASSUME NEW q \in Operators PROVE q = o
  BY DEF OneOperator
<1> QED BY <1>1, <1>2, <1>3, <1>4, <1>5, <1>6, <1>7, Zenon DEF Next

\* Operators that take turns, each after the build the last call left behind,
\* leave the proxy as the last success made it: the snapshot carries the version
\* of the configuration it was built from, nothing of a validation or of a failed
\* apply stays in the admin provider's slot, and after a success the registry and
\* the transports are those of the snapshot.
THEOREM SerialApplyCorrect ==
  ASSUME OneOperator
  PROVE  Spec => [](SlotIsLastApplied /\ SuccessIsInstalled)
<1>1. Init => SerialInv
  BY InitInv, InitSerial, Zenon DEF SerialInv
<1>2. SerialInv /\ [Next]_vars => SerialInv'
  BY NextSerial, Zenon
<1>3. SerialInv => SlotIsLastApplied
  BY Zenon DEF OneOperator, SerialInv, SlotIsLastApplied, SlotInv, Quiet
<1>4. SerialInv => SuccessIsInstalled
  BY Zenon DEF OneOperator, SerialInv, SuccessIsInstalled, InstallInv, Installed, Dirty, Quiet
<1> QED BY <1>1, <1>2, <1>3, <1>4, PTL DEF Spec

\* SlotIsLastApplied: with one operator at a time a snapshot carries the version
\* of its configuration, and nothing of a validation or of a failed apply stays in
\* the admin provider's slot.
THEOREM SlotHolds == ASSUME OneOperator PROVE Spec => []SlotIsLastApplied
BY SerialApplyCorrect, PTL

-----------------------------------------------------------------------------
(* BundleHistory: the bundles a rollback can find.                          *)
CONSTANTS
  Puller, Pulling, Versions, Initial, Cut, HistoryLimit, MaxCalls
VARIABLES
  live, bundles, files, latest, put, putting, unread, target, prior, full,
  serial, calls

H == INSTANCE BundleHistory

\* The store, and the calls that will write it.
StoreInv ==
  /\ DOMAIN pc = H!Actors /\ DOMAIN target = H!Actors /\ DOMAIN prior = H!Actors
  /\ full \in Seq(Versions) /\ previous \in Seq(Versions) /\ bundles \subseteq Versions
  /\ current \in bundles \cup {None}
  /\ current = None => previous = <<>>
  /\ H!PreviousUsable
  /\ Len(previous) <= HistoryLimit
  /\ pc[Puller] \notin {"apply", "record"}
  /\ \A o \in Operators : /\ pc[o] \in {"idle", "apply", "locked", "bake", "record"}
                          /\ pc[o] # "idle" => target[o] \in Versions

LEMMA StoreInit == ASSUME H!HistoryConstants, H!Init PROVE StoreInv
BY DEF H!HistoryConstants, H!Init, StoreInv, H!PreviousUsable, H!Actors

\* A step of one actor that writes neither the store nor what was installed.
LEMMA StoreActor ==
  ASSUME H!HistoryConstants, StoreInv, NEW a \in H!Actors, NEW label,
         pc' = [pc EXCEPT ![a] = label],
         DOMAIN target' = H!Actors, DOMAIN prior' = H!Actors,
         \A b \in H!Actors \ {a} : target'[b] = target[b],
         IF a = Puller THEN label \notin {"apply", "record"}
         ELSE /\ label \in {"idle", "apply", "locked", "bake", "record"}
              /\ label # "idle" => target'[a] \in Versions,
         UNCHANGED H!store, full' \in Seq(Versions)
  PROVE  StoreInv'
BY Zenon DEF StoreInv, H!PreviousUsable, H!store, H!Actors, H!HistoryConstants

LEMMA StoreStart ==
  ASSUME H!HistoryConstants, StoreInv, NEW o \in Operators, NEW v \in Versions,
         NEW label \in {"apply", "locked"}, H!Start(o, v, label)
  PROVE  StoreInv'
<1>1. o \in H!Actors /\ o # Puller
  BY Zenon DEF H!Actors, H!HistoryConstants
<1>2. /\ pc' = [pc EXCEPT ![o] = label] /\ UNCHANGED H!store /\ full' = full
      /\ DOMAIN target' = H!Actors /\ DOMAIN prior' = H!Actors /\ target'[o] = v
      /\ \A b \in H!Actors \ {o} : target'[b] = target[b]
  BY <1>1, Zenon DEF H!Start, H!Goto, StoreInv
<1> QED BY <1>1, <1>2, StoreActor, Zenon DEF StoreInv

\* What a call starts with is a version.
LEMMA CallStarts ==
  ASSUME H!HistoryConstants, StoreInv, NEW o \in Operators, H!Call(o)
  PROVE  \E v \in Versions, label \in {"apply", "locked"} : H!Start(o, v, label)
<1>1. ASSUME H!HandleRollback(o) PROVE Head(previous) \in Versions
  BY <1>1, Zenon DEF H!HandleRollback, StoreInv
<1> QED BY <1>1, Zenon DEF H!Call, H!HandleRollback, H!HandleApply, H!HandleBundle, H!HandleRollbackTo,
                    StoreInv

\* End's part in every installing step.
LEMMA EndSteps ==
  ASSUME StoreInv, NEW a \in H!Actors, NEW label, H!End(a, label)
  PROVE  /\ pc' = [pc EXCEPT ![a] = label]
         /\ DOMAIN target' = H!Actors /\ DOMAIN prior' = H!Actors
         /\ \A b \in H!Actors \ {a} : target'[b] = target[b] /\ prior'[b] = prior[b]
         /\ label = "record" => target'[a] = target[a]
         /\ serial' = serial
BY Zenon DEF H!End, H!Goto, StoreInv

LEMMA StoreEnds ==
  ASSUME H!HistoryConstants, StoreInv, NEW a \in H!Actors,
         H!InstallFails(a) \/ H!BakeCancelled(a) \/ H!RolloutRollback(a)
  PROVE  StoreInv'
<1>1. H!End(a, "idle") /\ UNCHANGED <<H!store, full>>
  BY Zenon DEF H!InstallFails, H!BakeCancelled, H!RolloutRollback
<1> QED BY <1>1, EndSteps, StoreActor DEF StoreInv

LEMMA InstalledFull ==
  ASSUME H!HistoryConstants, StoreInv, NEW a \in H!Actors, pc[a] \in {"apply", "bake"},
         H!InFull(a, target[a])
  PROVE  full' \in Seq(Versions)
BY DEF StoreInv, H!InFull, H!Actors

LEMMA StoreInstalls ==
  ASSUME H!HistoryConstants, StoreInv, NEW a \in H!Actors, H!Apply(a) \/ H!ApplyFull(a)
  PROVE  StoreInv'
<1>1. full' \in Seq(Versions)
  BY InstalledFull, Zenon DEF H!Apply, H!ApplyFull
<1>2. PICK label : /\ H!End(a, label)
                   /\ label = IF a = Puller THEN "idle" ELSE "record"
  BY Zenon DEF H!Apply, H!ApplyFull, H!Installed, StoreInv
<1>3. a # Puller => a \in Operators /\ target[a] \in Versions
  BY Zenon DEF H!Apply, H!ApplyFull, StoreInv, H!Actors
<1>4. UNCHANGED H!store
  BY Zenon DEF H!Apply, H!ApplyFull
<1> QED BY <1>1, <1>2, <1>3, <1>4, EndSteps, StoreActor, Zenon

LEMMA StoreLocked ==
  ASSUME H!HistoryConstants, StoreInv, NEW a \in H!Actors, H!ApplyLocked(a) PROVE StoreInv'
<1>1. /\ pc' = [pc EXCEPT ![a] = "bake"] /\ UNCHANGED <<H!store, target, prior, full>>
      /\ pc[a] = "locked"
  BY Zenon DEF H!ApplyLocked, H!Goto
<1>2. a # Puller => target[a] \in Versions
  BY <1>1, Zenon DEF StoreInv, H!Actors
<1> QED BY <1>1, <1>2, StoreActor, Zenon DEF StoreInv

\* What Record makes of the history.
LEMMA Recording ==
  ASSUME H!HistoryConstants, StoreInv, NEW v \in Versions, current # v,
         previous' = IF Len(H!NewHistory) > HistoryLimit THEN SubSeq(H!NewHistory, 1, HistoryLimit)
                     ELSE H!NewHistory
  PROVE  IF current = None THEN previous' = <<>>
         ELSE /\ previous' \in Seq(Versions)
              /\ Len(previous') = IF Len(previous) < HistoryLimit THEN Len(previous) + 1
                                  ELSE HistoryLimit
              /\ previous'[1] = current
              /\ \A i \in 2..Len(previous') : previous'[i] = previous[i - 1]
<1>1. CASE current = None
  BY <1>1 DEF H!NewHistory, StoreInv, H!HistoryConstants
<1>2. CASE current # None
  <2>1. current \in Versions /\ previous \in Seq(Versions) /\ HistoryLimit \in Nat \ {0}
    BY <1>2, Zenon DEF StoreInv, H!HistoryConstants
  <2>2. /\ H!NewHistory \in Seq(Versions) /\ Len(H!NewHistory) = Len(previous) + 1
        /\ H!NewHistory[1] = current
        /\ \A i \in 2..Len(H!NewHistory) : H!NewHistory[i] = previous[i - 1]
    BY <1>2, <2>1 DEF H!NewHistory
  <2>3. Len(previous) <= HistoryLimit
    BY Zenon DEF StoreInv
  <2> HIDE DEF H!NewHistory
  <2>4. CASE Len(H!NewHistory) > HistoryLimit
    <3>1. previous' = SubSeq(H!NewHistory, 1, HistoryLimit)
      BY <2>4, Zenon
    <3>2. /\ previous' \in Seq(Versions) /\ Len(previous') = HistoryLimit
          /\ \A i \in 1..HistoryLimit : previous'[i] = H!NewHistory[i]
      BY <2>1, <2>2, <2>4, <3>1
    <3> QED BY <1>2, <2>1, <2>2, <2>3, <2>4, <3>2
  <2>5. CASE ~(Len(H!NewHistory) > HistoryLimit)
    BY <1>2, <2>1, <2>2, <2>3, <2>5
  <2> QED BY <2>4, <2>5, Zenon
<1> QED BY <1>1, <1>2, Zenon

LEMMA StoreRecord ==
  ASSUME H!HistoryConstants, StoreInv, NEW a \in H!Actors, H!Record(a) PROVE StoreInv'
<1> DEFINE v == target[a]
<1>1. /\ current' = v /\ bundles' = bundles \cup {v} /\ full' = full /\ H!End(a, "idle")
      /\ pc[a] = "record"
  BY Zenon DEF H!Record
<1>2. v \in Versions
  BY <1>1, Zenon DEF StoreInv, H!Actors
<1>3. /\ DOMAIN pc' = H!Actors /\ DOMAIN target' = H!Actors /\ DOMAIN prior' = H!Actors
      /\ pc'[Puller] \notin {"apply", "record"}
      /\ \A o \in Operators : /\ pc'[o] \in {"idle", "apply", "locked", "bake", "record"}
                              /\ pc'[o] # "idle" => target'[o] \in Versions
  <2>1. /\ pc' = [pc EXCEPT ![a] = "idle"] /\ DOMAIN target' = H!Actors /\ DOMAIN prior' = H!Actors
        /\ \A b \in H!Actors \ {a} : target'[b] = target[b]
    BY <1>1, EndSteps, Zenon
  <2> QED BY <2>1, Zenon DEF StoreInv, H!Actors
<1>4. v # None
  BY <1>2, Zenon DEF H!HistoryConstants
<1>5. CASE current = v
  <2>1. previous' = previous
    BY <1>5, Zenon DEF H!Record
  <2>2. H!PreviousUsable'
    BY <1>1, <1>5, <2>1, Zenon DEF StoreInv, H!PreviousUsable
  <2> QED BY <1>1, <1>2, <1>3, <1>4, <2>1, <2>2, Zenon DEF StoreInv
<1>6. CASE current # v
  <2>1. previous' = IF Len(H!NewHistory) > HistoryLimit THEN SubSeq(H!NewHistory, 1, HistoryLimit)
                    ELSE H!NewHistory
    BY <1>6, Zenon DEF H!Record
  <2>2. CASE current = None
    <3>1. previous' = <<>>
      BY <1>2, <1>6, <2>1, <2>2, Recording, Zenon
    <3>2. H!PreviousUsable' /\ Len(previous') <= HistoryLimit /\ previous' \in Seq(Versions)
      BY <3>1 DEF H!PreviousUsable, H!HistoryConstants
    <3> QED BY <1>1, <1>2, <1>3, <1>4, <3>2, Zenon DEF StoreInv
  <2>3. CASE current # None
    <3>1. /\ previous' \in Seq(Versions)
          /\ Len(previous') = IF Len(previous) < HistoryLimit THEN Len(previous) + 1
                              ELSE HistoryLimit
          /\ previous'[1] = current
          /\ \A i \in 2..Len(previous') : previous'[i] = previous[i - 1]
      BY <1>2, <1>6, <2>1, <2>3, Recording, Zenon
    <3>2. Len(previous) \in Nat /\ HistoryLimit \in Nat \ {0} /\ current \in bundles
      BY <2>3 DEF StoreInv, H!HistoryConstants
    <3>3. \A i \in 1..Len(previous') : previous'[i] \in bundles'
      <4> SUFFICES ASSUME NEW i \in 1..Len(previous') PROVE previous'[i] \in bundles
        BY <1>1, Zenon
      <4>1. CASE i = 1
        BY <3>1, <3>2, <4>1, Zenon
      <4>2. CASE i # 1
        <5>1. i - 1 \in 1..Len(previous) /\ previous'[i] = previous[i - 1]
          BY <3>1, <3>2, <4>2
        <5> QED BY <5>1, Zenon DEF StoreInv, H!PreviousUsable
      <4> QED BY <4>1, <4>2, Zenon
    <3>4. H!PreviousUsable' /\ Len(previous') <= HistoryLimit
      BY <1>1, <1>6, <3>1, <3>2, <3>3 DEF H!PreviousUsable
    <3> QED BY <1>1, <1>2, <1>3, <1>4, <3>1, <3>4, Zenon DEF StoreInv
  <2> QED BY <2>2, <2>3, Zenon
<1> QED BY <1>5, <1>6, Zenon

\* A step of the puller outside the installation.
PullStep(label) ==
  /\ pc' = [pc EXCEPT ![Puller] = label]
  /\ DOMAIN target' = DOMAIN target /\ DOMAIN prior' = DOMAIN prior
  /\ \A b \in H!Actors \ {Puller} : target'[b] = target[b] /\ prior'[b] = prior[b]
  /\ UNCHANGED <<H!store, live, full>>

LEMMA Pulls ==
  ASSUME H!HistoryConstants, StoreInv, H!PullOnce
  PROVE  \/ \E label \in {"idle", "get", "list", "fetched"} : PullStep(label) /\ (serial' => serial)
         \/ PullStep("locked") /\ ~serial'
<1>1. ASSUME H!PullCheck
      PROVE  \/ PullStep("idle") /\ (serial' => serial)
             \/ PullStep("locked") /\ ~serial'
  <2>1. \/ pc' = [pc EXCEPT ![Puller] = "idle"] /\ (serial' => serial)
        \/ pc' = [pc EXCEPT ![Puller] = "locked"] /\ ~serial'
    BY <1>1, Zenon DEF H!PullCheck, H!Goto
  <2>2. /\ DOMAIN target' = DOMAIN target /\ DOMAIN prior' = DOMAIN prior
        /\ \A b \in H!Actors \ {Puller} : target'[b] = target[b] /\ prior'[b] = prior[b]
        /\ UNCHANGED <<H!store, live, full>>
    BY <1>1, Zenon DEF H!PullCheck, StoreInv
  <2> QED BY <2>1, <2>2, Zenon DEF PullStep
<1>2. ASSUME NEW from, NEW to, NEW v, H!Pull(from, to, v)
      PROVE  PullStep(to) /\ (serial' => serial)
  BY <1>2, Zenon DEF H!Pull, PullStep, H!Goto, StoreInv, H!Actors
<1> QED BY <1>1, <1>2, Zenon DEF H!PullOnce, H!PullLatest, H!PullGet, H!PullList, H!PullNewest

LEMMA StorePull ==
  ASSUME H!HistoryConstants, StoreInv, H!PullOnce PROVE StoreInv'
<1>1. PICK label \in {"idle", "get", "list", "fetched", "locked"} : PullStep(label)
  BY Pulls, Zenon
<1> QED BY <1>1, StoreActor, Zenon DEF PullStep, H!Actors, StoreInv

\* The publisher's steps touch neither the store nor the calls.
LEMMA Publishes ==
  ASSUME H!PutStep \/ H!PutStops \/ (\E v \in Versions : H!Put(v)) \/ UNCHANGED H!vars
  PROVE  UNCHANGED <<live, H!store, pc, target, prior, full, serial>>
BY Zenon DEF H!PutStep, H!PutStops, H!Put, H!PutBundle, H!CutLatest, H!PutLatest, H!Write, H!vars,
       H!store

LEMMA StorePut ==
  ASSUME StoreInv, UNCHANGED <<live, H!store, pc, target, prior, full, serial>> PROVE StoreInv'
BY Zenon DEF StoreInv, H!PreviousUsable, H!store

LEMMA StoreNext == ASSUME H!HistoryConstants, StoreInv, [H!Next]_H!vars PROVE StoreInv'
<1>1. ASSUME NEW o \in Operators, H!Call(o) PROVE StoreInv'
  BY <1>1, CallStarts, StoreStart, Zenon
<1>2. ASSUME NEW a \in H!Actors, H!Install(a) PROVE StoreInv'
  BY <1>2, StoreEnds, StoreInstalls, StoreLocked, StoreRecord, Zenon DEF H!Install
<1> QED BY <1>1, <1>2, StorePull, StorePut, Publishes, Zenon DEF H!Next

\* PreviousUsable, for any actors, versions and limit: whatever calls of Record
\* overlap, the versions that handleRollback may take have their bundles.
THEOREM RollbackFindsBundle == ASSUME H!HistoryConstants PROVE H!Spec => []H!PreviousUsable
<1>1. H!Init => StoreInv
  BY StoreInit, Zenon
<1>2. StoreInv /\ [H!Next]_H!vars => StoreInv'
  BY StoreNext
<1>3. StoreInv => H!PreviousUsable
  BY Zenon DEF StoreInv
<1> QED BY <1>1, <1>2, <1>3, PTL DEF H!Spec

-----------------------------------------------------------------------------
\* The store holds the tail of f, newest first.
Recorded(f) ==
  IF f = <<>> THEN current = None /\ previous = <<>>
  ELSE /\ current = f[Len(f)]
       /\ Len(previous) = IF Len(f) > HistoryLimit THEN HistoryLimit ELSE Len(f) - 1
       /\ \A i \in 1..Len(previous) : previous[i] = f[Len(f) - i]

\* Snapshot s agrees with the store, unless it is an abandoned rollout's.
Agrees(s) == full # <<>> => s.locked \/ s.version = current

\* The call that is about to record v: v is what was installed last, and the
\* store is as it was before that.
AboutToRecord(v) ==
  /\ full # <<>> /\ full[Len(full)] = v /\ live.version = v
  /\ \/ Recorded(full)
     \/ current # v /\ Recorded(SubSeq(full, 1, Len(full) - 1))

\* As long as calls came one at a time and the puller installed nothing.
HistoryInv ==
  serial =>
    /\ pc[Puller] \in {"idle", "get", "list", "fetched"}
    /\ \A o, p \in Operators : pc[o] # "idle" /\ pc[p] # "idle" => o = p
    /\ (\A o \in Operators : pc[o] # "record") => Recorded(full) /\ Agrees(live)
    /\ \A o \in Operators : pc[o] \in {"apply", "locked", "bake"} => Agrees(prior[o])
    /\ \A o \in Operators : pc[o] = "record" => AboutToRecord(target[o])

LEMMA SerialInit == ASSUME H!HistoryConstants, H!Init PROVE HistoryInv
BY Zenon DEF H!Init, HistoryInv, Recorded, Agrees, H!Actors, H!HistoryConstants

LEMMA SerialStart ==
  ASSUME H!HistoryConstants, StoreInv, HistoryInv, NEW o \in Operators, NEW v \in Versions,
         NEW label \in {"apply", "locked"}, H!Start(o, v, label)
  PROVE  HistoryInv'
<1> SUFFICES ASSUME serial' PROVE HistoryInv'
  BY Zenon DEF HistoryInv
<1>1. /\ serial /\ \A a \in H!Actors : pc[a] = "idle"
      /\ UNCHANGED <<live, current, previous, full>>
  BY Zenon DEF H!Start, H!Quiet, H!store
<1>2. /\ pc'[o] = label /\ prior'[o] = live
      /\ \A a \in H!Actors \ {o} : pc'[a] = "idle"
  BY <1>1, Zenon DEF H!Start, H!Goto, StoreInv, H!Actors
<1>3. Recorded(full) /\ Agrees(live)
  BY <1>1, Zenon DEF HistoryInv, H!Actors
<1>4. Recorded(full)' /\ Agrees(live)' /\ Agrees(prior[o])'
  BY <1>1, <1>2, <1>3, Zenon DEF Recorded, Agrees
<1>5. o # Puller /\ Puller \in H!Actors /\ Operators \subseteq H!Actors
  BY Zenon DEF H!HistoryConstants, H!Actors
<1> QED BY <1>2, <1>4, <1>5, Zenon DEF HistoryInv

\* While it runs, the one call is alone.
LEMMA Alone ==
  ASSUME H!HistoryConstants, StoreInv, HistoryInv, serial, NEW a \in H!Actors,
         pc[a] \in {"apply", "locked", "bake", "record"}
  PROVE  /\ a \in Operators /\ a # Puller
         /\ \A o \in Operators \ {a} : pc[o] = "idle"
BY Zenon DEF HistoryInv, H!Actors, H!HistoryConstants

LEMMA SerialEnds ==
  ASSUME H!HistoryConstants, StoreInv, HistoryInv, NEW a \in H!Actors,
         H!InstallFails(a) \/ H!BakeCancelled(a) \/ H!RolloutRollback(a)
  PROVE  HistoryInv'
<1>1. /\ H!End(a, "idle") /\ UNCHANGED <<current, previous, full>>
      /\ pc[a] \in {"apply", "locked", "bake"} /\ live' \in {live, prior[a]}
  BY Zenon DEF H!InstallFails, H!BakeCancelled, H!RolloutRollback, H!store
<1>2. serial' = serial /\ pc' = [pc EXCEPT ![a] = "idle"]
  BY <1>1, EndSteps, Zenon
<1> SUFFICES ASSUME serial PROVE HistoryInv'
  BY <1>2, Zenon DEF HistoryInv
<1>3. /\ a \in Operators /\ a # Puller
      /\ \A o \in Operators \ {a} : pc[o] = "idle"
  BY <1>1, Alone, Zenon
<1>4. /\ \A o \in Operators : pc'[o] = "idle"
      /\ pc'[Puller] = pc[Puller]
  BY <1>2, <1>3, Zenon DEF StoreInv, H!Actors
<1>5. Recorded(full) /\ Agrees(live) /\ Agrees(prior[a])
  BY <1>1, <1>3, Zenon DEF HistoryInv
<1>6. Recorded(full)' /\ Agrees(live)'
  BY <1>1, <1>5, Zenon DEF Recorded, Agrees
<1> QED BY <1>4, <1>6, Zenon DEF HistoryInv

\* What is installed in full comes last in full.
LEMMA Installing ==
  ASSUME H!HistoryConstants, StoreInv, NEW v \in Versions, NEW a \in Operators, a # Puller,
         Recorded(full), H!InFull(a, v), UNCHANGED <<current, previous>>, live'.version = v
  PROVE  AboutToRecord(v)'
<1>1. full \in Seq(Versions) /\ v # None
  BY Zenon DEF StoreInv, H!HistoryConstants
<1>2. CASE full # <<>> /\ full[Len(full)] = v
  BY <1>2, Zenon DEF H!InFull, AboutToRecord, Recorded
<1>3. CASE ~(full # <<>> /\ full[Len(full)] = v)
  <2>1. full' = Append(full, v)
    BY <1>3, Zenon DEF H!InFull
  <2>2. full' # <<>> /\ full'[Len(full')] = v /\ SubSeq(full', 1, Len(full') - 1) = full
    BY <1>1, <2>1
  <2>3. current # v
    BY <1>1, <1>3, Zenon DEF Recorded
  <2>4. Recorded(SubSeq(full, 1, Len(full) - 1))'
    BY <2>2, Zenon DEF Recorded
  <2> QED BY <2>2, <2>3, <2>4, Zenon DEF AboutToRecord
<1> QED BY <1>2, <1>3, Zenon

LEMMA SerialInstalls ==
  ASSUME H!HistoryConstants, StoreInv, HistoryInv, NEW a \in H!Actors, H!Apply(a) \/ H!ApplyFull(a)
  PROVE  HistoryInv'
<1>1. /\ \/ H!End(a, "record")
         \/ a = Puller /\ H!End(a, "idle")
      /\ UNCHANGED <<current, previous>> /\ H!InFull(a, target[a])
      /\ pc[a] \in {"apply", "bake"} /\ live'.version = target[a]
  BY DEF H!Apply, H!ApplyFull, H!store, H!Installed
<1>2. serial' = serial
  BY <1>1, EndSteps, Zenon
<1> SUFFICES ASSUME serial PROVE HistoryInv'
  BY <1>2, Zenon DEF HistoryInv
<1>3. /\ a \in Operators /\ a # Puller
      /\ \A o \in Operators \ {a} : pc[o] = "idle"
  BY <1>1, Alone, Zenon
<1>4. pc' = [pc EXCEPT ![a] = "record"] /\ target'[a] = target[a]
  BY <1>1, <1>3, EndSteps, Zenon
<1>5. /\ \A o \in Operators \ {a} : pc'[o] = "idle"
      /\ pc'[Puller] = pc[Puller] /\ pc'[a] = "record"
  BY <1>3, <1>4, Zenon DEF StoreInv, H!Actors
<1>6. Recorded(full) /\ target[a] \in Versions
  BY <1>1, <1>3, Zenon DEF HistoryInv, StoreInv
<1>7. AboutToRecord(target[a])'
  BY <1>1, <1>3, <1>4, <1>6, Installing, Zenon
<1> QED BY <1>3, <1>5, <1>7, Zenon DEF HistoryInv

LEMMA SerialLocked ==
  ASSUME H!HistoryConstants, StoreInv, HistoryInv, NEW a \in H!Actors, H!ApplyLocked(a)
  PROVE  HistoryInv'
<1>1. /\ pc[a] = "locked" /\ pc' = [pc EXCEPT ![a] = "bake"] /\ live'.locked
      /\ UNCHANGED <<current, previous, prior, full, serial>>
  BY Zenon DEF H!ApplyLocked, H!Goto, H!store
<1> SUFFICES ASSUME serial PROVE HistoryInv'
  BY <1>1, Zenon DEF HistoryInv
<1>2. /\ a \in Operators /\ a # Puller
      /\ \A o \in Operators \ {a} : pc[o] = "idle"
  BY <1>1, Alone, Zenon
<1>3. /\ \A o \in Operators \ {a} : pc'[o] = "idle"
      /\ pc'[Puller] = pc[Puller] /\ pc'[a] = "bake"
  BY <1>1, <1>2, Zenon DEF StoreInv, H!Actors
<1>4. Recorded(full) /\ Agrees(prior[a])
  BY <1>1, <1>2, Zenon DEF HistoryInv
<1>5. Recorded(full)' /\ Agrees(live)' /\ Agrees(prior[a])'
  BY <1>1, <1>4, Zenon DEF Recorded, Agrees
<1> QED BY <1>2, <1>3, <1>5, Zenon DEF HistoryInv

\* Record brings the store up to date.
LEMMA RecordCatchesUp ==
  ASSUME H!HistoryConstants, StoreInv, NEW a \in H!Actors, H!Record(a), target[a] \in Versions,
         AboutToRecord(target[a])
  PROVE  Recorded(full)'
<1> DEFINE v == target[a]
           n == Len(full)
           f == SubSeq(full, 1, n - 1)
<1>1. /\ current' = v /\ full' = full /\ full # <<>> /\ full[n] = v /\ v # None
      /\ full \in Seq(Versions) /\ HistoryLimit \in Nat \ {0} /\ n \in Nat \ {0}
      /\ Len(previous) \in Nat
  BY DEF H!Record, AboutToRecord, StoreInv, H!HistoryConstants
<1>2. CASE current = v
  <2>1. Recorded(full) /\ previous' = previous
    BY <1>2, Zenon DEF AboutToRecord, H!Record
  <2> QED BY <1>1, <1>2, <2>1, Zenon DEF Recorded
<1>3. CASE current # v
  <2>1. previous' = IF Len(H!NewHistory) > HistoryLimit THEN SubSeq(H!NewHistory, 1, HistoryLimit)
                    ELSE H!NewHistory
    BY <1>3, Zenon DEF H!Record
  <2>2. Recorded(f)
    BY <1>1, <1>3, Zenon DEF AboutToRecord, Recorded
  <2>3. f \in Seq(Versions) /\ Len(f) = n - 1 /\ \A i \in 1..(n - 1) : f[i] = full[i]
    <3>1. ASSUME NEW k \in Nat, k <= Len(full), NEW s \in Seq(Versions), s = SubSeq(full, 1, k)
          PROVE  Len(s) = k /\ \A i \in 1..k : s[i] = full[i]
      BY <1>1, <3>1
    <3>2. f \in Seq(Versions) /\ n - 1 \in Nat /\ n - 1 <= Len(full)
      BY <1>1
    <3> HIDE DEF n
    <3> QED BY <3>1, <3>2, Zenon
  <2> HIDE DEF f, v
  <2>4. CASE n = 1
    <3>1. current = None
      BY <2>2, <2>3, <2>4 DEF Recorded
    <3>2. previous' = <<>>
      BY <1>3, <2>1, <3>1, Recording, Zenon DEF v
    <3> QED BY <1>1, <2>4, <3>2 DEF Recorded
  <2>5. CASE n > 1
    <3>1. /\ current = full[n - 1] /\ current # None
          /\ Len(previous) = IF n - 1 > HistoryLimit THEN HistoryLimit ELSE n - 2
          /\ \A i \in 1..Len(previous) : previous[i] = full[n - 1 - i]
      <4>1. f # <<>>
        BY <2>3, <2>5
      <4>2. /\ current = f[n - 1]
            /\ Len(previous) = IF n - 1 > HistoryLimit THEN HistoryLimit ELSE n - 1 - 1
            /\ \A i \in 1..Len(previous) : previous[i] = f[n - 1 - i]
        BY <2>2, <2>3, <4>1, Zenon DEF Recorded
      <4>3. current \in Versions /\ current = full[n - 1]
        BY <1>1, <2>3, <2>5, <4>2
      <4>4. ASSUME NEW i \in 1..Len(previous) PROVE previous[i] = full[n - 1 - i]
        <5>1. n - 1 - i \in 1..(n - 1)
          BY <1>1, <2>5, <4>2, <4>4
        <5> QED BY <2>3, <4>2, <4>4, <5>1, Zenon
      <4> QED BY <1>1, <2>5, <4>2, <4>3, <4>4 DEF H!HistoryConstants
    <3>2. /\ Len(previous') = IF Len(previous) < HistoryLimit THEN Len(previous) + 1
                              ELSE HistoryLimit
          /\ previous'[1] = current
          /\ \A i \in 2..Len(previous') : previous'[i] = previous[i - 1]
      BY <1>3, <2>1, <3>1, Recording, Zenon DEF v
    <3>3. Len(previous') = IF n > HistoryLimit THEN HistoryLimit ELSE n - 1
      BY <1>1, <2>5, <3>1, <3>2
    <3>4. ASSUME NEW i \in 1..Len(previous') PROVE previous'[i] = full[n - i]
      <4>1. CASE i = 1
        BY <3>1, <3>2, <4>1, Zenon
      <4>2. CASE i # 1
        <5>1. i \in 2..Len(previous') /\ i - 1 \in 1..Len(previous) /\ n - 1 - (i - 1) = n - i
          BY <1>1, <2>5, <3>1, <3>2, <3>3, <3>4, <4>2
        <5> QED BY <3>1, <3>2, <5>1, Zenon
      <4> QED BY <4>1, <4>2, Zenon
    <3> QED BY <1>1, <3>3, <3>4, Zenon DEF Recorded, v
  <2>6. n = 1 \/ n > 1
    <3>1. n \in Nat /\ n # 0
      BY <1>1, Zenon
    <3> HIDE DEF n
    <3> QED BY <3>1
  <2> QED BY <2>4, <2>5, <2>6, Zenon
<1> QED BY <1>2, <1>3, Zenon

LEMMA SerialRecord ==
  ASSUME H!HistoryConstants, StoreInv, HistoryInv, NEW a \in H!Actors, H!Record(a)
  PROVE  HistoryInv'
<1>1. /\ pc[a] = "record" /\ H!End(a, "idle") /\ current' = target[a] /\ UNCHANGED <<live, full>>
  BY Zenon DEF H!Record
<1>2. serial' = serial /\ pc' = [pc EXCEPT ![a] = "idle"]
  BY <1>1, EndSteps, Zenon
<1> SUFFICES ASSUME serial PROVE HistoryInv'
  BY <1>2, Zenon DEF HistoryInv
<1>3. /\ a \in Operators /\ a # Puller
      /\ \A o \in Operators \ {a} : pc[o] = "idle"
  BY <1>1, Alone, Zenon
<1>4. /\ \A o \in Operators : pc'[o] = "idle"
      /\ pc'[Puller] = pc[Puller]
  BY <1>2, <1>3, Zenon DEF StoreInv, H!Actors
<1>5. AboutToRecord(target[a]) /\ target[a] \in Versions
  BY <1>1, <1>3, Zenon DEF HistoryInv, StoreInv
<1>6. Recorded(full)'
  BY <1>5, RecordCatchesUp, Zenon
<1>7. Agrees(live)'
  BY <1>1, <1>5, Zenon DEF AboutToRecord, Agrees
<1> QED BY <1>4, <1>6, <1>7, Zenon DEF HistoryInv

LEMMA SerialPull ==
  ASSUME H!HistoryConstants, StoreInv, HistoryInv, H!PullOnce PROVE HistoryInv'
<1> SUFFICES ASSUME serial' PROVE HistoryInv'
  BY Zenon DEF HistoryInv
<1>1. PICK label \in {"idle", "get", "list", "fetched"} : PullStep(label) /\ serial
  BY Pulls, Zenon
<1>2. /\ pc'[Puller] = label /\ UNCHANGED <<current, previous, full, live>>
      /\ \A o \in Operators : pc'[o] = pc[o] /\ target'[o] = target[o] /\ prior'[o] = prior[o]
  BY <1>1, Zenon DEF PullStep, StoreInv, H!Actors, H!HistoryConstants, H!store
<1> QED BY <1>1, <1>2 DEF HistoryInv, Recorded, Agrees, AboutToRecord

LEMMA SerialPut ==
  ASSUME HistoryInv, UNCHANGED <<live, H!store, pc, target, prior, full, serial>> PROVE HistoryInv'
BY Zenon DEF HistoryInv, Recorded, Agrees, AboutToRecord, H!store

LEMMA SerialNext == ASSUME H!HistoryConstants, StoreInv, HistoryInv, [H!Next]_H!vars PROVE HistoryInv'
<1>1. ASSUME NEW o \in Operators, H!Call(o) PROVE HistoryInv'
  BY <1>1, CallStarts, SerialStart, Zenon
<1>2. ASSUME NEW a \in H!Actors, H!Install(a) PROVE HistoryInv'
  BY <1>2, SerialEnds, SerialInstalls, SerialLocked, SerialRecord, Zenon DEF H!Install
<1> QED BY <1>1, <1>2, SerialPull, SerialPut, Publishes, Zenon DEF H!Next

\* HistoryIsWhatWasInstalled, for any actors, versions and limit: Record keeps the
\* newest installed versions in order and drops only what the limit makes it drop.
THEOREM HistoryExact == ASSUME H!HistoryConstants PROVE H!Spec => []H!HistoryIsWhatWasInstalled
<1>1. H!Init => StoreInv /\ HistoryInv
  BY StoreInit, SerialInit, Zenon
<1>2. StoreInv /\ HistoryInv /\ [H!Next]_H!vars => StoreInv' /\ HistoryInv'
  BY StoreNext, SerialNext, Zenon
<1>3. ASSUME StoreInv, HistoryInv PROVE H!HistoryIsWhatWasInstalled
  <2> SUFFICES ASSUME H!Quiet, serial, full # <<>>
               PROVE  /\ Len(previous) = IF Len(full) > HistoryLimit THEN HistoryLimit
                                         ELSE Len(full) - 1
                      /\ \A i \in 0..Len(previous) :
                           (<<current>> \o previous)[i + 1] = full[Len(full) - i]
                      /\ live.locked \/ live.version = current
    BY Zenon DEF H!HistoryIsWhatWasInstalled
  <2>1. Recorded(full) /\ Agrees(live)
    BY <1>3, Zenon DEF HistoryInv, H!Quiet, H!Actors
  <2>2. ASSUME NEW i \in 0..Len(previous)
        PROVE  (<<current>> \o previous)[i + 1] = full[Len(full) - i]
    <3>1. previous \in Seq(Versions) /\ full \in Seq(Versions) /\ Len(full) \in Nat
      BY <1>3 DEF StoreInv
    <3>2. CASE i = 0
      <4>1. (<<current>> \o previous)[1] = current
        BY <3>1
      <4> QED BY <2>1, <3>1, <3>2, <4>1 DEF Recorded
    <3>3. CASE i # 0
      <4>1. (<<current>> \o previous)[i + 1] = previous[i] /\ i \in 1..Len(previous)
        BY <3>1, <3>3
      <4> QED BY <2>1, <4>1, Zenon DEF Recorded
    <3> QED BY <3>2, <3>3, Zenon
  <2> QED BY <2>1, <2>2, Zenon DEF Recorded, Agrees
<1> QED BY <1>1, <1>2, <1>3, PTL DEF H!Spec
=============================================================================
