--------------------------- MODULE SnapshotStore ---------------------------
(***************************************************************************)
(* The snapshot store (internal/runtime: store.go, refcount.go,            *)
(* pressure.go) as its two kinds of clients drive it: data-plane requests, *)
(* which Acquire a snapshot on entry and Release it on exit                *)
(* (proxy/handler.go), and control-plane appliers, which Swap a new        *)
(* snapshot in, or the previous one back (apply/, rollout/).               *)
(*                                                                         *)
(* Every sync/atomic operation is a step of its own.  The mutex Store.mu   *)
(* is the variable mu; the atomics (current, refCount, retiredAt) are read *)
(* and written by the others while it is held, so the sections it protects *)
(* are split wherever they touch one.                                      *)
(***************************************************************************)
EXTENDS Integers, Sequences, FiniteSets

CONSTANTS
  Requests,     \* request goroutines; each serves any number of requests
  Appliers,     \* goroutines inside Apply, ApplyResolvedVersion or ApplyBundle
  Snapshots,    \* the snapshots that are ever built
  Initial,      \* the one NewStore is given
  None,         \* nil
  MaxRetired    \* Store.maxRetired

ASSUME SnapshotAssumption ==
  /\ Initial \in Snapshots
  /\ None \notin Snapshots \cup Requests \cup Appliers
  /\ Requests \cap Appliers = {}
  /\ IsFiniteSet(Requests) /\ IsFiniteSet(Appliers)
  /\ MaxRetired \in Nat \ {0}

VARIABLES
  current,      \* Store.current
  retired,      \* Store.retired
  mu,           \* holder of Store.mu, or None
  refCount,     \* Snapshot.refCount
  retiredAt,    \* Snapshot.retiredAt > 0
  rest,         \* Reap: the entries not yet looked at by the holder of mu
  retained,     \* Reap: the entries kept so far
  pc,           \* control point of every goroutine
  held,         \* request: the snapshot Acquire loaded
  early,        \* request: it was counted before its snapshot was retired
  previous,     \* applier: what Swap loaded
  next,         \* applier: the argument of Swap
  saved,        \* applier: ApplyBundle's "previous"
  stage,        \* applier: which apply of ApplyBundle this is
  built         \* the snapshots BuildSnapshot has returned

storeVars == <<current, retired, mu, rest, retained>>
requestVars == <<held, early>>
applierVars == <<previous, next, saved, stage, built>>
vars == <<storeVars, refCount, retiredAt, pc, requestVars, applierVars>>

Procs == Requests \cup Appliers

Listed(s, q) == \E i \in 1..Len(q) : q[i] = s

Goto(p, label) == pc' = [pc EXCEPT ![p] = label]

Init ==
  /\ current = Initial
  /\ retired = <<>> /\ rest = <<>> /\ retained = <<>>
  /\ mu = None
  /\ refCount = [s \in Snapshots |-> 0]
  /\ retiredAt = [s \in Snapshots |-> FALSE]
  /\ pc = [p \in Procs |-> "idle"]
  /\ held = [r \in Requests |-> None]
  /\ early = [r \in Requests |-> FALSE]
  /\ previous = [a \in Appliers |-> None]
  /\ next = [a \in Appliers |-> None]
  /\ saved = [a \in Appliers |-> None]
  /\ stage = [a \in Appliers |-> "plain"]
  /\ built = {Initial}

-----------------------------------------------------------------------------
(* Reap, called at the end of Swap and of some Releases.                   *)

\* What the caller of Reap does when it returns.
Return(p) ==
  /\ Goto(p, IF p \in Appliers /\ stage[p] = "locked" THEN "bake" ELSE "idle")
  /\ held' = IF p \in Requests THEN [held EXCEPT ![p] = None] ELSE held
  /\ early' = IF p \in Requests THEN [early EXCEPT ![p] = FALSE] ELSE early

ReapNothing(p) ==
  /\ pc[p] = "reap" /\ mu = None
  /\ retired = <<>>
  /\ Return(p)
  /\ UNCHANGED <<storeVars, refCount, retiredAt, applierVars>>

ReapBegin(p) ==
  /\ pc[p] = "reap" /\ mu = None
  /\ retired # <<>>
  /\ mu' = p
  /\ rest' = retired /\ retained' = <<>>
  /\ Goto(p, "scan")
  /\ UNCHANGED <<current, retired, refCount, retiredAt, requestVars, applierVars>>

\* Mutant of Keep: Reap keeps an entry only when two requests hold it.
KeepShared(s) == IF refCount[s] > 1 THEN Append(retained, s) ELSE retained

\* The loop body: one atomic load of a reference count.
Keep(s) == IF refCount[s] # 0 THEN Append(retained, s) ELSE retained

ReapScan(p) ==
  /\ pc[p] = "scan" /\ rest # <<>>
  /\ retained' = Keep(Head(rest))
  /\ rest' = Tail(rest)
  /\ UNCHANGED <<current, retired, mu, refCount, retiredAt, pc, requestVars, applierVars>>

ReapEnd(p) ==
  /\ pc[p] = "scan" /\ rest = <<>>
  /\ retired' = retained
  /\ retained' = <<>>
  /\ mu' = None
  /\ Return(p)
  /\ UNCHANGED <<current, rest, refCount, retiredAt, applierVars>>

Reap(p) == ReapNothing(p) \/ ReapBegin(p) \/ ReapScan(p) \/ ReapEnd(p)

-----------------------------------------------------------------------------
(* Requests.                                                               *)

\* Acquire: load the current snapshot ...
AcquireLoad(r) ==
  /\ pc[r] = "idle"
  /\ held' = [held EXCEPT ![r] = current]
  /\ Goto(r, "loaded")
  /\ UNCHANGED <<storeVars, refCount, retiredAt, early, applierVars>>

\* Mutant of AcquireIncRef: the count goes to the snapshot that is current by now.
AcquireIncRefCurrent(r) ==
  /\ pc[r] = "loaded"
  /\ refCount' = [refCount EXCEPT ![current] = @ + 1]
  /\ early' = [early EXCEPT ![r] = ~retiredAt[held[r]]]
  /\ Goto(r, "using")
  /\ UNCHANGED <<storeVars, retiredAt, held, applierVars>>

\* ... and only then count the reference.
AcquireIncRef(r) ==
  /\ pc[r] = "loaded"
  /\ refCount' = [refCount EXCEPT ![held[r]] = @ + 1]
  /\ early' = [early EXCEPT ![r] = ~retiredAt[held[r]]]
  /\ Goto(r, "using")
  /\ UNCHANGED <<storeVars, retiredAt, held, applierVars>>

ReleaseDecRef(r) ==
  /\ pc[r] = "using"
  /\ refCount' = [refCount EXCEPT ![held[r]] = @ - 1]
  /\ Goto(r, "released")
  /\ UNCHANGED <<storeVars, retiredAt, requestVars, applierVars>>

\* Mutant of ReleaseCheck: Release leaves reaping to the next Swap.
ReleaseCheckNoReap(r) ==
  /\ pc[r] = "released"
  /\ Return(r)
  /\ UNCHANGED <<storeVars, refCount, retiredAt, applierVars>>

\* Retired() is loaded before RefCount(); a snapshot never ceases to be
\* retired, so both loads can be taken at the second one.
ReleaseCheck(r) ==
  /\ pc[r] = "released"
  /\ IF retiredAt[held[r]] /\ refCount[held[r]] = 0
     THEN Goto(r, "reap") /\ UNCHANGED requestVars
     ELSE Return(r)
  /\ UNCHANGED <<storeVars, refCount, retiredAt, applierVars>>

-----------------------------------------------------------------------------
(* Appliers.                                                               *)

StartApply(a) ==
  /\ pc[a] = "idle"
  /\ stage' = [stage EXCEPT ![a] = "plain"]
  /\ saved' = [saved EXCEPT ![a] = None]
  /\ Goto(a, "check")
  /\ UNCHANGED <<storeVars, refCount, retiredAt, requestVars, previous, next, built>>

\* ApplyBundle remembers the snapshot to roll back to.  Its validate stage
\* touches neither the store nor the shared registries.
StartBundle(a) ==
  /\ pc[a] = "idle"
  /\ stage' = [stage EXCEPT ![a] = "locked"]
  /\ saved' = [saved EXCEPT ![a] = current]
  /\ Goto(a, "check")
  /\ UNCHANGED <<storeVars, refCount, retiredAt, requestVars, previous, next, built>>

\* Swap(previous), with no look at the pressure.
Rollback(a) ==
  /\ next' = [next EXCEPT ![a] = saved[a]]
  /\ stage' = [stage EXCEPT ![a] = "rollback"]
  /\ Goto(a, "load")

\* An apply that fails leaves the store alone, except that a failing full
\* stage of a bundle is rolled back.
ApplyError(a) ==
  IF stage[a] = "full" THEN Rollback(a)
                       ELSE Goto(a, "idle") /\ UNCHANGED <<next, stage>>

\* Mutant of UnderPressure: the limit is off by one.
UnderPressureLate == Len(retired) > MaxRetired

UnderPressure == Len(retired) >= MaxRetired

CheckPressure(a) ==
  /\ pc[a] = "check" /\ mu = None
  /\ IF UnderPressure THEN ApplyError(a)
                      ELSE Goto(a, "build") /\ UNCHANGED <<next, stage>>
  /\ UNCHANGED <<storeVars, refCount, retiredAt, requestVars, previous, saved, built>>

BuildFails(a) ==
  /\ pc[a] = "build"
  /\ ApplyError(a)
  /\ UNCHANGED <<storeVars, refCount, retiredAt, requestVars, previous, saved, built>>

Build(a, s) ==
  /\ pc[a] = "build"
  /\ s \notin built
  /\ built' = built \cup {s}
  /\ next' = [next EXCEPT ![a] = s]
  /\ Goto(a, "load")
  /\ UNCHANGED <<storeVars, refCount, retiredAt, requestVars, previous, saved, stage>>

\* Swap loads the snapshot it is going to retire before it takes the lock.
SwapLoad(a) ==
  /\ pc[a] = "load"
  /\ previous' = [previous EXCEPT ![a] = current]
  /\ Goto(a, "retire")
  /\ UNCHANGED <<storeVars, refCount, retiredAt, requestVars, next, saved, stage, built>>

SwapRetire(a) ==
  /\ pc[a] = "retire" /\ mu = None
  /\ mu' = a
  /\ retiredAt' = [retiredAt EXCEPT ![previous[a]] = TRUE]
  /\ retired' = Append(retired, previous[a])
  /\ Goto(a, "publish")
  /\ UNCHANGED <<current, rest, retained, refCount, requestVars, applierVars>>

SwapPublish(a) ==
  /\ pc[a] = "publish"
  /\ current' = next[a]
  /\ mu' = None
  /\ Goto(a, "reap")
  /\ UNCHANGED <<retired, rest, retained, refCount, retiredAt, requestVars, applierVars>>

\* The locked snapshot bakes; the request context ends first ...
BakeCancelled(a) ==
  /\ pc[a] = "bake"
  /\ Goto(a, "idle")
  /\ UNCHANGED <<storeVars, refCount, retiredAt, requestVars, applierVars>>

\* ... or the gates close ...
GateFails(a) ==
  /\ pc[a] = "bake"
  /\ Rollback(a)
  /\ UNCHANGED <<storeVars, refCount, retiredAt, requestVars, previous, saved, built>>

\* ... or the full configuration is applied.
GatePasses(a) ==
  /\ pc[a] = "bake"
  /\ stage' = [stage EXCEPT ![a] = "full"]
  /\ Goto(a, "check")
  /\ UNCHANGED <<storeVars, refCount, retiredAt, requestVars, previous, next, saved, built>>

-----------------------------------------------------------------------------
Request(r) ==
  AcquireLoad(r) \/ AcquireIncRef(r) \/ ReleaseDecRef(r) \/ ReleaseCheck(r)

Swap(a) == SwapLoad(a) \/ SwapRetire(a) \/ SwapPublish(a)

Apply(a) ==
  \/ StartApply(a) \/ StartBundle(a)
  \/ CheckPressure(a) \/ BuildFails(a) \/ (\E s \in Snapshots : Build(a, s))
  \/ Swap(a)
  \/ BakeCancelled(a) \/ GateFails(a) \/ GatePasses(a)

Next ==
  \/ \E r \in Requests : Request(r)
  \/ \E a \in Appliers : Apply(a)
  \/ \E p \in Procs : Reap(p)

Spec == Init /\ [][Next]_vars

(* A goroutine that can run does run.  sync.Mutex is not starved: a waiter *)
(* that has waited for a millisecond is handed the lock, hence the strong  *)
(* fairness of the steps that take it.  Nothing obliges a client to send a *)
(* request or an operator to apply, and a request may be long but ends.    *)
Fairness ==
  /\ \A r \in Requests :
       WF_vars(AcquireIncRef(r) \/ ReleaseDecRef(r) \/ ReleaseCheck(r))
  /\ \A a \in Appliers : WF_vars(SwapPublish(a))
  /\ \A p \in Procs :
       /\ SF_vars(ReapNothing(p) \/ ReapBegin(p))
       /\ WF_vars(ReapScan(p) \/ ReapEnd(p))

FairSpec == Spec /\ Fairness

-----------------------------------------------------------------------------
ApplierPC == {"idle", "check", "build", "load", "retire", "publish", "reap", "scan", "bake"}
RequestPC == {"idle", "loaded", "using", "released", "reap", "scan"}

\* Types; a reference count is never negative, though the code's int64
\* would let it be.
TypeOK ==
  /\ current \in Snapshots
  /\ retired \in Seq(Snapshots) /\ rest \in Seq(Snapshots) /\ retained \in Seq(Snapshots)
  /\ mu \in Procs \cup {None}
  /\ refCount \in [Snapshots -> Nat]
  /\ retiredAt \in [Snapshots -> BOOLEAN]
  /\ pc \in [Procs -> RequestPC \cup ApplierPC]
  /\ \A r \in Requests : pc[r] \in RequestPC
  /\ \A a \in Appliers : pc[a] \in ApplierPC
  /\ held \in [Requests -> Snapshots \cup {None}]
  /\ early \in [Requests -> BOOLEAN]
  /\ previous \in [Appliers -> Snapshots \cup {None}]
  /\ next \in [Appliers -> Snapshots \cup {None}]
  /\ saved \in [Appliers -> Snapshots \cup {None}]
  /\ stage \in [Appliers -> {"plain", "locked", "full", "rollback"}]
  /\ built \in SUBSET Snapshots

Holders(s) == {r \in Requests : pc[r] = "using" /\ held[r] = s}

\* refcount.go: a snapshot's count is the number of requests between their
\* IncRef and their DecRef, whatever swaps and reaps happen meanwhile.
RefCountExact == \A s \in Snapshots : refCount[s] = Cardinality(Holders(s))

\* store.go Reap: a snapshot that was retired while a request was counted on
\* it stays on the retired list until that request has released it.
RetiredWhileHeldStaysListed ==
  \A r \in Requests :
    pc[r] = "using" /\ early[r] /\ retiredAt[held[r]] => Listed(held[r], retired)

\* pressure.go: the check is not atomic with the append it guards, and a
\* rollback appends unchecked; still each applier exceeds the limit by at most
\* two, one for its own swap and one for its rollback.
RetiredBounded == Len(retired) <= MaxRetired - 1 + 2 * Cardinality(Appliers)

\* store.go Release: no retired snapshot is forgotten; one that is not put
\* back in service leaves the list once its requests have ended.
RetiredReclaimed ==
  \A s \in Snapshots :
    (Listed(s, retired) /\ s # current) ~> (~Listed(s, retired) \/ s = current)

\* store.go Swap: a snapshot that is no longer current has been retired, so
\* that RetiredCount, and the pressure computed from it, takes note of it.
DisplacedIsRetired ==
  \A s \in Snapshots :
    s \in built /\ s # current /\ (\E r \in Requests : pc[r] = "using" /\ held[r] = s)
      => retiredAt[s]
=============================================================================
