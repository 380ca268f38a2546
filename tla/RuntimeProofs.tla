--------------------------- MODULE RuntimeProofs ----------------------------
(***************************************************************************)
(* Proofs about what the process runs on: SnapshotStore for any number of  *)
(* requests, appliers and snapshots and any limit MaxRetired; Shutdown for *)
(* any set of connections.                                                 *)
(***************************************************************************)
EXTENDS SnapshotStore, FiniteSetTheorems, TLAPS

-----------------------------------------------------------------------------
(* The inductive invariant.                                                *)

\* The local variables a goroutine is about to use have been set.
LocalsSet ==
  /\ \A r \in Requests : pc[r] \in {"loaded", "using", "released"} => held[r] \in Snapshots
  /\ \A a \in Appliers :
       /\ pc[a] \in {"load", "retire", "publish"} => next[a] \in Snapshots
       /\ pc[a] = "retire" => previous[a] \in Snapshots
       /\ stage[a] \in {"locked", "full"} => saved[a] \in Snapshots
       /\ pc[a] = "bake" => stage[a] = "locked"

\* The goroutine inside a section of Store.mu is its holder.
MutexHeld == \A p \in Procs : pc[p] \in {"scan", "publish"} => mu = p

\* While Reap scans, the entries it keeps and those it has yet to see.
ScanKeepsHeld ==
  \A p \in Procs : pc[p] = "scan" =>
    /\ Len(retained) + Len(rest) <= Len(retired)
    /\ \A r \in Requests :
         pc[r] = "using" /\ early[r] /\ retiredAt[held[r]] =>
           Listed(held[r], retained) \/ Listed(held[r], rest)

\* The appliers that may still append to the retired list without looking at
\* the pressure again: at least once, and twice.
MayAppend ==
  {a \in Appliers :
     \/ pc[a] \in {"build", "load", "retire"}
     \/ stage[a] = "locked" /\ pc[a] \in {"publish", "reap", "scan", "bake"}
     \/ stage[a] = "full" /\ pc[a] = "check"}
MayAppendTwice ==
  {a \in Appliers : stage[a] = "locked" /\ pc[a] \in {"build", "load", "retire"}}

\* Every append to come is already accounted for.
AppendsBounded ==
  Len(retired) + Cardinality(MayAppend) + Cardinality(MayAppendTwice)
    <= MaxRetired - 1 + 2 * Cardinality(Appliers)
-----------------------------------------------------------------------------
(* Lemmas on sequences and on the holders of a snapshot.                   *)

\* An appended entry is listed, and nothing listed is lost.
LEMMA ListedAppend ==
  ASSUME NEW S, NEW q \in Seq(S), NEW x \in S, NEW y
  PROVE  Listed(y, Append(q, x)) <=> Listed(y, q) \/ y = x
<1>1. Len(Append(q, x)) = Len(q) + 1 /\ Len(q) \in Nat
  OBVIOUS
<1>2. \A i \in 1..Len(q) : Append(q, x)[i] = q[i]
  OBVIOUS
<1>3. Append(q, x)[Len(q) + 1] = x
  OBVIOUS
<1> QED BY <1>1, <1>2, <1>3 DEF Listed

\* What a nonempty sequence lists is its head or listed by its tail.
LEMMA ListedHeadTail ==
  ASSUME NEW S, NEW q \in Seq(S), q # <<>>, NEW y, Listed(y, q)
  PROVE  y = Head(q) \/ Listed(y, Tail(q))
<1>1. PICK i \in 1..Len(q) : q[i] = y
  BY DEF Listed
<1>2. CASE i = 1
  BY <1>1, <1>2
<1>3. CASE i # 1
  <2>1. i - 1 \in 1..Len(Tail(q)) /\ Tail(q)[i - 1] = q[i]
    BY <1>3
  <2> QED BY <2>1, <1>1 DEF Listed
<1> QED BY <1>2, <1>3

\* The holders of a snapshot are finitely many.
LEMMA HoldersFinite ==
  ASSUME NEW s
  PROVE  IsFiniteSet(Holders(s)) /\ Cardinality(Holders(s)) \in Nat
<1>1. Holders(s) \in SUBSET Requests
  BY DEF Holders
<1>2. IsFiniteSet(Holders(s))
  BY <1>1, FS_Subset, SnapshotAssumption
<1> QED BY <1>2, FS_CardinalityType

\* The count of a snapshot in use is positive, so Release never takes it below zero.
LEMMA HeldIsCounted ==
  ASSUME TypeOK, LocalsSet, RefCountExact, NEW r \in Requests, pc[r] = "using"
  PROVE  refCount[held[r]] \in Nat \ {0}
<1>1. held[r] \in Snapshots
  BY DEF LocalsSet
<1>2. r \in Holders(held[r])
  BY DEF Holders
<1>3. Cardinality(Holders(held[r])) # 0
  BY <1>2, HoldersFinite, FS_EmptySet
<1> QED BY <1>1, <1>3 DEF RefCountExact, TypeOK

-----------------------------------------------------------------------------
(* Types, locals, mutual exclusion and reference counts.                   *)

CountInv == TypeOK /\ LocalsSet /\ MutexHeld /\ RefCountExact

\* NewStore starts with no reference and no holder.
LEMMA CountInit == Init => CountInv
<1> SUFFICES ASSUME Init PROVE CountInv
  OBVIOUS
<1>1. TypeOK
  BY SnapshotAssumption DEF Init, TypeOK, Procs, RequestPC, ApplierPC
<1>2. LocalsSet /\ MutexHeld
  BY SnapshotAssumption DEF Init, LocalsSet, MutexHeld, Procs
<1>3. \A s \in Snapshots : Holders(s) = {}
  BY DEF Init, Holders, Procs
<1>4. RefCountExact
  BY <1>3, FS_EmptySet DEF RefCountExact, Init
<1> QED BY <1>1, <1>2, <1>4 DEF CountInv

\* An applier that goes where it needs no local.
LEMMA ApplierMoves ==
  ASSUME TypeOK, LocalsSet, NEW a \in Appliers, NEW label \in {"idle", "build"}, Goto(a, label),
         UNCHANGED <<storeVars, refCount, retiredAt, requestVars, applierVars>>
  PROVE  TypeOK' /\ LocalsSet'
<1> USE SnapshotAssumption DEF Procs
<1>1. /\ pc' \in [Procs -> RequestPC \cup ApplierPC]
      /\ pc'[a] = label /\ \A p \in Procs \ {a} : pc'[p] = pc[p]
  BY Zenon DEF TypeOK, Goto, ApplierPC
<1>2. UNCHANGED <<current, retired, rest, retained, mu, refCount, retiredAt, held, early,
                  previous, next, saved, stage, built>>
  BY Zenon DEF storeVars, requestVars, applierVars
<1>3. TypeOK'
  BY <1>1, <1>2, Zenon DEF TypeOK, ApplierPC
<1>4. LocalsSet'
  BY <1>1, <1>2, Zenon DEF LocalsSet
<1> QED BY <1>3, <1>4, Zenon

\* The variables keep their types, and locals are set before they are used.
LEMMA TypeStep ==
  CountInv /\ [Next]_vars => TypeOK' /\ LocalsSet'
<1> SUFFICES ASSUME CountInv, [Next]_vars PROVE TypeOK' /\ LocalsSet'
  BY Zenon
<1> USE SnapshotAssumption DEF CountInv, Procs
<1>1. ASSUME NEW r \in Requests, AcquireLoad(r) PROVE TypeOK' /\ LocalsSet'
  BY <1>1 DEF AcquireLoad, Goto, storeVars, applierVars, TypeOK, LocalsSet, RequestPC, ApplierPC
<1>2. ASSUME NEW r \in Requests, AcquireIncRef(r) PROVE TypeOK' /\ LocalsSet'
  BY <1>2 DEF AcquireIncRef, Goto, storeVars, applierVars, TypeOK, LocalsSet, RequestPC, ApplierPC
<1>3. ASSUME NEW r \in Requests, ReleaseDecRef(r) PROVE TypeOK' /\ LocalsSet'
  <2>1. refCount[held[r]] - 1 \in Nat
    BY <1>3, HeldIsCounted DEF ReleaseDecRef
  <2> QED BY <1>3, <2>1, Zenon DEF ReleaseDecRef, Goto, storeVars, requestVars, applierVars,
            TypeOK, LocalsSet, RequestPC, ApplierPC
<1>4. ASSUME NEW r \in Requests, ReleaseCheck(r) PROVE TypeOK' /\ LocalsSet'
  <2>1. CASE Goto(r, "reap") /\ UNCHANGED requestVars
    BY <1>4, <2>1, Zenon DEF ReleaseCheck, Goto, storeVars, requestVars, applierVars,
         TypeOK, LocalsSet, RequestPC, ApplierPC
  <2>2. CASE Return(r)
    BY <1>4, <2>2, Zenon DEF ReleaseCheck, Return, Goto, storeVars, applierVars,
         TypeOK, LocalsSet, RequestPC, ApplierPC
  <2> QED BY <1>4, <2>1, <2>2 DEF ReleaseCheck
<1>5. ASSUME NEW a \in Appliers, StartApply(a) \/ StartBundle(a) PROVE TypeOK' /\ LocalsSet'
  <2>1. CASE StartApply(a)
    BY <2>1 DEF StartApply, Goto, storeVars, requestVars, TypeOK, LocalsSet, RequestPC, ApplierPC
  <2>2. CASE StartBundle(a)
    BY <2>2 DEF StartBundle, Goto, storeVars, requestVars, TypeOK, LocalsSet, RequestPC, ApplierPC
  <2> QED BY <1>5, <2>1, <2>2
<1>6. ASSUME NEW a \in Appliers, CheckPressure(a) \/ BuildFails(a) PROVE TypeOK' /\ LocalsSet'
  <2>1. CASE stage[a] = "full" /\ Rollback(a)
    BY <1>6, <2>1 DEF CheckPressure, BuildFails, Rollback, Goto, storeVars, requestVars,
         TypeOK, LocalsSet, RequestPC, ApplierPC
  <2>2. CASE (Goto(a, "idle") \/ Goto(a, "build")) /\ UNCHANGED <<next, stage>>
    <3>1. UNCHANGED <<storeVars, refCount, retiredAt, requestVars, applierVars>>
      BY <1>6, <2>2, Zenon DEF CheckPressure, BuildFails, applierVars
    <3> QED BY <2>2, <3>1, ApplierMoves, Zenon
  <2> QED BY <1>6, <2>1, <2>2, Zenon DEF CheckPressure, BuildFails, ApplyError
<1>7. ASSUME NEW a \in Appliers, NEW s \in Snapshots, Build(a, s) PROVE TypeOK' /\ LocalsSet'
  BY <1>7, Zenon DEF Build, Goto, storeVars, requestVars, TypeOK, LocalsSet, RequestPC, ApplierPC
<1>8. ASSUME NEW a \in Appliers, SwapLoad(a) PROVE TypeOK' /\ LocalsSet'
  BY <1>8, Zenon DEF SwapLoad, Goto, storeVars, requestVars, TypeOK, LocalsSet, RequestPC, ApplierPC
<1>9. ASSUME NEW a \in Appliers, SwapRetire(a) PROVE TypeOK' /\ LocalsSet'
  BY <1>9 DEF SwapRetire, Goto, requestVars, applierVars, TypeOK, LocalsSet, RequestPC, ApplierPC
<1>10. ASSUME NEW a \in Appliers, SwapPublish(a) PROVE TypeOK' /\ LocalsSet'
  BY <1>10, Zenon DEF SwapPublish, Goto, requestVars, applierVars, TypeOK, LocalsSet, RequestPC,
               ApplierPC
<1>11. ASSUME NEW a \in Appliers, BakeCancelled(a) \/ GateFails(a) \/ GatePasses(a)
       PROVE  TypeOK' /\ LocalsSet'
  <2>1. CASE BakeCancelled(a)
    BY <2>1, Zenon DEF BakeCancelled, Goto, storeVars, requestVars, applierVars,
         TypeOK, LocalsSet, RequestPC, ApplierPC
  <2>2. CASE GateFails(a)
    BY <2>2, Zenon DEF GateFails, Rollback, Goto, storeVars, requestVars,
         TypeOK, LocalsSet, RequestPC, ApplierPC
  <2>3. CASE GatePasses(a)
    BY <2>3, Zenon DEF GatePasses, Goto, storeVars, requestVars, TypeOK, LocalsSet, RequestPC, ApplierPC
  <2> QED BY <1>11, <2>1, <2>2, <2>3
<1>12. ASSUME NEW p \in Procs, Reap(p) PROVE TypeOK' /\ LocalsSet'
  <2>1. CASE ReapNothing(p)
    BY <2>1 DEF ReapNothing, Return, Goto, storeVars, applierVars, TypeOK, LocalsSet,
         RequestPC, ApplierPC
  <2>2. CASE ReapBegin(p)
    BY <2>2 DEF ReapBegin, Goto, requestVars, applierVars, TypeOK, LocalsSet, RequestPC, ApplierPC
  <2>3. CASE ReapScan(p)
    <3>1. retained' \in Seq(Snapshots) /\ rest' \in Seq(Snapshots)
      BY <2>3 DEF ReapScan, Keep, TypeOK
    <3> QED BY <2>3, <3>1, Zenon DEF ReapScan, requestVars, applierVars, TypeOK, LocalsSet
  <2>4. CASE ReapEnd(p)
    BY <2>4 DEF ReapEnd, Return, Goto, applierVars, TypeOK, LocalsSet, RequestPC, ApplierPC
  <2> QED BY <1>12, <2>1, <2>2, <2>3, <2>4 DEF Reap
<1>13. CASE UNCHANGED vars
  BY <1>13, Zenon DEF vars, storeVars, requestVars, applierVars, TypeOK, LocalsSet
<1> QED BY <1>1, <1>2, <1>3, <1>4, <1>5, <1>6, <1>7, <1>8, <1>9, <1>10, <1>11, <1>12, <1>13, Zenon
         DEF Next, Request, Apply, Swap

\* Only the holder of Store.mu is inside a section it protects.
LEMMA MutexStep ==
  CountInv /\ [Next]_vars => MutexHeld'
<1> SUFFICES ASSUME CountInv, [Next]_vars PROVE MutexHeld'
  OBVIOUS
<1> USE SnapshotAssumption DEF CountInv, Procs, TypeOK, MutexHeld
<1>1. ASSUME NEW r \in Requests, Request(r) PROVE MutexHeld'
  BY <1>1 DEF Request, AcquireLoad, AcquireIncRef, ReleaseDecRef, ReleaseCheck, Return, Goto,
       storeVars
<1>2. ASSUME NEW a \in Appliers, Apply(a) PROVE MutexHeld'
  <2>1. CASE SwapRetire(a)
    BY <2>1, Zenon DEF SwapRetire, Goto
  <2>2. CASE SwapPublish(a)
    BY <2>2, Zenon DEF SwapPublish, Goto
  <2>3. CASE StartApply(a) \/ StartBundle(a) \/ SwapLoad(a) \/ (\E s \in Snapshots : Build(a, s))
    BY <2>3, Zenon DEF StartApply, StartBundle, SwapLoad, Build, Goto, storeVars
  <2>4. CASE CheckPressure(a) \/ BuildFails(a)
    BY <2>4 DEF CheckPressure, BuildFails, ApplyError, Rollback, Goto, storeVars
  <2>5. CASE BakeCancelled(a) \/ GateFails(a) \/ GatePasses(a)
    BY <2>5, Zenon DEF BakeCancelled, GateFails, GatePasses, Rollback, Goto, storeVars
  <2> QED BY <1>2, <2>1, <2>2, <2>3, <2>4, <2>5, Zenon DEF Apply, Swap
<1>3. ASSUME NEW p \in Procs, Reap(p) PROVE MutexHeld'
  BY <1>3 DEF Reap, ReapNothing, ReapBegin, ReapScan, ReapEnd, Return, Goto, storeVars
<1>4. CASE UNCHANGED vars
  BY <1>4, Zenon DEF vars, storeVars
<1> QED BY <1>1, <1>2, <1>3, <1>4, Zenon DEF Next

\* IncRef adds one holder, DecRef removes one, and no other step of the
\* program touches a count or its holders.
LEMMA CountStep ==
  CountInv /\ [Next]_vars => RefCountExact'
<1> SUFFICES ASSUME CountInv, [Next]_vars PROVE RefCountExact'
  OBVIOUS
<1> USE SnapshotAssumption DEF CountInv, Procs
<1>1. ASSUME NEW r \in Requests, AcquireIncRef(r) PROVE RefCountExact'
  <2> SUFFICES ASSUME NEW s \in Snapshots PROVE refCount'[s] = Cardinality(Holders(s)')
    BY Zenon DEF RefCountExact
  <2>1. Holders(s)' = IF s = held[r] THEN Holders(s) \cup {r} ELSE Holders(s)
    BY <1>1, Zenon DEF AcquireIncRef, Goto, Holders, TypeOK
  <2>2. r \notin Holders(s)
    BY <1>1, Zenon DEF AcquireIncRef, Holders
  <2>3. refCount'[s] = IF s = held[r] THEN refCount[s] + 1 ELSE refCount[s]
    BY <1>1, Zenon DEF AcquireIncRef, TypeOK
  <2>4. IsFiniteSet(Holders(s)) /\ refCount[s] = Cardinality(Holders(s))
    BY HoldersFinite DEF RefCountExact
  <2>5. Cardinality(Holders(s) \cup {r}) = Cardinality(Holders(s)) + 1
    BY <2>2, <2>4, FS_AddElement, Zenon
  <2> QED BY <2>1, <2>3, <2>4, <2>5, Zenon
<1>2. ASSUME NEW r \in Requests, ReleaseDecRef(r) PROVE RefCountExact'
  <2> SUFFICES ASSUME NEW s \in Snapshots PROVE refCount'[s] = Cardinality(Holders(s)')
    BY DEF RefCountExact
  <2>1. Holders(s)' = IF s = held[r] THEN Holders(s) \ {r} ELSE Holders(s)
    BY <1>2, Zenon DEF ReleaseDecRef, Goto, Holders, TypeOK, requestVars
  <2>2. s = held[r] => r \in Holders(s)
    BY <1>2, Zenon DEF ReleaseDecRef, Holders
  <2>3. refCount'[s] = IF s = held[r] THEN refCount[s] - 1 ELSE refCount[s]
    BY <1>2, Zenon DEF ReleaseDecRef, TypeOK
  <2>4. IsFiniteSet(Holders(s)) /\ refCount[s] = Cardinality(Holders(s))
    BY HoldersFinite DEF RefCountExact
  <2>5. s = held[r] => Cardinality(Holders(s) \ {r}) = Cardinality(Holders(s)) - 1
    BY <2>2, <2>4, FS_RemoveElement, Zenon
  <2> QED BY <2>1, <2>3, <2>4, <2>5, Zenon
<1>3. SUFFICES ASSUME UNCHANGED refCount, \A s \in Snapshots : Holders(s)' = Holders(s)
               PROVE  RefCountExact'
  <2>1. ASSUME NEW r \in Requests, AcquireLoad(r) \/ ReleaseCheck(r)
        PROVE  UNCHANGED refCount /\ \A s \in Snapshots : Holders(s)' = Holders(s)
    BY <2>1 DEF AcquireLoad, ReleaseCheck, Return, Goto, Holders, TypeOK, requestVars
  <2>2. ASSUME NEW a \in Appliers, Apply(a)
        PROVE  UNCHANGED refCount /\ \A s \in Snapshots : Holders(s)' = Holders(s)
    <3>1. UNCHANGED <<refCount, held>> /\ \A r \in Requests : pc'[r] = pc[r]
      BY <2>2 DEF Apply, Swap, StartApply, StartBundle, CheckPressure, BuildFails, ApplyError,
           Rollback, Build, SwapLoad, SwapRetire, SwapPublish, BakeCancelled, GateFails,
           GatePasses, Goto, requestVars, TypeOK
    <3> QED BY <3>1, Zenon DEF Holders
  <2>3. ASSUME NEW p \in Procs, Reap(p)
        PROVE  UNCHANGED refCount /\ \A s \in Snapshots : Holders(s)' = Holders(s)
    BY <2>3 DEF Reap, ReapNothing, ReapBegin, ReapScan, ReapEnd, Return, Goto, Holders, TypeOK,
         requestVars
  <2>4. CASE UNCHANGED vars
    BY <2>4, <1>3, Zenon DEF vars, requestVars, Holders
  <2> QED BY <1>1, <1>2, <1>3, <2>1, <2>2, <2>3, <2>4, Zenon DEF Next, Request
<1> QED BY <1>3 DEF RefCountExact

\* A snapshot's reference count is exact, never negative, in every reachable
\* state: IncRef and DecRef are paired by Acquire and Release.
THEOREM CountSafe == Spec => [](TypeOK /\ RefCountExact)
<1>1. Init => CountInv
  BY CountInit
<1>2. CountInv /\ [Next]_vars => CountInv'
  BY TypeStep, MutexStep, CountStep DEF CountInv
<1>3. CountInv => TypeOK /\ RefCountExact
  BY DEF CountInv
<1> QED BY <1>1, <1>2, <1>3, PTL DEF Spec

-----------------------------------------------------------------------------
(* The retired list.                                                       *)

\* The requests whose snapshot was retired under them.
RetiredUnder == {r \in Requests : pc[r] = "using" /\ early[r] /\ retiredAt[held[r]]}

ListInv == CountInv /\ ScanKeepsHeld /\ RetiredWhileHeldStaysListed

\* A step that neither retires a snapshot nor moves the list disturbs neither
\* conjunct, since no request can join RetiredUnder in it.
LEMMA ListUntouched ==
  ASSUME ListInv, UNCHANGED <<retired, rest, retained, held>>,
         RetiredUnder' \subseteq RetiredUnder,
         \A p \in Procs : pc'[p] = "scan" => pc[p] = "scan"
  PROVE  ScanKeepsHeld' /\ RetiredWhileHeldStaysListed'
BY DEF ListInv, ScanKeepsHeld, RetiredWhileHeldStaysListed, RetiredUnder, Listed

\* Every step of Acquire, Release, Swap and Reap keeps the held snapshots listed.
LEMMA ListStep ==
  ListInv /\ [Next]_vars => ScanKeepsHeld' /\ RetiredWhileHeldStaysListed'
<1> SUFFICES ASSUME ListInv, [Next]_vars
             PROVE  ScanKeepsHeld' /\ RetiredWhileHeldStaysListed'
  OBVIOUS
<1> USE SnapshotAssumption DEF ListInv, CountInv, Procs
<1>1. ASSUME NEW r \in Requests, Request(r) PROVE ScanKeepsHeld' /\ RetiredWhileHeldStaysListed'
  <2>1. CASE AcquireLoad(r)
    <3>1. \A q \in Requests : q # r => held'[q] = held[q] /\ pc'[q] = pc[q]
      BY <2>1, Zenon DEF AcquireLoad, Goto, TypeOK
    <3>2. pc'[r] = "loaded"
      BY <2>1, Zenon DEF AcquireLoad, Goto, TypeOK
    <3>3. \A p \in Procs : pc'[p] = "scan" => pc[p] = "scan"
      BY <2>1, Zenon DEF AcquireLoad, Goto, TypeOK
    <3> QED BY <2>1, <3>1, <3>2, <3>3 DEF AcquireLoad, storeVars, ScanKeepsHeld,
              RetiredWhileHeldStaysListed, Listed
  <2>2. CASE AcquireIncRef(r)
    <3>1. RetiredUnder' \subseteq RetiredUnder
      BY <2>2, Zenon DEF AcquireIncRef, Goto, TypeOK, RetiredUnder
    <3>2. \A p \in Procs : pc'[p] = "scan" => pc[p] = "scan"
      BY <2>2, Zenon DEF AcquireIncRef, Goto, TypeOK
    <3> QED BY <2>2, <3>1, <3>2, ListUntouched, Zenon DEF AcquireIncRef, storeVars
  <2>3. CASE ReleaseDecRef(r)
    <3>1. RetiredUnder' \subseteq RetiredUnder
      BY <2>3, Zenon DEF ReleaseDecRef, Goto, TypeOK, RetiredUnder, requestVars
    <3>2. \A p \in Procs : pc'[p] = "scan" => pc[p] = "scan"
      BY <2>3, Zenon DEF ReleaseDecRef, Goto, TypeOK
    <3> QED BY <2>3, <3>1, <3>2, ListUntouched, Zenon DEF ReleaseDecRef, storeVars, requestVars
  <2>4. CASE ReleaseCheck(r)
    <3>1. \A q \in Requests : q # r => held'[q] = held[q] /\ pc'[q] = pc[q] /\ early'[q] = early[q]
      BY <2>4, Zenon DEF ReleaseCheck, Return, Goto, TypeOK, requestVars
    <3>2. pc'[r] # "using"
      BY <2>4, Zenon DEF ReleaseCheck, Return, Goto, TypeOK
    <3>3. \A p \in Procs : pc'[p] = "scan" => pc[p] = "scan"
      BY <2>4, Zenon DEF ReleaseCheck, Return, Goto, TypeOK
    <3>4. UNCHANGED <<retired, rest, retained, retiredAt>>
      BY <2>4, Zenon DEF ReleaseCheck, storeVars
    <3>5. ScanKeepsHeld'
      BY <3>1, <3>2, <3>3, <3>4 DEF ScanKeepsHeld, Listed
    <3>6. RetiredWhileHeldStaysListed'
      BY <3>1, <3>2, <3>4 DEF RetiredWhileHeldStaysListed, Listed
    <3> QED BY <3>5, <3>6
  <2> QED BY <1>1, <2>1, <2>2, <2>3, <2>4 DEF Request
<1>2. ASSUME NEW a \in Appliers, Apply(a), ~SwapRetire(a)
      PROVE  ScanKeepsHeld' /\ RetiredWhileHeldStaysListed'
  <2>1. /\ UNCHANGED <<retired, rest, retained, held, early, retiredAt>>
        /\ \A r \in Requests : pc'[r] = pc[r]
        /\ \A p \in Procs : pc'[p] = "scan" => pc[p] = "scan"
    BY <1>2 DEF Apply, Swap, StartApply, StartBundle, CheckPressure, BuildFails, ApplyError,
         Rollback, Build, SwapLoad, SwapPublish, BakeCancelled, GateFails, GatePasses, Goto,
         storeVars, requestVars, TypeOK
  <2> QED BY <2>1, ListUntouched, Zenon DEF RetiredUnder
<1>3. ASSUME NEW a \in Appliers, SwapRetire(a)
      PROVE  ScanKeepsHeld' /\ RetiredWhileHeldStaysListed'
  <2>1. \A p \in Procs : pc'[p] # "scan"
    BY <1>3, Zenon DEF SwapRetire, Goto, MutexHeld, TypeOK
  <2>2. previous[a] \in Snapshots
    BY <1>3, Zenon DEF SwapRetire, LocalsSet
  <2>3. \A s : Listed(s, retired') <=> Listed(s, retired) \/ s = previous[a]
    BY <1>3, <2>2, ListedAppend DEF SwapRetire, TypeOK
  <2>4. ASSUME NEW r \in Requests, pc'[r] = "using", early'[r], retiredAt'[held'[r]]
        PROVE  Listed(held'[r], retired')
    <3>1. pc[r] = "using" /\ early[r] /\ held'[r] = held[r] /\ held[r] \in Snapshots
      BY <1>3, <2>4, Zenon DEF SwapRetire, Goto, TypeOK, requestVars, LocalsSet
    <3>2. CASE held[r] = previous[a]
      BY <3>1, <3>2, <2>3, Zenon
    <3>3. CASE held[r] # previous[a]
      <4>1. retiredAt[held[r]]
        BY <1>3, <2>4, <3>1, <3>3, Zenon DEF SwapRetire, TypeOK
      <4> QED BY <4>1, <3>1, <2>3, Zenon DEF RetiredWhileHeldStaysListed
    <3> QED BY <3>2, <3>3, Zenon
  <2>5. RetiredWhileHeldStaysListed'
    BY <2>4, Zenon DEF RetiredWhileHeldStaysListed, Listed
  <2> QED BY <2>1, <2>5, Zenon DEF ScanKeepsHeld
<1>4. ASSUME NEW p \in Procs, Reap(p) PROVE ScanKeepsHeld' /\ RetiredWhileHeldStaysListed'
  <2>1. RetiredUnder' \subseteq RetiredUnder
        /\ \A r \in RetiredUnder' : held'[r] = held[r]
    <3>1. CASE ReapNothing(p) \/ ReapBegin(p) \/ ReapEnd(p)
      <4>1. pc'[p] # "using" /\ UNCHANGED retiredAt
        BY <3>1, Zenon DEF ReapNothing, ReapBegin, ReapEnd, Return, Goto, TypeOK
      <4>2. \A r \in Requests :
              r # p => pc'[r] = pc[r] /\ held'[r] = held[r] /\ early'[r] = early[r]
        BY <3>1, Zenon DEF ReapNothing, ReapBegin, ReapEnd, Return, Goto, TypeOK, requestVars
      <4> QED BY <4>1, <4>2, Zenon DEF RetiredUnder
    <3>2. CASE ReapScan(p)
      BY <3>2, Zenon DEF ReapScan, requestVars, RetiredUnder
    <3> QED BY <1>4, <3>1, <3>2, Zenon DEF Reap
  <2>2. CASE ReapNothing(p)
    <3>1. \A q \in Procs : pc'[q] = "scan" => pc[q] = "scan"
      BY <2>2, Zenon DEF ReapNothing, Return, Goto, TypeOK
    <3> QED BY <2>1, <2>2, <3>1 DEF ReapNothing, storeVars, ScanKeepsHeld,
              RetiredWhileHeldStaysListed, RetiredUnder, Listed
  <2>3. CASE ReapBegin(p)
    <3>1. rest' = retired /\ retained' = <<>> /\ UNCHANGED <<retired, held>>
      BY <2>3, Zenon DEF ReapBegin, requestVars
    <3>2. \A r \in RetiredUnder' : r \in Requests /\ Listed(held[r], retired)
      BY <2>1, Zenon DEF RetiredWhileHeldStaysListed, RetiredUnder
    <3>3. RetiredWhileHeldStaysListed'
      BY <3>1, <3>2, Zenon DEF RetiredWhileHeldStaysListed, RetiredUnder, Listed
    <3>4. Len(retained') + Len(rest') <= Len(retired')
      BY <3>1 DEF TypeOK
    <3>5. ScanKeepsHeld'
      BY <3>1, <3>2, <3>4, Zenon DEF ScanKeepsHeld, RetiredUnder, Listed
    <3> QED BY <3>3, <3>5
  <2>4. CASE ReapScan(p)
    <3>1. Head(rest) \in Snapshots /\ Tail(rest) \in Seq(Snapshots) /\ Len(Tail(rest)) = Len(rest) - 1
      BY <2>4 DEF ReapScan, TypeOK
    <3>2. Len(retained') <= Len(retained) + 1
      BY <2>4, <3>1 DEF ReapScan, Keep, TypeOK
    <3>3. \A s : Listed(s, retained) => Listed(s, retained')
      BY <2>4, <3>1, ListedAppend, Zenon DEF ReapScan, Keep, TypeOK
    <3>4. ASSUME NEW r \in RetiredUnder
          PROVE  Listed(held[r], retained') \/ Listed(held[r], rest')
      <4>1. Listed(held[r], retained) \/ Listed(held[r], rest)
        BY <2>4, Zenon DEF ReapScan, ScanKeepsHeld, RetiredUnder
      <4>2. CASE Listed(held[r], retained)
        BY <4>2, <3>3, Zenon
      <4>3. CASE Listed(held[r], rest) /\ held[r] = Head(rest)
        <5>1. refCount[held[r]] # 0
          BY HeldIsCounted, Zenon DEF RetiredUnder
        <5> QED BY <4>3, <5>1, <2>4, <3>1, ListedAppend, Zenon DEF ReapScan, Keep, TypeOK
      <4>4. CASE Listed(held[r], rest) /\ held[r] # Head(rest)
        BY <4>4, <2>4, ListedHeadTail, Zenon DEF ReapScan, TypeOK
      <4> QED BY <4>1, <4>2, <4>3, <4>4, Zenon
    <3>5. RetiredWhileHeldStaysListed'
      BY <2>1, <2>4 DEF ReapScan, RetiredWhileHeldStaysListed, RetiredUnder, Listed
    <3>6. Len(retained') + Len(rest') <= Len(retired')
      <4>1. Len(retained) + Len(rest) <= Len(retired)
        BY <2>4, Zenon DEF ReapScan, ScanKeepsHeld
      <4> QED BY <4>1, <3>1, <3>2, <2>4, TypeStep DEF ReapScan, TypeOK
    <3>7. \A r \in RetiredUnder' : Listed(held'[r], retained') \/ Listed(held'[r], rest')
      BY <2>1, <3>4, Zenon
    <3> QED BY <3>5, <3>6, <3>7, Zenon DEF ScanKeepsHeld, RetiredUnder, Listed
  <2>5. CASE ReapEnd(p)
    <3>1. \A q \in Procs : pc'[q] # "scan"
      BY <2>5, Zenon DEF ReapEnd, Return, Goto, MutexHeld, TypeOK
    <3>2. \A s : ~Listed(s, rest)
      BY <2>5 DEF ReapEnd, Listed
    <3>3. \A r \in RetiredUnder : Listed(held[r], retired')
      BY <2>5, <3>2, Zenon DEF ReapEnd, ScanKeepsHeld, RetiredUnder
    <3>4. \A r \in RetiredUnder' : Listed(held'[r], retired')
      BY <2>1, <3>3, Zenon
    <3> QED BY <3>1, <3>4, Zenon DEF ScanKeepsHeld, RetiredWhileHeldStaysListed, RetiredUnder, Listed
  <2> QED BY <1>4, <2>2, <2>3, <2>4, <2>5, Zenon DEF Reap
<1>5. CASE UNCHANGED vars
  BY <1>5 DEF vars, storeVars, requestVars, ScanKeepsHeld, RetiredWhileHeldStaysListed, Listed
<1> QED BY <1>1, <1>2, <1>3, <1>4, <1>5 DEF Next

\* The invariant of the retired list holds in every behaviour.
LEMMA ListInvariant == Spec => []ListInv
<1>1. Init => ListInv
  BY CountInit, SnapshotAssumption, Zenon DEF Init, ListInv, ScanKeepsHeld,
                                       RetiredWhileHeldStaysListed, Procs
<1>2. ListInv /\ [Next]_vars => ListInv'
  BY TypeStep, MutexStep, CountStep, ListStep, Zenon DEF CountInv, ListInv
<1> QED BY <1>1, <1>2, PTL DEF Spec

\* A snapshot retired while requests are counted on it stays on the retired
\* list until the last of them has released it, however many appliers swap,
\* roll back and reap at the same time.
THEOREM RetiredStaysListed == Spec => []RetiredWhileHeldStaysListed
<1>1. ListInv => RetiredWhileHeldStaysListed
  BY DEF ListInv
<1> QED BY <1>1, ListInvariant, PTL

-----------------------------------------------------------------------------
(* The pressure limit.                                                     *)

\* The appliers that may still append are finitely many, at most all of them.
LEMMA AppendersFinite ==
  /\ IsFiniteSet(MayAppend) /\ IsFiniteSet(MayAppendTwice)
  /\ Cardinality(MayAppend) \in Nat /\ Cardinality(MayAppendTwice) \in Nat
  /\ Cardinality(MayAppend) <= Cardinality(Appliers)
  /\ Cardinality(MayAppendTwice) <= Cardinality(Appliers)
  /\ Cardinality(Appliers) \in Nat
<1>1. MayAppend \in SUBSET Appliers /\ MayAppendTwice \in SUBSET Appliers
  BY Zenon DEF MayAppend, MayAppendTwice
<1>2. IsFiniteSet(MayAppend) /\ IsFiniteSet(MayAppendTwice)
  BY <1>1, FS_Subset, SnapshotAssumption, Zenon
<1>3. /\ Cardinality(MayAppend) <= Cardinality(Appliers)
      /\ Cardinality(MayAppendTwice) <= Cardinality(Appliers)
  BY <1>1, FS_Subset, SnapshotAssumption, Zenon
<1> QED BY <1>2, <1>3, FS_CardinalityType, SnapshotAssumption, Zenon

\* A step that appends nothing and lets no applier append again keeps the
\* account.
LEMMA AccountUntouched ==
  ASSUME TypeOK, TypeOK', AppendsBounded, Len(retired') <= Len(retired),
         MayAppend' \subseteq MayAppend, MayAppendTwice' \subseteq MayAppendTwice
  PROVE  AppendsBounded'
<1>1. Cardinality(MayAppend') <= Cardinality(MayAppend)
  BY AppendersFinite, FS_Subset, Zenon
<1>2. Cardinality(MayAppendTwice') <= Cardinality(MayAppendTwice)
  BY AppendersFinite, FS_Subset, Zenon
<1>3. Cardinality(MayAppend') \in Nat /\ Cardinality(MayAppendTwice') \in Nat
  BY AppendersFinite, FS_Subset, FS_CardinalityType, Zenon
<1>4. Len(retired) \in Nat /\ Len(retired') \in Nat
  BY DEF TypeOK
<1> QED BY <1>1, <1>2, <1>3, <1>4, AppendersFinite, SnapshotAssumption DEF AppendsBounded

\* Every append was accounted for when its applier passed the pressure check.
LEMMA AccountStep ==
  ListInv /\ AppendsBounded /\ [Next]_vars => AppendsBounded'
<1> SUFFICES ASSUME ListInv, AppendsBounded, [Next]_vars PROVE AppendsBounded'
  BY Zenon
<1> USE SnapshotAssumption DEF ListInv, CountInv, Procs
<1>0. TypeOK'
  BY TypeStep, Zenon
<1>b. TypeOK /\ Len(retired) <= Len(retired)
  BY DEF TypeOK
<1>a. ASSUME UNCHANGED stage, \A a \in Appliers : pc'[a] = pc[a]
      PROVE  MayAppend' \subseteq MayAppend /\ MayAppendTwice' \subseteq MayAppendTwice
  BY <1>a, Zenon DEF MayAppend, MayAppendTwice
<1>1. ASSUME NEW r \in Requests, Request(r) PROVE AppendsBounded'
  <2>1. UNCHANGED <<retired, stage>> /\ \A a \in Appliers : pc'[a] = pc[a]
    BY <1>1 DEF Request, AcquireLoad, AcquireIncRef, ReleaseDecRef, ReleaseCheck, Return, Goto,
         storeVars, applierVars, TypeOK
  <2>2. Len(retired') <= Len(retired)
    BY <2>1 DEF TypeOK
  <2>3. MayAppend' \subseteq MayAppend /\ MayAppendTwice' \subseteq MayAppendTwice
    BY <2>1, <1>a, Zenon
  <2> QED BY <2>2, <2>3, <1>0, AccountUntouched, Zenon
<1>2. ASSUME NEW a \in Appliers, CheckPressure(a) PROVE AppendsBounded'
  <2>1. CASE UnderPressure
    <3>1. MayAppend' \subseteq MayAppend /\ MayAppendTwice' \subseteq MayAppendTwice
      BY <1>2, <2>1 DEF CheckPressure, ApplyError, Rollback, Goto, MayAppend, MayAppendTwice,
                        TypeOK
    <3>2. retired' = retired
      BY <1>2, Zenon DEF CheckPressure, storeVars
    <3> QED BY <3>1, <3>2, <1>0, <1>b, AccountUntouched, Zenon
  <2>2. CASE ~UnderPressure
    <3>1. Len(retired') <= MaxRetired - 1 /\ Len(retired') \in Nat
      BY <1>2, <2>2 DEF CheckPressure, UnderPressure, storeVars, TypeOK
    <3>2. /\ Cardinality(MayAppend') \in Nat /\ Cardinality(MayAppend') <= Cardinality(Appliers)
          /\ Cardinality(MayAppendTwice') \in Nat
          /\ Cardinality(MayAppendTwice') <= Cardinality(Appliers)
      <4>1. MayAppend' \in SUBSET Appliers /\ MayAppendTwice' \in SUBSET Appliers
        BY Zenon DEF MayAppend, MayAppendTwice
      <4> QED BY <4>1, FS_Subset, FS_CardinalityType, Zenon
    <3>3. Cardinality(Appliers) \in Nat
      BY AppendersFinite, Zenon
    <3> DEFINE n == Len(retired')
               once == Cardinality(MayAppend')
               twice == Cardinality(MayAppendTwice')
               all == Cardinality(Appliers)
    <3> HIDE DEF n, once, twice, all
    <3>4. n + once + twice <= MaxRetired - 1 + 2 * all
      BY <3>1, <3>2, <3>3, SnapshotAssumption DEF n, once, twice, all
    <3> QED BY <3>4, Zenon DEF AppendsBounded, n, once, twice, all
  <2> QED BY <2>1, <2>2, Zenon
<1>3. ASSUME NEW a \in Appliers, SwapRetire(a) PROVE AppendsBounded'
  <2>1. Len(retired') = Len(retired) + 1 /\ Len(retired) \in Nat
    BY <1>3 DEF SwapRetire, TypeOK, LocalsSet
  <2>2. CASE stage[a] = "locked"
    <3>1. MayAppend' = MayAppend /\ MayAppendTwice' = MayAppendTwice \ {a} /\ a \in MayAppendTwice
      BY <1>3, <2>2, Zenon DEF SwapRetire, Goto, MayAppend, MayAppendTwice, TypeOK, applierVars
    <3>2. Cardinality(MayAppendTwice') = Cardinality(MayAppendTwice) - 1
      BY <3>1, AppendersFinite, FS_RemoveElement, Zenon
    <3> QED BY <2>1, <3>1, <3>2, AppendersFinite DEF AppendsBounded
  <2>3. CASE stage[a] # "locked"
    <3>1. MayAppend' = MayAppend \ {a} /\ MayAppendTwice' = MayAppendTwice /\ a \in MayAppend
      BY <1>3, <2>3, Zenon DEF SwapRetire, Goto, MayAppend, MayAppendTwice, TypeOK, applierVars
    <3>2. Cardinality(MayAppend') = Cardinality(MayAppend) - 1
      BY <3>1, AppendersFinite, FS_RemoveElement, Zenon
    <3> QED BY <2>1, <3>1, <3>2, AppendersFinite DEF AppendsBounded
  <2> QED BY <2>2, <2>3, Zenon
<1>4. ASSUME NEW a \in Appliers, Apply(a), ~CheckPressure(a), ~SwapRetire(a) PROVE AppendsBounded'
  <2>1. UNCHANGED retired
    BY <1>4, Zenon DEF Apply, Swap, StartApply, StartBundle, BuildFails, Build, SwapLoad, SwapPublish,
         BakeCancelled, GateFails, GatePasses, storeVars
  <2>2. MayAppend' \subseteq MayAppend /\ MayAppendTwice' \subseteq MayAppendTwice
    <3>1. CASE StartApply(a) \/ StartBundle(a)
      BY <3>1 DEF StartApply, StartBundle, Goto, MayAppend, MayAppendTwice, TypeOK
    <3>2. CASE BuildFails(a)
      BY <3>2 DEF BuildFails, ApplyError, Rollback, Goto, MayAppend, MayAppendTwice, TypeOK
    <3>3. CASE (\E s \in Snapshots : Build(a, s)) \/ SwapLoad(a) \/ SwapPublish(a)
      BY <3>3 DEF Build, SwapLoad, SwapPublish, Goto, MayAppend, MayAppendTwice, TypeOK,
                  applierVars
    <3>4. CASE BakeCancelled(a) \/ GateFails(a) \/ GatePasses(a)
      BY <3>4 DEF BakeCancelled, GateFails, GatePasses, Rollback, Goto, MayAppend, MayAppendTwice,
           TypeOK, LocalsSet, applierVars
    <3> QED BY <1>4, <3>1, <3>2, <3>3, <3>4, Zenon DEF Apply, Swap
  <2> QED BY <2>1, <2>2, <1>0, <1>b, AccountUntouched, Zenon
<1>5. ASSUME NEW p \in Procs, Reap(p) PROVE AppendsBounded'
  <2>1. Len(retired') <= Len(retired)
    <3>1. CASE ReapNothing(p) \/ ReapBegin(p) \/ ReapScan(p)
      BY <3>1 DEF ReapNothing, ReapBegin, ReapScan, storeVars, TypeOK
    <3>2. CASE ReapEnd(p)
      <4>1. retired' = retained /\ Len(retained) + Len(rest) <= Len(retired)
        BY <3>2, Zenon DEF ReapEnd, ScanKeepsHeld
      <4> QED BY <4>1 DEF TypeOK
    <3> QED BY <1>5, <3>1, <3>2, Zenon DEF Reap
  <2>2. MayAppend' \subseteq MayAppend /\ MayAppendTwice' \subseteq MayAppendTwice
    <3>1. CASE ReapNothing(p) \/ ReapEnd(p)
      BY <3>1, Zenon DEF ReapNothing, ReapEnd, Return, Goto, MayAppend, MayAppendTwice, TypeOK,
                  applierVars
    <3>2. CASE ReapBegin(p) \/ ReapScan(p)
      BY <3>2, Zenon DEF ReapBegin, ReapScan, Goto, MayAppend, MayAppendTwice, TypeOK, applierVars
    <3> QED BY <1>5, <3>1, <3>2, Zenon DEF Reap
  <2> QED BY <2>1, <2>2, <1>0, AccountUntouched, Zenon
<1>6. CASE UNCHANGED vars
  <2>1. UNCHANGED <<retired, stage, pc>>
    BY <1>6, Zenon DEF vars, storeVars, applierVars
  <2>2. MayAppend' \subseteq MayAppend /\ MayAppendTwice' \subseteq MayAppendTwice
    BY <2>1, <1>a, Zenon
  <2> QED BY <2>1, <2>2, <1>0, <1>b, AccountUntouched, Zenon
<1> QED BY <1>1, <1>2, <1>3, <1>4, <1>5, <1>6, Zenon DEF Next

\* The retired list never holds more than MaxRetired - 1 snapshots and two per
\* concurrent applier: UnderPressure, though checked long before the append it
\* guards and not at all before a rollback, does bound the list.
THEOREM PressureBounds == Spec => []RetiredBounded
<1>1. Init => AppendsBounded
  <2> SUFFICES ASSUME Init PROVE AppendsBounded
    OBVIOUS
  <2>1. MayAppend = {} /\ MayAppendTwice = {} /\ Len(retired) = 0
    BY Zenon DEF Init, MayAppend, MayAppendTwice, Procs
  <2> QED BY <2>1, FS_EmptySet, AppendersFinite, SnapshotAssumption DEF AppendsBounded
<1>2. ListInv /\ AppendsBounded /\ [Next]_vars => AppendsBounded'
  BY AccountStep
<1>3. ListInv /\ AppendsBounded => RetiredBounded
  BY AppendersFinite, SnapshotAssumption DEF ListInv, CountInv, TypeOK, AppendsBounded,
                                             RetiredBounded
<1> QED BY <1>1, <1>2, <1>3, ListInvariant, PTL DEF Spec

-----------------------------------------------------------------------------
(* Shutdown: the tracker of requests under way, and the drain.              *)
CONSTANTS
  Conns, MaxRequests
VARIABLES
  sent, count, zeroCh, closed, locked, listening, stocked, waitCh, expired,
  older, refused

S == INSTANCE Shutdown

\* The operators of FiniteSets, as the instance names them.
LEMMA SFinite == \A X : S!IsFiniteSet(X) <=> IsFiniteSet(X)
BY Zenon DEF S!IsFiniteSet, IsFiniteSet

\* The connections whose request the tracker counts.
Counted == {c \in Conns : pc[c] \in {"incLock", "serving", "upstream", "decAdd"}}

\* The count is exact, and a channel that is not closed has somebody to close
\* it: a counted request, or a Dec that is about to.
TrackerInv ==
  /\ S!TypeOK
  /\ count = Cardinality(Counted)
  /\ \A ch \in closed : ch <= zeroCh
  /\ zeroCh \in closed \/ count > 0 \/ \E c \in Conns : pc[c] = "decLock"

LEMMA CountedIn ==
  ASSUME S!ShutdownConstants, S!TypeOK, NEW c \in Conns, c \notin Counted,
         Counted' = Counted \cup {c}
  PROVE  Cardinality(Counted') = Cardinality(Counted) + 1
<1>1. IsFiniteSet(Counted)
  BY FS_Subset, SFinite, Zenon DEF S!ShutdownConstants, Counted
<1> QED BY <1>1, FS_AddElement, Zenon

LEMMA CountedOut ==
  ASSUME S!ShutdownConstants, S!TypeOK, NEW c \in Conns, c \in Counted,
         Counted' = Counted \ {c}
  PROVE  Cardinality(Counted') = Cardinality(Counted) - 1
<1>1. IsFiniteSet(Counted)
  BY FS_Subset, SFinite, Zenon DEF S!ShutdownConstants, Counted
<1> QED BY <1>1, FS_RemoveElement, Zenon

LEMMA CountedZero ==
  ASSUME S!ShutdownConstants
  PROVE  /\ Cardinality(Counted) \in Nat
         /\ Cardinality(Counted) = 0 <=> Counted = {}
<1>1. IsFiniteSet(Counted)
  BY FS_Subset, SFinite, Zenon DEF S!ShutdownConstants, Counted
<1> QED BY <1>1, FS_EmptySet, FS_CardinalityType, Zenon

LEMMA TrackerInit == ASSUME S!ShutdownConstants, S!Init PROVE TrackerInv
<1>1. Counted = {}
  BY Zenon DEF S!Init, Counted
<1>2. count = Cardinality(Counted)
  BY <1>1, FS_EmptySet, Zenon DEF S!Init
<1>3. 0 \in 0..MaxRequests
  BY DEF S!ShutdownConstants
<1>4. /\ pc \in [Conns -> S!InRequest \cup {"new", "open", "closed"}]
      /\ sent \in [Conns -> 0..MaxRequests]
  BY <1>3, Zenon DEF S!Init
<1>5. count \in Nat /\ zeroCh \in Nat /\ closed \subseteq Nat /\ waitCh \in Nat
  BY DEF S!Init
<1>6. S!TypeOK
  BY <1>4, <1>5, Zenon DEF S!Init, S!TypeOK
<1> QED BY <1>2, <1>6 DEF S!Init, TrackerInv

LEMMA TrackerIncAdd ==
  ASSUME S!ShutdownConstants, TrackerInv, NEW c \in Conns, S!IncAdd(c) PROVE TrackerInv'
<1>1. c \notin Counted /\ Counted' = Counted \cup {c}
  BY Zenon DEF TrackerInv, S!TypeOK, S!IncAdd, S!Goto, Counted
<1>2. count' = Cardinality(Counted')
  BY <1>1, CountedIn, Zenon DEF TrackerInv, S!IncAdd
<1>3. S!TypeOK'
  <2>1. pc' \in [Conns -> S!InRequest \cup {"new", "open", "closed"}]
    BY Zenon DEF TrackerInv, S!TypeOK, S!IncAdd, S!Goto, S!InRequest
  <2>2. count' \in Nat /\ sent' \in [Conns -> 0..MaxRequests]
    BY DEF S!ShutdownConstants, TrackerInv, S!TypeOK, S!IncAdd
  <2> QED BY <2>1, <2>2, Zenon DEF TrackerInv, S!TypeOK, S!IncAdd, S!serverVars
<1>4. zeroCh' = zeroCh /\ closed' = closed /\ count' > 0
  BY DEF S!IncAdd, TrackerInv, S!TypeOK
<1> QED BY <1>2, <1>3, <1>4, Zenon DEF TrackerInv

LEMMA TrackerIncMake ==
  ASSUME S!ShutdownConstants, TrackerInv, NEW c \in Conns, S!IncMake(c) PROVE TrackerInv'
<1>1. c \in Counted /\ Counted' = Counted
  BY Zenon DEF TrackerInv, S!TypeOK, S!IncMake, S!Goto, Counted
<1>2. count > 0
  BY <1>1, CountedZero DEF TrackerInv
<1>3. S!TypeOK'
  <2>1. pc' \in [Conns -> S!InRequest \cup {"new", "open", "closed"}]
    BY Zenon DEF TrackerInv, S!TypeOK, S!IncMake, S!Goto, S!InRequest
  <2>2. zeroCh' \in Nat
    BY DEF TrackerInv, S!TypeOK, S!IncMake
  <2> QED BY <2>1, <2>2, Zenon DEF TrackerInv, S!TypeOK, S!IncMake, S!serverVars
<1> QED BY <1>1, <1>2, <1>3 DEF TrackerInv, S!TypeOK, S!IncMake

LEMMA TrackerDecAdd ==
  ASSUME S!ShutdownConstants, TrackerInv, NEW c \in Conns, S!DecAdd(c) PROVE TrackerInv'
<1>1. c \in Counted /\ Counted' = Counted \ {c}
  BY Zenon DEF TrackerInv, S!TypeOK, S!DecAdd, S!Goto, Counted
<1>2. count > 0 /\ count' = count - 1 /\ count' = Cardinality(Counted')
  <2>1. Counted # {} /\ S!TypeOK
    BY <1>1, Zenon DEF TrackerInv
  <2>2. Cardinality(Counted) \in Nat /\ Cardinality(Counted) # 0
    BY <2>1, CountedZero, Zenon
  <2>3. Cardinality(Counted') = Cardinality(Counted) - 1
    BY <1>1, <2>1, CountedOut, Zenon
  <2>4. count = Cardinality(Counted) /\ count' = count - 1
    BY Zenon DEF TrackerInv, S!DecAdd
  <2> QED BY <2>2, <2>3, <2>4
<1>3. S!TypeOK'
  <2>1. pc' \in [Conns -> S!InRequest \cup {"new", "open", "closed"}]
    BY Zenon DEF TrackerInv, S!TypeOK, S!DecAdd, S!Goto, S!InRequest
  <2>2. count' \in Nat
    BY <1>2 DEF TrackerInv, S!TypeOK
  <2> QED BY <2>1, <2>2, Zenon DEF TrackerInv, S!TypeOK, S!DecAdd, S!serverVars
<1>4. count' > 0 \/ pc'[c] = "decLock"
  BY <1>2, <1>3 DEF TrackerInv, S!TypeOK, S!DecAdd, S!Goto
<1> QED BY <1>2, <1>3, <1>4, Zenon DEF TrackerInv, S!DecAdd

LEMMA TrackerDecClose ==
  ASSUME S!ShutdownConstants, TrackerInv, NEW c \in Conns, S!DecClose(c) PROVE TrackerInv'
<1>1. Counted' = Counted /\ zeroCh' = zeroCh /\ zeroCh \in closed'
  BY Zenon DEF TrackerInv, S!TypeOK, S!DecClose, S!Goto, Counted
<1>2. S!TypeOK'
  BY Zenon DEF TrackerInv, S!TypeOK, S!DecClose, S!Goto, S!InRequest, S!serverVars
<1> QED BY <1>1, <1>2 DEF TrackerInv, S!TypeOK, S!DecClose

\* The other steps of a connection.
LEMMA TrackerPasses ==
  ASSUME S!ShutdownConstants, TrackerInv, NEW c \in Conns,
         S!Accept(c) \/ S!Pick(c) \/ S!Respond(c) \/ S!HTTPCloseIdle(c)
  PROVE TrackerInv'
<1>1. Counted' = Counted
  BY Zenon DEF TrackerInv, S!TypeOK, S!Accept, S!Pick, S!Respond, S!HTTPCloseIdle, S!Goto, Counted
<1>2. \A d \in Conns : pc[d] = "decLock" => pc'[d] = "decLock"
  BY Zenon DEF TrackerInv, S!TypeOK, S!Accept, S!Pick, S!Respond, S!HTTPCloseIdle, S!Goto
<1>3. UNCHANGED S!trackerVars
  BY Zenon DEF S!Accept, S!Pick, S!Respond, S!HTTPCloseIdle
<1>4. S!TypeOK'
  BY Zenon DEF TrackerInv, S!TypeOK, S!Accept, S!Pick, S!Respond, S!HTTPCloseIdle, S!Goto, S!InRequest,
         S!serverVars, S!trackerVars
<1> QED BY <1>1, <1>2, <1>3, <1>4, Zenon DEF TrackerInv, S!trackerVars

LEMMA TrackerServer ==
  ASSUME TrackerInv,
         \/ S!CloseListeners \/ S!RunStoppers \/ S!WaitLock \/ S!WaitSelect \/ S!HTTPShutdown \/ S!Finish
         \/ S!GracefulTimeout \/ UNCHANGED S!vars
  PROVE TrackerInv'
<1>1. UNCHANGED <<S!trackerVars, pc>>
  BY Zenon DEF S!CloseListeners, S!RunStoppers, S!WaitLock, S!WaitSelect, S!HTTPShutdown, S!Finish,
         S!GracefulTimeout, S!vars, S!connVars
<1>2. S!TypeOK'
  BY Zenon DEF TrackerInv, S!TypeOK, S!CloseListeners, S!RunStoppers, S!WaitLock, S!WaitSelect,
         S!HTTPShutdown, S!Finish, S!GracefulTimeout, S!vars, S!connVars, S!trackerVars, S!serverVars
<1> QED BY <1>1, <1>2, Zenon DEF TrackerInv, Counted, S!trackerVars

LEMMA TrackerNext == ASSUME S!ShutdownConstants, TrackerInv, [S!Next]_S!vars PROVE TrackerInv'
BY TrackerIncAdd, TrackerIncMake, TrackerDecAdd, TrackerDecClose, TrackerPasses, TrackerServer, Zenon
   DEF S!Next, S!Connection, S!ShutdownSequence

\* IdleTrackerSignals, for any set of connections: when no request is between Inc
\* and the end of Dec, the channel inflight.Wait would read is closed, so that
\* shutdownSequence does not wait for an idle server.
THEOREM TrackerSignals == ASSUME S!ShutdownConstants PROVE S!Spec => []S!IdleTrackerSignals
<1>1. S!Init => TrackerInv
  BY TrackerInit, Zenon
<1>2. TrackerInv /\ [S!Next]_S!vars => TrackerInv'
  BY TrackerNext, Zenon
<1>3. ASSUME TrackerInv PROVE S!IdleTrackerSignals
  <2> SUFFICES ASSUME \A c \in Conns : pc[c] \notin S!InRequest PROVE zeroCh \in closed
    BY Zenon DEF S!IdleTrackerSignals
  <2>1. Counted = {} /\ ~\E c \in Conns : pc[c] = "decLock"
    BY DEF Counted, S!InRequest
  <2> QED BY <1>3, <2>1, CountedZero DEF TrackerInv
<1> QED BY <1>1, <1>2, <1>3, PTL DEF S!Spec

\* Once the listeners are closed no connection is added.
DrainInv ==
  /\ S!TypeOK
  /\ stage # "running" => ~listening
  /\ stage = "drained" \/ (stage = "returned" /\ ~expired)
       => \A c \in Conns : pc[c] \in {"new", "closed"}

LEMMA DrainConn ==
  ASSUME DrainInv, S!TypeOK', NEW c \in Conns, S!Connection(c) \/ S!HTTPCloseIdle(c)
  PROVE DrainInv'
<1>1. UNCHANGED S!serverVars
  BY Zenon DEF S!Connection, S!Accept, S!IncAdd, S!IncMake, S!Pick, S!Respond, S!DecAdd, S!DecClose,
         S!HTTPCloseIdle
<1>2. pc[c] \in {"new", "closed"} => pc[c] = "new" /\ listening
  BY Zenon DEF S!Connection, S!Accept, S!IncAdd, S!IncMake, S!Pick, S!Respond, S!DecAdd, S!DecClose,
         S!HTTPCloseIdle
<1>3. ASSUME stage = "drained" \/ (stage = "returned" /\ ~expired)
      PROVE  FALSE
  BY <1>2, <1>3, Zenon DEF DrainInv
<1> QED BY <1>1, <1>3, Zenon DEF DrainInv, S!serverVars

LEMMA DrainServer ==
  ASSUME DrainInv, S!TypeOK',
         \/ S!CloseListeners \/ S!RunStoppers \/ S!WaitLock \/ S!WaitSelect \/ S!HTTPShutdown \/ S!Finish
         \/ S!GracefulTimeout \/ UNCHANGED S!vars
  PROVE DrainInv'
BY Zenon DEF DrainInv, S!TypeOK, S!CloseListeners, S!RunStoppers, S!WaitLock, S!WaitSelect,
       S!HTTPShutdown, S!Finish,
       S!GracefulTimeout, S!vars, S!connVars, S!serverVars

\* DrainedMeansIdle, for any set of connections: shutdownSequence returns nil only
\* when no connection is in a request, although inflight.Wait may return early.
THEOREM DrainedIsIdle == ASSUME S!ShutdownConstants PROVE S!Spec => []S!DrainedMeansIdle
<1>1. S!Init => TrackerInv /\ DrainInv
  BY TrackerInit, Zenon DEF TrackerInv, DrainInv, S!Init
<1>2. ASSUME TrackerInv, DrainInv, [S!Next]_S!vars PROVE TrackerInv' /\ DrainInv'
  <2>1. TrackerInv' /\ S!TypeOK'
    BY <1>2, TrackerNext, Zenon DEF TrackerInv
  <2> QED BY <1>2, <2>1, DrainConn, DrainServer, Zenon DEF S!Next, S!ShutdownSequence
<1>3. DrainInv => S!DrainedMeansIdle
  BY Zenon DEF DrainInv, S!DrainedMeansIdle, S!InRequest
<1> QED BY <1>1, <1>2, <1>3, PTL DEF S!Spec
=============================================================================
