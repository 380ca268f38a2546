-------------------------- MODULE AdmissionProofs ---------------------------
(***************************************************************************)
(* Proofs about what lets a request in: OverloadLimiter for any finite set *)
(* of requests and any capacities of its two channels, with the Semaphore  *)
(* it implements; PluginFilter for any sets of requests, settings and      *)
(* connections.                                                            *)
(***************************************************************************)
EXTENDS OverloadLimiter, FiniteSetTheorems, TLAPS

\* The requests blocked in the send are those listed, and each is listed once.
WaitingListed ==
  /\ \A i, j \in 1..Len(waiting) : waiting[i] = waiting[j] => i = j
  /\ \A r \in Requests : pc[r] = "waiting" <=> \E i \in 1..Len(waiting) : waiting[i] = r

\* The inductive invariant.
LimiterInv == TypeOK /\ WaitingListed /\ CountsExact /\ WorkConserving

-----------------------------------------------------------------------------
(* Lemmas on sequences and on the two sets that the channels count.        *)

LEMMA Concatenation ==
  ASSUME NEW S, NEW s \in Seq(S), NEW t \in Seq(S)
  PROVE  /\ s \o t \in Seq(S) /\ Len(s \o t) = Len(s) + Len(t)
         /\ \A j \in 1..Len(s) : (s \o t)[j] = s[j]
         /\ \A j \in (Len(s) + 1)..(Len(s) + Len(t)) : (s \o t)[j] = t[j - Len(s)]
OBVIOUS

\* The sequence without its i-th element.
RemoveAt(s, i) == SubSeq(s, 1, i - 1) \o SubSeq(s, i + 1, Len(s))

LEMMA RemoveAtProps ==
  ASSUME NEW S, NEW s \in Seq(S), NEW i \in 1..Len(s)
  PROVE  /\ RemoveAt(s, i) \in Seq(S)
         /\ Len(RemoveAt(s, i)) = Len(s) - 1
         /\ \A j \in 1..Len(s) - 1 : RemoveAt(s, i)[j] = IF j < i THEN s[j] ELSE s[j + 1]
<1> DEFINE before == SubSeq(s, 1, i - 1)
           after == SubSeq(s, i + 1, Len(s))
<1>1. before \in Seq(S) /\ Len(before) = i - 1 /\ \A j \in 1..i - 1 : before[j] = s[j]
  OBVIOUS
<1>2. /\ after \in Seq(S) /\ Len(after) = Len(s) - i
      /\ \A j \in 1..Len(s) - i : after[j] = s[i + j]
  OBVIOUS
<1>3. RemoveAt(s, i) = before \o after
  BY DEF RemoveAt
<1> HIDE DEF before, after
<1>a. before \in Seq(S) /\ after \in Seq(S)
  BY <1>1, <1>2, Zenon
<1>4. /\ before \o after \in Seq(S)
      /\ Len(before \o after) = Len(before) + Len(after)
      /\ \A j \in 1..Len(before) : (before \o after)[j] = before[j]
      /\ \A j \in (Len(before) + 1)..(Len(before) + Len(after)) :
           (before \o after)[j] = after[j - Len(before)]
  BY <1>a, Concatenation, Zenon
<1>5. Len(before \o after) = Len(s) - 1
  BY <1>1, <1>2, <1>4
<1>6. ASSUME NEW j \in 1..Len(s) - 1
      PROVE  (before \o after)[j] = IF j < i THEN s[j] ELSE s[j + 1]
  <2>1. CASE j < i
    BY <1>1, <1>2, <1>4, <2>1
  <2>2. CASE ~(j < i)
    <3>1. (before \o after)[j] = after[j - (i - 1)] /\ j - (i - 1) \in 1..Len(s) - i
      BY <1>1, <1>2, <1>4, <2>2
    <3>2. after[j - (i - 1)] = s[j + 1]
      BY <1>2, <3>1
    <3> QED BY <2>2, <3>1, <3>2
  <2> QED BY <2>1, <2>2, Zenon
<1> QED BY <1>3, <1>4, <1>5, <1>6

\* Requests hold slots and places in the queue in finite numbers.
LEMMA SetsFinite ==
  /\ IsFiniteSet(Holders) /\ Cardinality(Holders) \in Nat
  /\ IsFiniteSet(Queued) /\ Cardinality(Queued) \in Nat
<1>1. Holders \in SUBSET Requests /\ Queued \in SUBSET Requests
  BY DEF Holders, Queued
<1> QED BY <1>1, LimiterAssumption, FS_Subset, FS_CardinalityType

\* A request that goes to a label joins or leaves the two sets by that label.
LEMMA GotoSets ==
  ASSUME TypeOK, NEW r \in Requests, NEW label \in Labels, Goto(r, label)
  PROVE  /\ pc' \in [Requests -> Labels] /\ pc'[r] = label
         /\ \A q \in Requests \ {r} : pc'[q] = pc[q]
         /\ Holders' = IF label \in {"granted", "holding"}
                       THEN Holders \cup {r} ELSE Holders \ {r}
         /\ Queued' = IF label \in {"queued", "waiting", "granted", "gaveUp"}
                      THEN Queued \cup {r} ELSE Queued \ {r}
  BY DEF TypeOK, Goto, Holders, Queued

\* How their sizes follow.
LEMMA SetSizes ==
  ASSUME NEW S, IsFiniteSet(S), NEW x
  PROVE  /\ Cardinality(S \cup {x}) = IF x \in S THEN Cardinality(S) ELSE Cardinality(S) + 1
         /\ Cardinality(S \ {x}) = IF x \in S THEN Cardinality(S) - 1 ELSE Cardinality(S)
         /\ x \in S => Cardinality(S) >= 1
<1>1. /\ Cardinality(S \cup {x}) = IF x \in S THEN Cardinality(S) ELSE Cardinality(S) + 1
      /\ Cardinality(S \ {x}) = IF x \in S THEN Cardinality(S) - 1 ELSE Cardinality(S)
      /\ Cardinality(S) \in Nat /\ Cardinality(S \ {x}) \in Nat
  BY FS_AddElement, FS_RemoveElement, FS_CardinalityType
<1> QED BY <1>1

-----------------------------------------------------------------------------
(* The invariant is inductive.                                             *)

LEMMA InitInv == Init => LimiterInv
<1> SUFFICES ASSUME Init PROVE LimiterInv
  OBVIOUS
<1>1. Holders = {} /\ Queued = {}
  BY DEF Init, Holders, Queued
<1>2. Cardinality({}) = 0
  BY FS_EmptySet
<1>3. TypeOK /\ WaitingListed /\ WorkConserving
  BY LimiterAssumption DEF Init, TypeOK, WaitingListed, WorkConserving, Labels
<1> QED BY <1>1, <1>2, <1>3, LimiterAssumption DEF Init, LimiterInv, CountsExact

LEMMA ArriveInv ==
  ASSUME LimiterInv, NEW r \in Requests, Arrive(r)
  PROVE  LimiterInv'
<1> USE LimiterAssumption
<1>1. TypeOK /\ WaitingListed /\ CountsExact /\ WorkConserving /\ pc[r] = "idle"
  BY DEF LimiterInv, Arrive
<1>2. r \notin Holders /\ r \notin Queued
  BY <1>1 DEF Holders, Queued
<1>3. CASE inflight < MaxInflight
  <2>1. Goto(r, "holding") /\ inflight' = inflight + 1
    BY <1>3 DEF Arrive
  <2>2. Holders' = Holders \cup {r} /\ Queued' = Queued
    BY <1>1, <1>2, <2>1, GotoSets DEF Labels
  <2>3. CountsExact'
    BY <1>1, <1>2, <1>3, <2>1, <2>2, SetSizes, SetsFinite DEF CountsExact, Arrive, TypeOK
  <2>4. TypeOK' /\ WaitingListed' /\ WorkConserving'
    BY <1>1, <1>3, <2>1 DEF TypeOK, WaitingListed, WorkConserving, Arrive, Goto, Labels
  <2> QED BY <2>3, <2>4 DEF LimiterInv
<1>4. CASE ~(inflight < MaxInflight)
  <2>1. Goto(r, "full") /\ inflight' = inflight
    BY <1>4 DEF Arrive
  <2>2. Holders' = Holders /\ Queued' = Queued
    BY <1>1, <1>2, <2>1, GotoSets DEF Labels
  <2>3. TypeOK' /\ WaitingListed' /\ WorkConserving'
    BY <1>1, <2>1 DEF TypeOK, WaitingListed, WorkConserving, Arrive, Goto, Labels
  <2> QED BY <1>1, <2>1, <2>2, <2>3, Zenon DEF LimiterInv, CountsExact, Arrive
<1> QED BY <1>3, <1>4

LEMMA EnqueueInv ==
  ASSUME LimiterInv, NEW r \in Requests, Enqueue(r)
  PROVE  LimiterInv'
<1> USE LimiterAssumption
<1>1. TypeOK /\ WaitingListed /\ CountsExact /\ WorkConserving /\ pc[r] = "full"
  BY DEF LimiterInv, Enqueue
<1>2. r \notin Holders /\ r \notin Queued
  BY <1>1 DEF Holders, Queued
<1>3. CASE queue < MaxQueue
  <2>1. Goto(r, "queued") /\ queue' = queue + 1
    BY <1>3 DEF Enqueue
  <2>2. Holders' = Holders /\ Queued' = Queued \cup {r}
    BY <1>1, <1>2, <2>1, GotoSets DEF Labels
  <2>3. CountsExact'
    BY <1>1, <1>2, <2>1, <2>2, SetSizes, SetsFinite, Zenon DEF CountsExact, Enqueue, TypeOK
  <2>4. TypeOK' /\ WaitingListed' /\ WorkConserving'
    <3>1. wasQueued' \in [Requests -> BOOLEAN]
      BY <1>1, <1>3, Zenon DEF TypeOK, Enqueue
    <3>2. TypeOK'
      BY <1>1, <1>3, <2>1, <3>1 DEF TypeOK, Enqueue, Goto, Labels
    <3>3. WaitingListed' /\ WorkConserving'
      BY <1>1, <2>1 DEF TypeOK, WaitingListed, WorkConserving, Enqueue, Goto, Labels
    <3> QED BY <3>2, <3>3, Zenon
  <2> QED BY <2>3, <2>4 DEF LimiterInv
<1>4. CASE ~(queue < MaxQueue)
  <2>1. Goto(r, "rejected") /\ queue' = queue
    BY <1>4 DEF Enqueue
  <2>2. Holders' = Holders /\ Queued' = Queued
    BY <1>1, <1>2, <2>1, GotoSets DEF Labels
  <2>3. TypeOK' /\ WaitingListed' /\ WorkConserving'
    BY <1>1, <1>4, <2>1 DEF TypeOK, WaitingListed, WorkConserving, Enqueue, Goto, Labels
  <2> QED BY <1>1, <2>1, <2>2, <2>3 DEF LimiterInv, CountsExact, Enqueue
<1> QED BY <1>3, <1>4

LEMMA SelectInv ==
  ASSUME LimiterInv, NEW r \in Requests, Select(r)
  PROVE  LimiterInv'
<1> USE LimiterAssumption
<1>1. TypeOK /\ WaitingListed /\ CountsExact /\ WorkConserving /\ pc[r] = "queued"
  BY DEF LimiterInv, Select
<1>2. r \notin Holders /\ r \in Queued
  BY <1>1 DEF Holders, Queued
<1>3. CASE inflight < MaxInflight
  <2>1. Goto(r, "granted") /\ inflight' = inflight + 1 /\ waiting' = waiting
    BY <1>3 DEF Select
  <2>2. Holders' = Holders \cup {r} /\ Queued' = Queued
    BY <1>1, <1>2, <2>1, GotoSets DEF Labels
  <2>3. CountsExact'
    BY <1>1, <1>2, <1>3, <2>1, <2>2, SetSizes, SetsFinite DEF CountsExact, Select, TypeOK
  <2>4. TypeOK' /\ WaitingListed' /\ WorkConserving'
    BY <1>1, <1>3, <2>1 DEF TypeOK, WaitingListed, WorkConserving, Select, Goto, Labels
  <2> QED BY <2>3, <2>4 DEF LimiterInv
<1>4. CASE ~(inflight < MaxInflight)
  <2>1. Goto(r, "waiting") /\ inflight' = inflight /\ waiting' = Append(waiting, r)
    BY <1>4, Zenon DEF Select
  <2>2. Holders' = Holders /\ Queued' = Queued
    <3>1. Holders' = Holders \ {r} /\ Queued' = Queued \cup {r}
      BY <1>1, <2>1, GotoSets DEF Labels
    <3> QED BY <1>2, <3>1
  <2>3. /\ waiting' \in Seq(Requests) /\ Len(waiting') = Len(waiting) + 1
        /\ \A i \in 1..Len(waiting) : waiting'[i] = waiting[i]
        /\ waiting'[Len(waiting) + 1] = r
    BY <1>1, <2>1 DEF TypeOK
  <2>4. WaitingListed'
    <3>1. \A i \in 1..Len(waiting) : waiting[i] # r
      BY <1>1 DEF WaitingListed
    <3>2. \A i, j \in 1..Len(waiting') : waiting'[i] = waiting'[j] => i = j
      BY <1>1, <2>3, <3>1 DEF WaitingListed, TypeOK
    <3>3. pc'[r] = "waiting" /\ \A q \in Requests \ {r} : pc'[q] = pc[q]
      BY <1>1, <2>1, GotoSets, Zenon DEF Labels
    <3>4. ASSUME NEW q \in Requests
          PROVE  pc'[q] = "waiting" <=> \E i \in 1..Len(waiting') : waiting'[i] = q
      <4>1. CASE q = r
        BY <1>1, <2>3, <3>3, <4>1 DEF TypeOK
      <4>2. CASE q # r
        BY <1>1, <2>3, <3>3, <4>2 DEF WaitingListed, TypeOK
      <4> QED BY <4>1, <4>2, Zenon
    <3> QED BY <3>2, <3>4 DEF WaitingListed
  <2>5. TypeOK' /\ WorkConserving'
    BY <1>1, <1>4, <2>1, <2>3 DEF TypeOK, WorkConserving, Select, Goto, Labels
  <2> QED BY <1>1, <2>1, <2>2, <2>4, <2>5, Zenon DEF LimiterInv, CountsExact, Select
<1> QED BY <1>3, <1>4

LEMMA GiveUpInv ==
  ASSUME LimiterInv, NEW r \in Requests, GiveUp(r)
  PROVE  LimiterInv'
<1> USE LimiterAssumption
<1>1. TypeOK /\ WaitingListed /\ CountsExact /\ WorkConserving
  BY DEF LimiterInv
<1>2. Goto(r, "gaveUp") /\ pc[r] \in {"queued", "waiting"}
  BY Zenon DEF GiveUp
<1>3. Holders' = Holders /\ Queued' = Queued
  <2>1. r \notin Holders /\ r \in Queued
    BY <1>2, Zenon DEF Holders, Queued
  <2> QED BY <1>1, <1>2, <2>1, GotoSets DEF Labels
<1>4. pc'[r] = "gaveUp" /\ \A q \in Requests \ {r} : pc'[q] = pc[q]
  BY <1>1, <1>2, GotoSets DEF Labels
<1>5. waiting' \in Seq(Requests) /\ (waiting' # <<>> => waiting # <<>>) /\ WaitingListed'
  <2>1. CASE pc[r] = "queued"
    BY <1>1, <1>4, <2>1 DEF GiveUp, WaitingListed, TypeOK
  <2>2. CASE pc[r] = "waiting"
    <3>1. PICK k \in 1..Len(waiting) : waiting[k] = r /\ waiting' = RemoveAt(waiting, k)
      BY <2>2, Zenon DEF GiveUp, RemoveAt
    <3>2. /\ waiting' \in Seq(Requests) /\ Len(waiting') = Len(waiting) - 1
          /\ \A j \in 1..Len(waiting) - 1 :
               waiting'[j] = IF j < k THEN waiting[j] ELSE waiting[j + 1]
      BY <1>1, <3>1, RemoveAtProps, Zenon DEF TypeOK
    <3>3. Len(waiting) \in Nat /\ k \in Nat
      BY <1>1 DEF TypeOK
    <3>4. \A i, j \in 1..Len(waiting') : waiting'[i] = waiting'[j] => i = j
      <4> SUFFICES ASSUME NEW i \in 1..Len(waiting'), NEW j \in 1..Len(waiting'),
                          waiting'[i] = waiting'[j]
                   PROVE  i = j
        BY Zenon
      <4>1. PICK x, y \in 1..Len(waiting) :
              /\ x = (IF i < k THEN i ELSE i + 1) /\ waiting'[i] = waiting[x]
              /\ y = (IF j < k THEN j ELSE j + 1) /\ waiting'[j] = waiting[y]
        BY <3>2, <3>3
      <4>2. \A m, n \in 1..Len(waiting) : waiting[m] = waiting[n] => m = n
        BY <1>1, Zenon DEF WaitingListed
      <4>3. waiting[x] = waiting[y]
        BY <4>1, Zenon
      <4>4. x = y
        BY <4>2, <4>3
      <4> QED BY <3>2, <3>3, <4>1, <4>4
    <3>5. ASSUME NEW q \in Requests
          PROVE  pc'[q] = "waiting" <=> \E i \in 1..Len(waiting') : waiting'[i] = q
      <4>1. CASE q = r
        BY <1>1, <1>4, <3>1, <3>2, <3>3, <4>1 DEF WaitingListed
      <4>2. CASE q # r
        <5>1. ASSUME NEW i \in 1..Len(waiting), waiting[i] = q
              PROVE  \E j \in 1..Len(waiting') : waiting'[j] = q
          <6>1. CASE i < k
            BY <3>2, <3>3, <5>1, <6>1
          <6>2. CASE i > k
            <7>1. i - 1 \in 1..Len(waiting') /\ waiting'[i - 1] = waiting[i]
              BY <3>2, <3>3, <6>2
            <7> QED BY <5>1, <7>1, Zenon
          <6> QED BY <3>1, <4>2, <5>1, <6>1, <6>2, <3>3
        <5>2. ASSUME NEW i \in 1..Len(waiting'), waiting'[i] = q
              PROVE  \E j \in 1..Len(waiting) : waiting[j] = q
          <6>1. CASE i < k
            BY <3>2, <3>3, <5>2, <6>1
          <6>2. CASE ~(i < k)
            <7>1. i + 1 \in 1..Len(waiting) /\ waiting'[i] = waiting[i + 1]
              BY <3>2, <3>3, <6>2
            <7> QED BY <5>2, <7>1, Zenon
          <6> QED BY <6>1, <6>2, Zenon
        <5> QED BY <1>1, <1>4, <4>2, <5>1, <5>2, Zenon DEF WaitingListed
      <4> QED BY <4>1, <4>2
    <3>6. waiting # <<>>
      BY <3>1
    <3> QED BY <3>2, <3>4, <3>5, <3>6, Zenon DEF WaitingListed
  <2> QED BY <1>2, <2>1, <2>2
<1>6. TypeOK' /\ WorkConserving'
  BY <1>1, <1>2, <1>5 DEF TypeOK, WorkConserving, GiveUp, Goto, Labels
<1> QED BY <1>1, <1>3, <1>5, <1>6, Zenon DEF LimiterInv, CountsExact, GiveUp

LEMMA DequeueInv ==
  ASSUME LimiterInv, NEW r \in Requests, Dequeue(r)
  PROVE  LimiterInv'
<1> USE LimiterAssumption
<1>1. TypeOK /\ WaitingListed /\ CountsExact /\ WorkConserving
  BY DEF LimiterInv
<1>2. /\ pc[r] \in {"granted", "gaveUp"} /\ queue' = queue - 1
      /\ Goto(r, IF pc[r] = "granted" THEN "holding" ELSE "rejected")
  BY DEF Dequeue
<1>3. r \in Queued /\ (r \in Holders <=> pc[r] = "granted")
  BY <1>2 DEF Holders, Queued
<1>4. Queued' = Queued \ {r}
  BY <1>1, <1>2, GotoSets DEF Labels
<1>5. Holders' = Holders
  <2>1. CASE pc[r] = "granted"
    <3>1. Holders' = Holders \cup {r}
      BY <1>1, <1>2, <2>1, GotoSets, Zenon DEF Labels
    <3> QED BY <1>3, <2>1, <3>1, Zenon
  <2>2. CASE pc[r] = "gaveUp"
    <3>1. Holders' = Holders \ {r}
      BY <1>1, <1>2, <2>2, GotoSets, Zenon DEF Labels
    <3> QED BY <1>3, <2>2, <3>1
  <2> QED BY <1>2, <2>1, <2>2, Zenon
<1>6. queue >= 1 /\ CountsExact'
  BY <1>1, <1>2, <1>3, <1>4, <1>5, SetSizes, SetsFinite, Zenon DEF CountsExact, Dequeue, TypeOK
<1>7. TypeOK' /\ WaitingListed' /\ WorkConserving'
  BY <1>1, <1>2, <1>6 DEF TypeOK, WaitingListed, WorkConserving, Dequeue, Goto, Labels
<1> QED BY <1>6, <1>7 DEF LimiterInv

LEMMA ReleaseFreeInv ==
  ASSUME LimiterInv, NEW r \in Requests, ReleaseFree(r)
  PROVE  LimiterInv'
<1> USE LimiterAssumption
<1>1. TypeOK /\ WaitingListed /\ CountsExact /\ WorkConserving
  BY DEF LimiterInv
<1>2. pc[r] = "holding" /\ waiting = <<>> /\ inflight' = inflight - 1 /\ Goto(r, "idle")
  BY DEF ReleaseFree
<1>3. r \in Holders /\ r \notin Queued
  BY <1>2 DEF Holders, Queued
<1>4. Holders' = Holders \ {r} /\ Queued' = Queued
  <2>1. Holders' = Holders \ {r} /\ Queued' = Queued \ {r}
    BY <1>1, <1>2, GotoSets DEF Labels
  <2> QED BY <1>3, <2>1
<1>5. inflight >= 1 /\ CountsExact'
  <2>1. Cardinality(Holders') = Cardinality(Holders) - 1 /\ Cardinality(Holders) >= 1
    BY <1>3, <1>4, SetSizes, SetsFinite, Zenon
  <2>2. inflight = Cardinality(Holders) /\ inflight <= MaxInflight /\ queue = Cardinality(Queued)
    BY <1>1 DEF CountsExact
  <2>3. queue' = queue /\ Cardinality(Queued') = Cardinality(Queued)
    BY <1>4 DEF ReleaseFree
  <2> QED BY <1>1, <1>2, <2>1, <2>2, <2>3 DEF CountsExact, TypeOK
<1>6. TypeOK'
  BY <1>1, <1>2, <1>5 DEF TypeOK, ReleaseFree, Goto, Labels
<1>7. waiting' = <<>> /\ Len(waiting) = 0
  BY <1>2 DEF ReleaseFree
<1>8. \A q \in Requests : pc[q] # "waiting" /\ pc'[q] # "waiting"
  BY <1>1, <1>2, <1>7 DEF TypeOK, WaitingListed, Goto
<1>9. WaitingListed' /\ WorkConserving'
  BY <1>2, <1>7, <1>8 DEF WaitingListed, WorkConserving
<1> QED BY <1>5, <1>6, <1>9 DEF LimiterInv

\* A slot that is handed over: who holds one, and who waits, afterwards.
LEMMA HandOverSets ==
  ASSUME LimiterInv, NEW r \in Requests, ReleaseToWaiter(r)
  PROVE  /\ Head(waiting) \in Requests /\ pc[Head(waiting)] = "waiting"
         /\ pc' \in [Requests -> Labels]
         /\ pc'[r] = "idle" /\ pc'[Head(waiting)] = "granted"
         /\ \A q \in Requests \ {r, Head(waiting)} : pc'[q] = pc[q]
         /\ r \in Holders /\ Head(waiting) \notin Holders /\ r \notin Queued
         /\ Holders' = (Holders \ {r}) \cup {Head(waiting)}
         /\ Queued' = Queued
<1>1. TypeOK /\ WaitingListed /\ pc[r] = "holding" /\ waiting # <<>>
  BY DEF LimiterInv, ReleaseToWaiter
<1>2. Len(waiting) >= 1 /\ Head(waiting) = waiting[1]
  BY <1>1 DEF TypeOK
<1> DEFINE h == Head(waiting)
<1>3. h \in Requests /\ pc[h] = "waiting" /\ h # r
  BY <1>1, <1>2 DEF TypeOK, WaitingListed
<1>4. pc' = [pc EXCEPT ![r] = "idle", ![h] = "granted"]
  BY DEF ReleaseToWaiter
<1> HIDE DEF h
<1>5. /\ pc' \in [Requests -> Labels] /\ pc'[r] = "idle" /\ pc'[h] = "granted"
      /\ \A q \in Requests \ {r, h} : pc'[q] = pc[q]
  BY <1>1, <1>3, <1>4 DEF TypeOK, Labels
<1>6. r \in Holders /\ h \notin Holders /\ r \notin Queued /\ h \in Queued
  BY <1>1, <1>3 DEF Holders, Queued
<1>7. Holders' = (Holders \ {r}) \cup {h} /\ Queued' = Queued
  BY <1>1, <1>3, <1>5, <1>6 DEF Holders, Queued
<1> QED BY <1>3, <1>5, <1>6, <1>7 DEF h

LEMMA ReleaseToWaiterInv ==
  ASSUME LimiterInv, NEW r \in Requests, ReleaseToWaiter(r)
  PROVE  LimiterInv'
<1> USE LimiterAssumption
<1>1. TypeOK /\ WaitingListed /\ CountsExact /\ WorkConserving /\ pc[r] = "holding"
  BY Zenon DEF LimiterInv, ReleaseToWaiter
<1>2. /\ waiting # <<>> /\ waiting' = Tail(waiting)
      /\ inflight' = inflight /\ queue' = queue /\ wasQueued' = wasQueued
  BY DEF ReleaseToWaiter
<1>3. /\ waiting' \in Seq(Requests) /\ Len(waiting') = Len(waiting) - 1
      /\ Len(waiting) \in Nat \ {0} /\ Head(waiting) = waiting[1]
      /\ \A i \in 1..Len(waiting') : waiting'[i] = waiting[i + 1]
  BY <1>1, <1>2 DEF TypeOK
<1>4. CountsExact'
  <2>1. Cardinality(Holders') = Cardinality(Holders)
    <3>1. IsFiniteSet(Holders) /\ IsFiniteSet(Holders \ {r})
      BY SetsFinite, FS_RemoveElement, Zenon
    <3>2. Head(waiting) \notin Holders \ {r}
      BY HandOverSets
    <3>3. /\ Cardinality(Holders \ {r}) = Cardinality(Holders) - 1
          /\ Cardinality((Holders \ {r}) \cup {Head(waiting)}) = Cardinality(Holders \ {r}) + 1
      BY <3>1, <3>2, HandOverSets, SetSizes, Zenon
    <3> QED BY <3>3, SetsFinite, HandOverSets
  <2> QED BY <1>1, <1>2, <2>1, HandOverSets, Zenon DEF CountsExact
<1>5. WaitingListed'
  <2>1. \A i, j \in 1..Len(waiting') : waiting'[i] = waiting'[j] => i = j
    <3> SUFFICES ASSUME NEW i \in 1..Len(waiting'), NEW j \in 1..Len(waiting'),
                        waiting'[i] = waiting'[j]
                 PROVE  i = j
      OBVIOUS
    <3>1. waiting[i + 1] = waiting[j + 1] /\ i + 1 \in 1..Len(waiting) /\ j + 1 \in 1..Len(waiting)
      BY <1>3
    <3>2. i + 1 = j + 1
      BY <1>1, <3>1, Zenon DEF WaitingListed
    <3> QED BY <3>2
  <2>2. ASSUME NEW q \in Requests
        PROVE  pc'[q] = "waiting" <=> \E i \in 1..Len(waiting') : waiting'[i] = q
    <3>1. ASSUME NEW i \in 1..Len(waiting'), waiting'[i] = q
          PROVE  pc[q] = "waiting" /\ q # Head(waiting)
      <4>1. i + 1 \in 1..Len(waiting) /\ waiting[i + 1] = q /\ i + 1 # 1
        BY <1>3, <3>1
      <4> QED BY <1>1, <1>3, <4>1 DEF WaitingListed
    <3>2. ASSUME pc[q] = "waiting", q # Head(waiting)
          PROVE  \E i \in 1..Len(waiting') : waiting'[i] = q
      <4>1. PICK i \in 1..Len(waiting) : waiting[i] = q
        BY <1>1, <3>2 DEF WaitingListed
      <4>2. i - 1 \in 1..Len(waiting') /\ waiting'[i - 1] = q
        BY <1>3, <3>2, <4>1
      <4> QED BY <4>2
    <3>3. pc'[q] = "waiting" <=> pc[q] = "waiting" /\ q # Head(waiting)
      BY <1>1, HandOverSets, Zenon
    <3> QED BY <3>1, <3>2, <3>3, Zenon
  <2> QED BY <2>1, <2>2 DEF WaitingListed
<1>6. TypeOK' /\ WorkConserving'
  BY <1>1, <1>2, <1>3, HandOverSets, Zenon DEF TypeOK, WorkConserving
<1> QED BY <1>4, <1>5, <1>6, Zenon DEF LimiterInv

LEMMA RejectInv ==
  ASSUME LimiterInv, NEW r \in Requests, Reject(r)
  PROVE  LimiterInv'
<1>1. TypeOK /\ WaitingListed /\ CountsExact /\ WorkConserving /\ pc[r] = "rejected"
  BY Zenon DEF LimiterInv, Reject
<1>2. Holders' = Holders /\ Queued' = Queued
  <2>1. r \notin Holders /\ r \notin Queued
    BY <1>1, Zenon DEF Holders, Queued
  <2>2. Holders' = Holders \ {r} /\ Queued' = Queued \ {r}
    BY <1>1, GotoSets, Zenon DEF Reject, Labels
  <2> QED BY <2>1, <2>2
<1>3. TypeOK' /\ WaitingListed' /\ WorkConserving'
  BY <1>1 DEF TypeOK, WaitingListed, WorkConserving, Reject, Goto, Labels
<1> QED BY <1>1, <1>2, <1>3, Zenon DEF LimiterInv, CountsExact, Reject

LEMMA NextInv == LimiterInv /\ [Next]_vars => LimiterInv'
<1> SUFFICES ASSUME LimiterInv, [Next]_vars PROVE LimiterInv'
  OBVIOUS
<1>1. CASE UNCHANGED vars
  BY <1>1, Zenon DEF LimiterInv, TypeOK, WaitingListed, CountsExact, WorkConserving, Holders, Queued,
              vars
<1>2. ASSUME NEW r \in Requests,
             \/ Arrive(r) \/ Enqueue(r) \/ Select(r) \/ GiveUp(r) \/ Dequeue(r)
             \/ Release(r) \/ Reject(r)
      PROVE  LimiterInv'
  BY <1>2, ArriveInv, EnqueueInv, SelectInv, GiveUpInv, DequeueInv, ReleaseFreeInv,
     ReleaseToWaiterInv, RejectInv DEF Release
<1> QED BY <1>1, <1>2 DEF Next

\* Acquire and release keep both channels' counts exact and within their
\* capacities, whatever timeouts, cancellations and hand-overs race, and no slot
\* is idle while a request is blocked waiting for one.
THEOREM LimiterCorrect == Spec => [](TypeOK /\ CountsExact /\ WorkConserving)
<1>1. LimiterInv => TypeOK /\ CountsExact /\ WorkConserving
  BY Zenon DEF LimiterInv
<1> QED BY <1>1, InitInv, NextInv, PTL DEF Spec

\* CountsExact: the lengths of the two channels are the requests that hold a slot
\* and those that hold a place in the queue.
THEOREM ChannelsCount == Spec => []CountsExact
BY LimiterCorrect, PTL

-----------------------------------------------------------------------------
(* The limiter implements the semaphore: every step is one of its steps, or *)
(* changes neither who holds a slot nor who waits.                          *)

LEMMA InitSim == Init => Slots!Init
  BY DEF Init, Slots!Init, Holders

\* FiniteSets as the semaphore sees it is FiniteSets.
LEMMA SameCardinality == Slots!Cardinality(Holders) = Cardinality(Holders)
  BY DEF Slots!Cardinality, Cardinality, Slots!IsFiniteSet, IsFiniteSet

LEMMA StepSim == LimiterInv /\ LimiterInv' /\ [Next]_vars => [Slots!Next]_(Slots!vars)
<1> SUFFICES ASSUME LimiterInv, LimiterInv', [Next]_vars
             PROVE  Slots!Next \/ UNCHANGED <<Holders, waiting>>
  BY Zenon DEF Slots!vars
<1> USE LimiterAssumption
<1>1. TypeOK /\ WaitingListed /\ CountsExact /\ WorkConserving
  BY DEF LimiterInv
<1>2. CASE UNCHANGED vars
  BY <1>2 DEF vars, Holders
<1>3. ASSUME NEW r \in Requests, Arrive(r)
      PROVE  Slots!Next \/ UNCHANGED <<Holders, waiting>>
  <2>1. r \notin Holders /\ pc[r] = "idle" /\ waiting' = waiting
    BY <1>3, Zenon DEF Holders, Arrive
  <2>2. CASE inflight < MaxInflight
    <3>1. Holders' = Holders \cup {r}
      BY <1>1, <1>3, <2>2, GotoSets, Zenon DEF Arrive, Labels
    <3>2. waiting = <<>> /\ Cardinality(Holders) < MaxInflight
      BY <1>1, <2>2 DEF CountsExact, WorkConserving
    <3> QED BY <2>1, <3>1, <3>2, SameCardinality, Zenon DEF Slots!Next, Slots!Enter
  <2>3. CASE ~(inflight < MaxInflight)
    <3>1. Holders' = Holders \ {r}
      BY <1>1, <1>3, <2>3, GotoSets, Zenon DEF Arrive, Labels
    <3> QED BY <2>1, <3>1, Zenon
  <2> QED BY <2>2, <2>3
<1>4. ASSUME NEW r \in Requests, Enqueue(r)
      PROVE  UNCHANGED <<Holders, waiting>>
  <2>1. r \notin Holders /\ waiting' = waiting
    BY <1>4 DEF Holders, Enqueue
  <2>2. Holders' = Holders \ {r}
    BY <1>1, <1>4, GotoSets, Zenon DEF Enqueue, Labels
  <2> QED BY <2>1, <2>2, Zenon
<1>5. ASSUME NEW r \in Requests, Select(r)
      PROVE  Slots!Next
  <2>1. r \notin Holders /\ pc[r] = "queued"
    BY <1>5 DEF Holders, Select
  <2>2. CASE inflight < MaxInflight
    <3>1. Holders' = Holders \cup {r} /\ waiting' = waiting
      BY <1>1, <1>5, <2>2, GotoSets, Zenon DEF Select, Labels
    <3>2. waiting = <<>> /\ Cardinality(Holders) < MaxInflight
      BY <1>1, <2>2 DEF CountsExact, WorkConserving
    <3> QED BY <2>1, <3>1, <3>2, SameCardinality DEF Slots!Next, Slots!Enter
  <2>3. CASE ~(inflight < MaxInflight)
    <3>1. Holders' = Holders \ {r} /\ waiting' = Append(waiting, r)
      BY <1>1, <1>5, <2>3, GotoSets, Zenon DEF Select, Labels
    <3>2. Cardinality(Holders) = MaxInflight
      BY <1>1, <2>3 DEF CountsExact, TypeOK
    <3>3. \A i \in 1..Len(waiting) : waiting[i] # r
      BY <1>1, <2>1, Zenon DEF WaitingListed
    <3> QED BY <2>1, <3>1, <3>2, <3>3, SameCardinality, Zenon DEF Slots!Next, Slots!Wait
  <2> QED BY <2>2, <2>3
<1>6. ASSUME NEW r \in Requests, GiveUp(r)
      PROVE  Slots!Next \/ UNCHANGED <<Holders, waiting>>
  <2>1. r \notin Holders
    BY <1>6, Zenon DEF Holders, GiveUp
  <2>2. Holders' = Holders \ {r}
    BY <1>1, <1>6, GotoSets, Zenon DEF GiveUp, Labels
  <2>3. Holders' = Holders
    BY <2>1, <2>2, Zenon
  <2>4. CASE pc[r] = "queued"
    BY <1>6, <2>3, <2>4, Zenon DEF GiveUp
  <2>5. CASE pc[r] = "waiting"
    BY <1>6, <2>3, <2>5, Zenon DEF GiveUp, Slots!Next, Slots!GiveUp
  <2> QED BY <1>6, <2>4, <2>5, Zenon DEF GiveUp
<1>7. ASSUME NEW r \in Requests, Dequeue(r)
      PROVE  UNCHANGED <<Holders, waiting>>
  <2>1. waiting' = waiting /\ pc[r] \in {"granted", "gaveUp"}
    BY <1>7 DEF Dequeue
  <2>2. CASE pc[r] = "granted"
    <3>1. Holders' = Holders \cup {r} /\ r \in Holders
      BY <1>1, <1>7, <2>2, GotoSets, Zenon DEF Dequeue, Labels, Holders
    <3> QED BY <2>1, <3>1
  <2>3. CASE pc[r] = "gaveUp"
    <3>1. Holders' = Holders \ {r} /\ r \notin Holders
      BY <1>1, <1>7, <2>3, GotoSets, Zenon DEF Dequeue, Labels, Holders
    <3> QED BY <2>1, <3>1, Zenon
  <2> QED BY <2>1, <2>2, <2>3
<1>8. ASSUME NEW r \in Requests, ReleaseFree(r)
      PROVE  Slots!Next
  <2>1. Holders' = Holders \ {r} /\ r \in Holders /\ waiting = <<>> /\ waiting' = waiting
    BY <1>1, <1>8, GotoSets, Zenon DEF ReleaseFree, Labels, Holders
  <2> QED BY <2>1, Zenon DEF Slots!Next, Slots!Leave
<1>9. ASSUME NEW r \in Requests, ReleaseToWaiter(r)
      PROVE  Slots!Next
  <2>1. /\ r \in Holders /\ waiting # <<>> /\ waiting' = Tail(waiting)
        /\ Holders' = (Holders \ {r}) \cup {Head(waiting)}
    BY <1>9, HandOverSets, Zenon DEF ReleaseToWaiter
  <2> QED BY <2>1, Zenon DEF Slots!Next, Slots!HandOver
<1>10. ASSUME NEW r \in Requests, Reject(r)
       PROVE  UNCHANGED <<Holders, waiting>>
  <2>1. Holders' = Holders \ {r} /\ r \notin Holders /\ waiting' = waiting
    BY <1>1, <1>10, GotoSets, Zenon DEF Reject, Labels, Holders
  <2> QED BY <2>1
<1> QED BY <1>2, <1>3, <1>4, <1>5, <1>6, <1>7, <1>8, <1>9, <1>10 DEF Next, Release

\* Acquire and release implement a counting semaphore of MaxInflight slots that
\* serves its waiters first come, first served, and never lets a newcomer pass a
\* request that is blocked in the send.
THEOREM ImplementsSemaphore == Spec => SlotsSpec
<1>1. Spec => []LimiterInv
  BY InitInv, NextInv, PTL DEF Spec
<1> QED BY <1>1, InitSim, StepSim, PTL DEF Spec, SlotsSpec, Slots!Spec

-----------------------------------------------------------------------------
(* PluginFilter: the slots of its breaker and the connections of its pool.  *)
CONSTANTS
  Configs, Clients, None
VARIABLES
  breaker, listed, open, closing, stopped, sick, client

F == INSTANCE PluginFilter

\* The operators of FiniteSets, as the instance names them.
LEMMA FFinite == \A X : F!IsFiniteSet(X) <=> IsFiniteSet(X)
BY DEF F!IsFiniteSet, IsFiniteSet

LEMMA FCardinality == \A X : F!Cardinality(X) = Cardinality(X)
BY Zenon DEF F!Cardinality, Cardinality

BreakerRecords ==
  [config : Configs, state : {"closed", "open", "half"}, fails : Nat,
   inFlight : Nat, success : Int, cooling : BOOLEAN]

\* A disabled breaker is closed.
BreakerOK(b) == b \in BreakerRecords /\ (~b.config.enabled => b.state = "closed")

\* The slots a half-open breaker has given.
ProbeSlots(b) == IF b.state = "half" THEN b.inFlight ELSE 0

LEMMA UpdateSlots ==
  ASSUME NEW b, BreakerOK(b), NEW cfg \in Configs
  PROVE  BreakerOK(F!UpdateConfig(b, cfg)) /\ ProbeSlots(F!UpdateConfig(b, cfg)) <= ProbeSlots(b)
BY DEF BreakerOK, BreakerRecords, F!UpdateConfig, F!NewBreaker, ProbeSlots

LEMMA HalfOpenSlots ==
  ASSUME NEW b, BreakerOK(b), b.config.enabled
  PROVE  BreakerOK(F!HalfOpen(b)) /\ ProbeSlots(F!HalfOpen(b)) = ProbeSlots(b)
<1> DEFINE h == [b EXCEPT !.state = "half", !.inFlight = 0, !.success = 0]
<1>1. h \in BreakerRecords
  <2> DEFINE g == [b EXCEPT !.state = "half", !.inFlight = 0]
  <2>1. g \in BreakerRecords /\ h = [g EXCEPT !.success = 0]
    BY Zenon DEF BreakerOK, BreakerRecords
  <2> HIDE DEF g, h
  <2> QED BY <2>1 DEF BreakerRecords
<1>2. h.config = b.config /\ h.state = "half" /\ h.inFlight = 0
  BY DEF BreakerOK, BreakerRecords
<1>3. F!HalfOpen(b) = b \/ (F!HalfOpen(b) = h /\ b.state = "open")
  BY DEF F!HalfOpen
<1> HIDE DEF h
<1> QED BY <1>1, <1>2, <1>3, Zenon DEF BreakerOK, ProbeSlots

\* Allow gives at most one slot, and none to the request it refuses.
LEMMA AllowSlots ==
  ASSUME NEW b, BreakerOK(b)
  PROVE  /\ BreakerOK(F!AfterAllow(b))
         /\ ProbeSlots(F!AfterAllow(b)) <= ProbeSlots(b) + 1
         /\ F!Refuses(F!HalfOpen(b)) => ProbeSlots(F!AfterAllow(b)) <= ProbeSlots(b)
<1>1. CASE ~b.config.enabled
  <2>1. F!AfterAllow(b) = b
    BY <1>1, Zenon DEF F!AfterAllow
  <2> QED BY <2>1 DEF BreakerOK, BreakerRecords, ProbeSlots
<1>2. CASE b.config.enabled
  <2> DEFINE h == F!HalfOpen(b)
  <2>1. BreakerOK(h) /\ ProbeSlots(h) = ProbeSlots(b)
    BY <1>2, HalfOpenSlots, Zenon
  <2>2. F!AfterAllow(b) = IF h.state = "half" /\ ~F!Refuses(h) THEN [h EXCEPT !.inFlight = @ + 1] ELSE h
    BY <1>2, Zenon DEF F!AfterAllow
  <2> HIDE DEF h
  <2>3. CASE F!AfterAllow(b) = h /\ (h.state # "half" \/ F!Refuses(h))
    <3>1. ProbeSlots(b) \in Nat
      BY Zenon DEF ProbeSlots, BreakerOK, BreakerRecords
    <3> QED BY <2>1, <2>3, <3>1
  <2>4. CASE F!AfterAllow(b) = [h EXCEPT !.inFlight = @ + 1] /\ h.state = "half" /\ ~F!Refuses(h)
    <3>1. /\ BreakerOK(F!AfterAllow(b)) /\ ProbeSlots(F!AfterAllow(b)) = ProbeSlots(h) + 1
      BY <2>1, <2>4 DEF BreakerOK, BreakerRecords, ProbeSlots
    <3>2. ProbeSlots(h) + 1 <= ProbeSlots(b) + 1
      BY <2>1 DEF BreakerOK, BreakerRecords, ProbeSlots
    <3> QED BY <2>4, <3>1, <3>2 DEF h
  <2> QED BY <2>2, <2>3, <2>4, Zenon
<1> QED BY <1>1, <1>2, Zenon

LEMMA OpenedSlots ==
  ASSUME NEW b, BreakerOK(b), b.config.enabled
  PROVE  BreakerOK(F!Opened(b)) /\ ProbeSlots(F!Opened(b)) = 0
<1>1. F!Opened(b) \in BreakerRecords
  <2> DEFINE g == [b EXCEPT !.state = "open", !.cooling = TRUE]
  <2>1. g \in BreakerRecords /\ F!Opened(b) = [g EXCEPT !.success = 0]
    BY Zenon DEF BreakerOK, BreakerRecords, F!Opened
  <2> HIDE DEF g
  <2> QED BY <2>1 DEF BreakerRecords
<1>2. F!Opened(b).config = b.config /\ F!Opened(b).state = "open"
  BY DEF BreakerOK, BreakerRecords, F!Opened
<1> QED BY <1>1, <1>2, Zenon DEF BreakerOK, ProbeSlots

LEMMA ClosedSlots ==
  ASSUME NEW b, BreakerOK(b), b.config.enabled, b.state = "closed", NEW ok \in BOOLEAN
  PROVE  BreakerOK(F!ReportClosed(b, ok)) /\ ProbeSlots(F!ReportClosed(b, ok)) = 0
<1> DEFINE counted == [b EXCEPT !.fails = IF ok THEN 0 ELSE @ + 1]
           cleared == [counted EXCEPT !.inFlight = 0]
<1>1. BreakerOK(counted) /\ ProbeSlots(counted) = 0 /\ counted.config = b.config
  BY DEF BreakerOK, BreakerRecords, ProbeSlots
<1>2. BreakerOK(cleared) /\ cleared.config = b.config
  BY <1>1, Zenon DEF BreakerOK, BreakerRecords
<1>3. F!ReportClosed(b, ok) \in {counted, F!Opened(cleared)}
  BY Zenon DEF F!ReportClosed
<1> HIDE DEF counted, cleared
<1> QED BY <1>1, <1>2, <1>3, OpenedSlots

LEMMA HalfSlots ==
  ASSUME NEW b, BreakerOK(b), b.config.enabled, b.state = "half", NEW ok \in BOOLEAN
  PROVE  /\ BreakerOK(F!ReportHalf(b, ok))
         /\ ProbeSlots(F!ReportHalf(b, ok)) <= IF ProbeSlots(b) > 0 THEN ProbeSlots(b) - 1 ELSE 0
<1> DEFINE freed == F!FreeSlot(b)
           counted == [freed EXCEPT !.success = IF @ < F!MaxProbes THEN @ + 1 ELSE @]
           failed == [freed EXCEPT !.fails = 0]
           shut == [counted EXCEPT !.state = "closed", !.fails = 0, !.success = 0, !.cooling = FALSE]
           others == IF ProbeSlots(b) > 0 THEN ProbeSlots(b) - 1 ELSE 0
<1>1. BreakerOK(freed) /\ ProbeSlots(freed) = others /\ freed.config = b.config /\ freed.state = "half"
  BY DEF F!FreeSlot, BreakerOK, BreakerRecords, ProbeSlots
<1>2. others \in Nat
  BY DEF BreakerOK, BreakerRecords, ProbeSlots
<1>3. F!ReportHalf(b, ok) \in {F!Opened(failed), shut, counted}
  BY DEF F!ReportHalf
<1> HIDE DEF freed, others
<1>4. BreakerOK(counted) /\ ProbeSlots(counted) = others
  BY <1>1 DEF BreakerOK, BreakerRecords, ProbeSlots
<1>5. BreakerOK(failed) /\ failed.config = b.config
  BY <1>1, Zenon DEF BreakerOK, BreakerRecords
<1> HIDE DEF counted, failed
<1>6. BreakerOK(shut) /\ ProbeSlots(shut) = 0
  <2>1. shut \in BreakerRecords
    <3> DEFINE g == [counted EXCEPT !.state = "closed", !.fails = 0]
               k == [g EXCEPT !.success = 0]
    <3>1. g \in BreakerRecords
      BY <1>4, Zenon DEF BreakerOK, BreakerRecords
    <3>2. shut = [k EXCEPT !.cooling = FALSE]
      BY Zenon
    <3> HIDE DEF g, shut
    <3>3. k \in BreakerRecords
      BY <3>1 DEF BreakerRecords
    <3> HIDE DEF k
    <3> QED BY <3>2, <3>3, Zenon DEF BreakerRecords
  <2>2. shut.state = "closed"
    BY <1>4, Zenon DEF BreakerOK, BreakerRecords
  <2> QED BY <2>1, <2>2, Zenon DEF BreakerOK, ProbeSlots
<1> HIDE DEF shut
<1>7. BreakerOK(F!Opened(failed)) /\ ProbeSlots(F!Opened(failed)) = 0
  BY <1>5, OpenedSlots, Zenon
<1>8. BreakerOK(F!ReportHalf(b, ok)) /\ ProbeSlots(F!ReportHalf(b, ok)) <= others
  BY <1>2, <1>3, <1>4, <1>6, <1>7
<1> QED BY <1>8, Zenon DEF others

\* A report gives a slot back, if any was given.
LEMMA ReportSlots ==
  ASSUME NEW b, BreakerOK(b), NEW ok \in BOOLEAN
  PROVE  /\ BreakerOK(F!AfterReport(b, ok))
         /\ ProbeSlots(F!AfterReport(b, ok)) <= IF ProbeSlots(b) > 0 THEN ProbeSlots(b) - 1 ELSE 0
<1>1. CASE ~b.config.enabled \/ b.state = "open"
  <2>1. F!AfterReport(b, ok) = b /\ ProbeSlots(b) = 0
    BY <1>1, Zenon DEF F!AfterReport, BreakerOK, ProbeSlots
  <2> QED BY <2>1
<1>2. CASE b.config.enabled /\ b.state = "closed"
  <2>1. F!AfterReport(b, ok) = F!ReportClosed(b, ok) /\ ProbeSlots(b) = 0
    BY <1>2, Zenon DEF F!AfterReport, ProbeSlots
  <2> QED BY <1>2, <2>1, ClosedSlots
<1>3. CASE b.config.enabled /\ b.state = "half"
  <2>1. F!AfterReport(b, ok) = F!ReportHalf(b, ok)
    BY <1>3, Zenon DEF F!AfterReport
  <2> QED BY <1>3, <2>1, HalfSlots, Zenon
<1> QED BY <1>1, <1>2, <1>3, Zenon DEF BreakerOK, BreakerRecords

-----------------------------------------------------------------------------
SlotInv ==
  /\ BreakerOK(breaker) /\ DOMAIN pc = Requests
  /\ ProbeSlots(breaker) <= Cardinality(F!Calling)

LEMMA CallingCard ==
  ASSUME F!PluginFilterConstants
  PROVE  IsFiniteSet(F!Calling) /\ Cardinality(F!Calling) \in Nat
BY FS_Subset, FS_CardinalityType, FFinite, Zenon DEF F!PluginFilterConstants, F!Calling

LEMMA SlotsType == ASSUME NEW b, BreakerOK(b) PROVE ProbeSlots(b) \in Nat
BY Zenon DEF ProbeSlots, BreakerOK, BreakerRecords

LEMMA SlotInit == ASSUME F!PluginFilterConstants, F!Init PROVE SlotInv
<1>1. (CHOOSE cfg \in Configs : TRUE) \in Configs
  BY Zenon DEF F!PluginFilterConstants
<1>2. BreakerOK(breaker) /\ ProbeSlots(breaker) = 0
  BY <1>1 DEF F!Init, F!NewBreaker, BreakerOK, BreakerRecords, ProbeSlots
<1>3. DOMAIN pc = Requests
  BY Zenon DEF F!Init
<1> QED BY <1>2, <1>3, CallingCard DEF SlotInv

LEMMA SlotGetBreaker ==
  ASSUME F!PluginFilterConstants, SlotInv, NEW r \in Requests, NEW cfg \in Configs, F!GetBreaker(r, cfg)
  PROVE  SlotInv'
<1>1. F!Calling' = F!Calling /\ DOMAIN pc' = Requests
  BY Zenon DEF F!GetBreaker, F!Free, F!Calling, SlotInv
<1>2. BreakerOK(breaker') /\ ProbeSlots(breaker') <= ProbeSlots(breaker)
  BY UpdateSlots, Zenon DEF F!GetBreaker, SlotInv
<1>3. ProbeSlots(breaker) \in Nat /\ ProbeSlots(breaker') \in Nat
  BY <1>2, SlotsType, Zenon DEF SlotInv
<1> QED BY <1>1, <1>2, <1>3, CallingCard DEF SlotInv

LEMMA SlotAllow ==
  ASSUME F!PluginFilterConstants, SlotInv, NEW r \in Requests, F!Allow(r)
  PROVE  SlotInv'
<1>1. breaker' = F!AfterAllow(breaker)
  BY Zenon DEF F!Allow
<1>2. BreakerOK(breaker') /\ ProbeSlots(breaker') <= ProbeSlots(breaker) + 1
  BY <1>1, AllowSlots, Zenon DEF SlotInv
<1>3. ProbeSlots(breaker) \in Nat /\ ProbeSlots(breaker') \in Nat
  BY <1>2, SlotsType, Zenon DEF SlotInv
<1>4. CASE F!Refuses(F!HalfOpen(breaker))
  <2>1. ProbeSlots(breaker') <= ProbeSlots(breaker)
    BY <1>1, <1>4, AllowSlots, Zenon DEF SlotInv
  <2>2. F!Calling' = F!Calling /\ DOMAIN pc' = Requests
    BY <1>4, Zenon DEF F!Allow, F!Goto, F!Calling, SlotInv
  <2> QED BY <1>2, <1>3, <2>1, <2>2, CallingCard DEF SlotInv
<1>5. CASE ~F!Refuses(F!HalfOpen(breaker))
  <2>1. r \notin F!Calling /\ F!Calling' = F!Calling \cup {r} /\ DOMAIN pc' = Requests
    BY <1>5, Zenon DEF F!Allow, F!Goto, F!Calling, SlotInv
  <2>2. Cardinality(F!Calling') = Cardinality(F!Calling) + 1
    BY <2>1, CallingCard, FS_AddElement, Zenon
  <2> QED BY <1>2, <1>3, <2>1, <2>2, CallingCard DEF SlotInv
<1> QED BY <1>4, <1>5, Zenon

LEMMA SlotReport ==
  ASSUME F!PluginFilterConstants, SlotInv, NEW r \in Requests, NEW ok \in BOOLEAN, F!Report(r, ok)
  PROVE  SlotInv'
<1>1. r \in F!Calling /\ F!Calling' = F!Calling \ {r} /\ DOMAIN pc' = Requests
  BY Zenon DEF F!Report, F!Goto, F!Calling, SlotInv
<1>2. Cardinality(F!Calling') = Cardinality(F!Calling) - 1 /\ Cardinality(F!Calling') \in Nat
  BY <1>1, CallingCard, FS_RemoveElement, FS_CardinalityType, Zenon
<1>3. breaker' = F!AfterReport(breaker, ok)
  BY Zenon DEF F!Report
<1>4. /\ BreakerOK(breaker')
      /\ ProbeSlots(breaker') <= IF ProbeSlots(breaker) > 0 THEN ProbeSlots(breaker) - 1 ELSE 0
  BY <1>3, ReportSlots, Zenon DEF SlotInv
<1>5. ProbeSlots(breaker) \in Nat /\ ProbeSlots(breaker') \in Nat
  BY <1>4, SlotsType, Zenon DEF SlotInv
<1>6. ProbeSlots(breaker') <= Cardinality(F!Calling')
  BY <1>2, <1>4, <1>5, CallingCard DEF SlotInv
<1> QED BY <1>1, <1>4, <1>6, Zenon DEF SlotInv

LEMMA SlotConnect ==
  ASSUME SlotInv, NEW r \in Requests, F!GetClient(r) \/ F!Dial(r) \/ F!ListClient(r)
  PROVE  SlotInv'
<1>1. F!Calling' = F!Calling /\ DOMAIN pc' = Requests
  BY Zenon DEF F!GetClient, F!Dial, F!ListClient, F!Goto, F!Calling, SlotInv
<1>2. breaker' = breaker
  BY Zenon DEF F!GetClient, F!Dial, F!ListClient
<1> QED BY <1>1, <1>2, Zenon DEF SlotInv

LEMMA SlotOther ==
  ASSUME SlotInv, F!CloseTake \/ F!CloseClient \/ F!Heal \/ F!CoolDown \/ UNCHANGED F!vars
  PROVE  SlotInv'
<1>1. pc' = pc
  BY Zenon DEF F!CloseTake, F!CloseClient, F!Heal, F!CoolDown, F!vars, F!locals
<1>2. breaker' = breaker \/ breaker' = [breaker EXCEPT !.cooling = FALSE]
  BY Zenon DEF F!CloseTake, F!CloseClient, F!Heal, F!CoolDown, F!vars
<1>3. BreakerOK(breaker') /\ ProbeSlots(breaker') = ProbeSlots(breaker)
  BY <1>2, Zenon DEF SlotInv, BreakerOK, BreakerRecords, ProbeSlots
<1> QED BY <1>1, <1>3, Zenon DEF SlotInv, F!Calling

LEMMA SlotNext == ASSUME F!PluginFilterConstants, SlotInv, [F!Next]_F!vars PROVE SlotInv'
BY SlotGetBreaker, SlotAllow, SlotReport, SlotConnect, SlotOther, Zenon DEF F!Next, F!Step

\* SlotsComeBack, for any set of requests and connections: through every Report,
\* change of settings and half-opening, a half-open plugin breaker counts no more
\* probe slots than there are calls that will still report.
THEOREM SlotsReturn == ASSUME F!PluginFilterConstants PROVE F!Spec => []F!SlotsComeBack
<1>1. F!Init => SlotInv
  BY SlotInit, Zenon
<1>2. SlotInv /\ [F!Next]_F!vars => SlotInv'
  BY SlotNext
<1>3. SlotInv => F!SlotsComeBack
  BY FCardinality, Zenon DEF SlotInv, ProbeSlots, F!SlotsComeBack
<1> QED BY <1>1, <1>2, <1>3, PTL DEF F!Spec

-----------------------------------------------------------------------------
\* Until the registry is closed, whoever calls the filter does so on the listed
\* connection, which is open; a dialled one is open and its dialler's alone.
ConnectionInv ==
  /\ DOMAIN pc = Requests /\ DOMAIN client = Requests
  /\ listed \in Clients \cup {None} /\ open \subseteq Clients
  /\ ~stopped => closing = {}
  /\ \A r \in Requests : pc[r] = "list" => client[r] \in Clients
  /\ F!OpenIsAccountedFor
  /\ ~stopped =>
       /\ listed # None => listed \in open
       /\ \A r \in Requests : pc[r] = "call" => client[r] = listed /\ listed # None
       /\ \A r \in Requests : pc[r] = "list" => client[r] \in open /\ client[r] # listed
       /\ \A r, q \in Requests : pc[r] = "list" /\ pc[q] = "list" /\ r # q => client[r] # client[q]

LEMMA ConnectionInit == ASSUME F!PluginFilterConstants, F!Init PROVE ConnectionInv
BY Zenon DEF F!Init, ConnectionInv, F!OpenIsAccountedFor

\* The steps that do not touch the connections, and leave every request that
\* holds one where it is.
LEMMA ConnectionBreaker ==
  ASSUME ConnectionInv, NEW r \in Requests, (\E cfg \in Configs : F!GetBreaker(r, cfg)) \/ F!Allow(r)
  PROVE  ConnectionInv'
<1>1. UNCHANGED <<listed, open, closing, stopped, client>>
  BY Zenon DEF F!GetBreaker, F!Allow
<1>2. /\ DOMAIN pc' = Requests
      /\ \A q \in Requests : pc'[q] = "list" <=> pc[q] = "list"
      /\ \A q \in Requests : pc'[q] = "call" => pc[q] = "call"
  BY Zenon DEF F!GetBreaker, F!Allow, F!Goto, F!Free, ConnectionInv
<1> QED BY <1>1, <1>2, Zenon DEF ConnectionInv, F!OpenIsAccountedFor

LEMMA ConnectionGet ==
  ASSUME ConnectionInv, NEW r \in Requests, F!GetClient(r) PROVE ConnectionInv'
<1>1. UNCHANGED <<listed, open, closing, stopped>>
  BY Zenon DEF F!GetClient
<1>2. /\ DOMAIN pc' = Requests /\ DOMAIN client' = Requests /\ client'[r] = listed
      /\ pc[r] = "lookup" /\ pc'[r] = IF listed # None THEN "call" ELSE "dial"
      /\ \A q \in Requests \ {r} : pc'[q] = pc[q] /\ client'[q] = client[q]
  BY Zenon DEF F!GetClient, F!Goto, F!Hold, ConnectionInv
<1>3. F!OpenIsAccountedFor'
  BY <1>1, <1>2 DEF ConnectionInv, F!OpenIsAccountedFor
<1> QED BY <1>1, <1>2, <1>3, Zenon DEF ConnectionInv

LEMMA ConnectionDial ==
  ASSUME F!PluginFilterConstants, ConnectionInv, NEW r \in Requests, F!Dial(r) PROVE ConnectionInv'
<1>1. UNCHANGED <<listed, closing, stopped>>
  BY Zenon DEF F!Dial
<1>2. PICK c \in F!Fresh : F!Hold(r, c) /\ open' = open \cup {c}
  BY Zenon DEF F!Dial
<1>3. /\ DOMAIN pc' = Requests /\ DOMAIN client' = Requests /\ client'[r] = c
      /\ pc[r] = "dial" /\ pc'[r] = "list"
      /\ \A q \in Requests \ {r} : pc'[q] = pc[q] /\ client'[q] = client[q]
  BY <1>2, Zenon DEF F!Dial, F!Goto, F!Hold, ConnectionInv
<1>4. /\ c \in Clients /\ c \notin open /\ c # listed
      /\ \A q \in Requests : client[q] # c
  BY Zenon DEF F!Fresh
<1>5. F!OpenIsAccountedFor'
  BY <1>1, <1>2, <1>3 DEF ConnectionInv, F!OpenIsAccountedFor
<1> QED BY <1>1, <1>2, <1>3, <1>4, <1>5 DEF ConnectionInv

LEMMA ConnectionList ==
  ASSUME F!PluginFilterConstants, ConnectionInv, NEW r \in Requests, F!ListClient(r) PROVE ConnectionInv'
<1>1. UNCHANGED <<closing, stopped>> /\ None \notin Clients
  BY Zenon DEF F!ListClient, F!PluginFilterConstants
<1>2. /\ DOMAIN pc' = Requests /\ pc[r] = "list" /\ pc'[r] = "call"
      /\ \A q \in Requests \ {r} : pc'[q] = pc[q]
  BY Zenon DEF F!ListClient, F!Goto, ConnectionInv
<1>3. client[r] \in Clients
  BY <1>2, Zenon DEF ConnectionInv
<1>4. CASE listed # None
  <2>1. /\ open' = open \ {client[r]} /\ listed' = listed
        /\ DOMAIN client' = Requests /\ client'[r] = listed
        /\ \A q \in Requests \ {r} : client'[q] = client[q]
    BY <1>4, Zenon DEF F!ListClient, F!Hold, ConnectionInv
  <2>2. F!OpenIsAccountedFor'
    BY <1>1, <1>2, <2>1 DEF ConnectionInv, F!OpenIsAccountedFor
  <2> QED BY <1>1, <1>2, <1>4, <2>1, <2>2 DEF ConnectionInv
<1>5. CASE listed = None
  <2>1. open' = open /\ listed' = client[r] /\ client' = client
    BY <1>5, Zenon DEF F!ListClient
  <2>2. F!OpenIsAccountedFor'
    BY <1>1, <1>2, <1>5, <2>1 DEF ConnectionInv, F!OpenIsAccountedFor
  <2> QED BY <1>1, <1>2, <1>3, <1>5, <2>1, <2>2, Zenon DEF ConnectionInv
<1> QED BY <1>4, <1>5, Zenon

LEMMA ConnectionReport ==
  ASSUME ConnectionInv, NEW r \in Requests, NEW ok \in BOOLEAN, F!Report(r, ok) PROVE ConnectionInv'
<1>1. UNCHANGED <<listed, open, closing, stopped>>
  BY Zenon DEF F!Report
<1>2. /\ DOMAIN pc' = Requests /\ DOMAIN client' = Requests
      /\ pc[r] \in {"dial", "call"} /\ pc'[r] = "idle"
      /\ \A q \in Requests \ {r} : pc'[q] = pc[q] /\ client'[q] = client[q]
  BY Zenon DEF F!Report, F!Goto, F!Hold, ConnectionInv
<1>3. F!OpenIsAccountedFor'
  BY <1>1, <1>2 DEF ConnectionInv, F!OpenIsAccountedFor
<1> QED BY <1>1, <1>2, <1>3, Zenon DEF ConnectionInv

LEMMA ConnectionClose ==
  ASSUME F!PluginFilterConstants, ConnectionInv, F!CloseTake \/ F!CloseClient PROVE ConnectionInv'
<1>1. CASE F!CloseTake
  BY <1>1, Zenon DEF F!CloseTake, F!locals, ConnectionInv, F!OpenIsAccountedFor, F!PluginFilterConstants
<1>2. CASE F!CloseClient
  BY <1>2, Zenon DEF F!CloseClient, F!locals, ConnectionInv, F!OpenIsAccountedFor
<1> QED BY <1>1, <1>2, Zenon

LEMMA ConnectionOther ==
  ASSUME ConnectionInv, F!Heal \/ F!CoolDown \/ UNCHANGED F!vars PROVE ConnectionInv'
<1>1. UNCHANGED <<listed, open, closing, stopped, pc, client>>
  BY Zenon DEF F!Heal, F!CoolDown, F!vars, F!locals
<1> QED BY <1>1, Zenon DEF ConnectionInv, F!OpenIsAccountedFor

LEMMA ConnectionNext == ASSUME F!PluginFilterConstants, ConnectionInv, [F!Next]_F!vars PROVE ConnectionInv'
BY ConnectionBreaker, ConnectionGet, ConnectionDial, ConnectionList, ConnectionReport,
   ConnectionClose, ConnectionOther, Zenon DEF F!Next, F!Step

\* OpenIsAccountedFor, for any set of requests and connections: whatever dials of
\* GetClient race with each other and with Close, every open connection has somebody
\* who keeps it or closes it.
THEOREM NoConnectionLeaks == ASSUME F!PluginFilterConstants PROVE F!Spec => []F!OpenIsAccountedFor
<1>1. F!Init => ConnectionInv
  BY ConnectionInit, Zenon
<1>2. ConnectionInv /\ [F!Next]_F!vars => ConnectionInv'
  BY ConnectionNext
<1>3. ConnectionInv => F!OpenIsAccountedFor
  BY Zenon DEF ConnectionInv
<1> QED BY <1>1, <1>2, <1>3, PTL DEF F!Spec

\* CalledIsOpen, for any set of requests and connections: before Registry.Close no
\* GetClient closes a connection that another request was given.
THEOREM CallsAreOpen == ASSUME F!PluginFilterConstants PROVE F!Spec => []F!CalledIsOpen
<1>1. F!Init => ConnectionInv
  BY ConnectionInit, Zenon
<1>2. ConnectionInv /\ [F!Next]_F!vars => ConnectionInv'
  BY ConnectionNext
<1>3. ConnectionInv => F!CalledIsOpen
  BY Zenon DEF ConnectionInv, F!CalledIsOpen
<1> QED BY <1>1, <1>2, <1>3, PTL DEF F!Spec
=============================================================================
