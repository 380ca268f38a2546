---- MODULE RetryBudgetProofs ----
(***************************************************************************)
(* Who owns which retry budget, and what each step of a request does to    *)
(* the budgets: the part of the proof of RetryBudget that needs no         *)
(* counting.  RetryLedgerProofs adds up what the steps here move.          *)
(***************************************************************************)
EXTENDS RetryBudget, TLAPS

\* What a budget is worth, in hundredths of a retry.
Worth(b) == 100 * b.tokens + b.accumulator

BudgetRecords ==
  [percent : 0..100, tokens : Nat, accumulator : Nat, owner : Owners]

\* The hundredths that the budgets of an owner hold, each an element: their
\* number is what the owner may still spend.
Purse(bs, o) == UNION {{i} \X (1..Worth(bs[i])) : i \in {j \in 1..Len(bs) : bs[j].owner = o}}

LEMMA WorthType == ASSUME NEW b \in BudgetRecords PROVE Worth(b) \in Nat
BY DEF BudgetRecords, Worth

LEMMA PurseMember ==
  ASSUME NEW bs, NEW o, NEW x
  PROVE  x \in Purse(bs, o) <=>
           \E i \in 1..Len(bs) : bs[i].owner = o /\ \E k \in 1..Worth(bs[i]) : x = <<i, k>>
BY DEF Purse

\* The other owners' purses do not change.
LEMMA PurseSame ==
  ASSUME NEW bs, NEW cs, Len(cs) = Len(bs), NEW o,
         \A i \in 1..Len(bs) : cs[i].owner = bs[i].owner,
         \A i \in 1..Len(bs) : bs[i].owner = o => Worth(cs[i]) = Worth(bs[i])
  PROVE  Purse(cs, o) = Purse(bs, o)
<1>1. ASSUME NEW x PROVE x \in Purse(cs, o) <=> x \in Purse(bs, o)
  BY PurseMember
<1> QED BY <1>1, Zenon

\* A new budget is worth nothing.
LEMMA PurseAppend ==
  ASSUME NEW bs \in Seq(BudgetRecords), NEW b \in BudgetRecords, Worth(b) = 0, NEW o
  PROVE  Purse(Append(bs, b), o) = Purse(bs, o)
<1> DEFINE cs == Append(bs, b)
<1>1. /\ Len(cs) = Len(bs) + 1 /\ Len(bs) \in Nat /\ cs[Len(bs) + 1] = b
      /\ \A i \in 1..Len(bs) : cs[i] = bs[i]
  OBVIOUS
<1> HIDE DEF cs
<1>2. ASSUME NEW x \in Purse(cs, o) PROVE x \in Purse(bs, o)
  <2>1. PICK i \in 1..Len(cs) : cs[i].owner = o /\ \E k \in 1..Worth(cs[i]) : x = <<i, k>>
    BY <1>2, PurseMember
  <2>2. i # Len(bs) + 1
    BY <1>1, <2>1
  <2>3. i \in 1..Len(bs)
    BY <1>1, <2>2
  <2> QED BY <1>1, <2>1, <2>3, PurseMember
<1>3. ASSUME NEW x \in Purse(bs, o) PROVE x \in Purse(cs, o)
  <2>1. PICK i \in 1..Len(bs) : bs[i].owner = o /\ \E k \in 1..Worth(bs[i]) : x = <<i, k>>
    BY <1>3, PurseMember
  <2>2. i \in 1..Len(cs)
    BY <1>1
  <2> QED BY <1>1, <2>1, <2>2, PurseMember
<1> QED BY <1>2, <1>3, Zenon DEF cs

-----------------------------------------------------------------------------
(* Who owns what: every budget, and the ones the entry, the caps' lists and *)
(* the requests under way refer to, belong to a policy, or to a client of   *)
(* it, and are filled at its percentage.                                    *)
Customers == Clients \cup {None}

Percent(o) == IF o.client = None THEN RoutePercent[o.policy] ELSE ClientPercent[o.policy]

Items == [client : Clients, budget : Nat]
CapRecords == [policy : Policies, order : Seq(Items)]
Locals == [client : Customers, policy : Policies \cup {None},
           budget : Nat, clientCap : Nat, clientBudget : Nat]

OwnedBy(bs, i, p, c) == i \in 1..Len(bs) /\ bs[i].owner = Owner(p, c)

CapOf(cs, k, p) == k \in 1..Len(cs) /\ cs[k].policy = p

BudgetsHeld(bs) ==
  bs \in Seq(BudgetRecords) /\ \A i \in 1..Len(bs) : bs[i].percent = Percent(bs[i].owner)

OrderHeld(bs, order, p) ==
  \A n \in 1..Len(order) : OwnedBy(bs, order[n].budget, p, order[n].client)

CapsHeld(bs, cs) ==
  cs \in Seq(CapRecords) /\ \A k \in 1..Len(cs) : OrderHeld(bs, cs[k].order, cs[k].policy)

EntryHeld(bs, cs, e) ==
  e # None => /\ e.policy \in Policies
              /\ OwnedBy(bs, e.budget, e.policy, None) /\ CapOf(cs, e.clientCap, e.policy)

LocalsHeld(bs, cs, label, l) ==
  label # "idle" =>
    /\ l.client \in Clients /\ l.policy \in Policies
    /\ OwnedBy(bs, l.budget, l.policy, None) /\ CapOf(cs, l.clientCap, l.policy)
    /\ label # "bucket" => OwnedBy(bs, l.clientBudget, l.policy, l.client)

CountsTyped ==
  /\ successes \in [Policies -> [Clients -> Nat]] /\ retries \in [Policies -> [Clients -> Nat]]
  /\ routeSuccesses \in [Policies -> Nat] /\ routeRetries \in [Policies -> Nat]

HoldInv ==
  /\ BudgetsHeld(budgets) /\ CapsHeld(budgets, caps) /\ EntryHeld(budgets, caps, entry)
  /\ DOMAIN pc = Requests /\ req \in [Requests -> Locals]
  /\ \A q \in Requests : LocalsHeld(budgets, caps, pc[q], req[q])
  /\ CountsTyped

-----------------------------------------------------------------------------
(* What the owners and the budgets are worth.                               *)
LEMMA OwnerType ==
  ASSUME RetryConstants, NEW p \in Policies, NEW c \in Customers
  PROVE  /\ Owner(p, c) \in Owners /\ Percent(Owner(p, c)) \in 0..100
         /\ Percent(Owner(p, c)) = IF c = None THEN RoutePercent[p] ELSE ClientPercent[p]
BY DEF RetryConstants, Owner, Owners, Percent, Customers

LEMMA OwnersDiffer ==
  ASSUME NEW p, NEW c, NEW r, NEW d, Owner(p, c) = Owner(r, d)
  PROVE  p = r /\ c = d
BY DEF Owner

LEMMA NewBudgetType ==
  ASSUME RetryConstants, NEW p \in Policies, NEW c \in Customers
  PROVE  LET b == NewBudget(Percent(Owner(p, c)), Owner(p, c))
         IN  b \in BudgetRecords /\ Worth(b) = 0 /\ b.owner = Owner(p, c)
             /\ b.percent = Percent(Owner(p, c))
<1>1. Owner(p, c) \in Owners /\ Percent(Owner(p, c)) \in 0..100
  BY OwnerType
<1> QED BY <1>1 DEF NewBudget, BudgetRecords, Worth

\* A success is worth at most the percentage; a retry costs a hundred.
LEMMA RecordWorth ==
  ASSUME RetryConstants, NEW b \in BudgetRecords, NEW n \in RecordSuccess(b)
  PROVE  /\ n \in BudgetRecords /\ n.owner = b.owner /\ n.percent = b.percent
         /\ Worth(n) <= Worth(b) + b.percent
<1> DEFINE sum == b.accumulator + b.percent
<1>1. /\ b.accumulator \in Nat /\ b.tokens \in Nat /\ b.percent \in 0..100
      /\ Burst \in Nat /\ sum \in Nat
  BY DEF BudgetRecords, RetryConstants
<1>2. ASSUME NEW whole \in Nat, 100 * whole <= sum
      PROVE  /\ Add(b, whole) \in BudgetRecords /\ Add(b, whole).owner = b.owner
             /\ Add(b, whole).percent = b.percent
             /\ Worth(Add(b, whole)) <= Worth(b) + b.percent
  <2> DEFINE g == [b EXCEPT !.accumulator = @ + b.percent - 100 * whole]
             t == IF b.tokens + whole > Burst THEN Burst ELSE b.tokens + whole
             h == [g EXCEPT !.tokens = t]
  <2>1. /\ g \in BudgetRecords /\ g.owner = b.owner /\ g.percent = b.percent
        /\ g.tokens = b.tokens /\ g.accumulator = sum - 100 * whole
    <3>1. sum - 100 * whole \in Nat
      BY <1>1, <1>2
    <3> HIDE DEF sum
    <3> QED BY <3>1 DEF BudgetRecords, sum
  <2>2. t \in Nat /\ t <= b.tokens + whole
    BY <1>1
  <2>3. Add(b, whole) = h
    BY <1>1 DEF Add, BudgetRecords
  <2> HIDE DEF g, t
  <2>4. /\ h \in BudgetRecords /\ h.owner = b.owner /\ h.percent = b.percent
        /\ h.tokens = t /\ h.accumulator = sum - 100 * whole
    BY <2>1, <2>2 DEF BudgetRecords
  <2> HIDE DEF h
  <2>5. Worth(h) <= Worth(b) + b.percent
    BY <1>1, <2>2, <2>4 DEF Worth
  <2> QED BY <2>3, <2>4, <2>5
<1>3. n = b \/ n = Add(b, sum \div 100) \/ n = Add(b, 0)
  BY DEF RecordSuccess
<1>4. CASE n = b
  BY <1>1, <1>4, WorthType
<1>5. CASE n = Add(b, sum \div 100)
  <2>1. sum \div 100 \in Nat /\ 100 * (sum \div 100) <= sum
    BY <1>1
  <2> HIDE DEF sum
  <2> QED BY <1>2, <1>5, <2>1
<1>6. CASE n = Add(b, 0)
  <2>1. 100 * 0 <= sum
    BY <1>1
  <2> HIDE DEF sum
  <2> QED BY <1>2, <1>6, <2>1
<1> QED BY <1>3, <1>4, <1>5, <1>6

LEMMA ConsumedWorth ==
  ASSUME NEW b \in BudgetRecords, CanConsume(b)
  PROVE  /\ Consumed(b) \in BudgetRecords /\ Consumed(b).owner = b.owner
         /\ Consumed(b).percent = b.percent
         /\ Worth(Consumed(b)) <= Worth(b) + (-100)
<1>1. b.tokens \in Nat /\ b.tokens > 0 /\ b.accumulator \in Nat
  BY DEF BudgetRecords, CanConsume
<1>2. /\ Consumed(b) \in BudgetRecords /\ Consumed(b).owner = b.owner
      /\ Consumed(b).percent = b.percent /\ Consumed(b).tokens = b.tokens - 1
      /\ Consumed(b).accumulator = b.accumulator
  BY <1>1 DEF BudgetRecords, Consumed
<1> QED BY <1>1, <1>2 DEF Worth

LEMMA Concatenation ==
  ASSUME NEW S, NEW s \in Seq(S), NEW t \in Seq(S)
  PROVE  /\ s \o t \in Seq(S) /\ Len(s \o t) = Len(s) + Len(t) /\ Len(s) \in Nat /\ Len(t) \in Nat
         /\ \A n \in 1..Len(s) : (s \o t)[n] = s[n]
         /\ \A n \in (Len(s) + 1)..(Len(s) + Len(t)) : (s \o t)[n] = t[n - Len(s)]
OBVIOUS

\* A cap's list is replaced.
LEMMA OrderReplaced ==
  ASSUME NEW cs \in Seq(CapRecords), NEW k \in 1..Len(cs), NEW o \in Seq(Items)
  PROVE  LET ds == [cs EXCEPT ![k].order = o]
         IN  /\ ds \in Seq(CapRecords) /\ Len(ds) = Len(cs)
             /\ \A j \in 1..Len(cs) : ds[j].policy = cs[j].policy
             /\ \A j \in 1..Len(cs) : j # k => ds[j] = cs[j]
             /\ ds[k].order = o
<1> DEFINE cap == [cs[k] EXCEPT !.order = o]
           ds == [cs EXCEPT ![k] = cap]
<1>1. cs[k] \in CapRecords
  OBVIOUS
<1>2. cap \in CapRecords /\ cap.policy = cs[k].policy /\ cap.order = o
  BY <1>1, Zenon DEF CapRecords
<1> HIDE DEF cap
<1>3. /\ ds \in Seq(CapRecords) /\ Len(ds) = Len(cs) /\ ds[k] = cap
      /\ \A j \in 1..Len(cs) : j # k => ds[j] = cs[j]
  BY <1>2
<1>4. ds = [cs EXCEPT ![k].order = o]
  BY DEF cap
<1> HIDE DEF ds
<1> QED BY <1>2, <1>3, <1>4

\* MoveToFront keeps the items.
LEMMA FrontItems ==
  ASSUME NEW order \in Seq(Items), NEW i \in 1..Len(order)
  PROVE  LET front == <<order[i]>> \o SubSeq(order, 1, i - 1) \o SubSeq(order, i + 1, Len(order))
         IN  /\ front \in Seq(Items)
             /\ \A n \in 1..Len(front) : \E m \in 1..Len(order) : front[n] = order[m]
<1> DEFINE a == SubSeq(order, 1, i - 1)
           b == SubSeq(order, i + 1, Len(order))
           h == <<order[i]>>
           ha == h \o a
           front == ha \o b
<1>1. /\ a \in Seq(Items) /\ Len(a) = i - 1
      /\ \A n \in 1..Len(a) : a[n] = order[n]
  OBVIOUS
<1>2. /\ b \in Seq(Items) /\ Len(b) = Len(order) - i
      /\ \A n \in 1..Len(b) : b[n] = order[n + i]
  OBVIOUS
<1>3. h \in Seq(Items) /\ Len(h) = 1 /\ h[1] = order[i]
  OBVIOUS
<1> HIDE DEF a, b, h
<1>4. /\ ha \in Seq(Items) /\ Len(ha) = i
      /\ \A n \in 1..i : ha[n] = IF n = 1 THEN order[i] ELSE order[n - 1]
  <2>1. /\ ha \in Seq(Items) /\ Len(ha) = Len(h) + Len(a)
        /\ \A n \in 1..Len(h) : ha[n] = h[n]
        /\ \A n \in (Len(h) + 1)..(Len(h) + Len(a)) : ha[n] = a[n - Len(h)]
    <3>1. h \in Seq(Items) /\ a \in Seq(Items)
      BY <1>1, <1>3, Zenon
    <3> QED BY <3>1, Concatenation, Zenon
  <2> HIDE DEF ha
  <2> QED BY <1>1, <1>3, <2>1
<1> HIDE DEF ha
<1>5. /\ front \in Seq(Items) /\ Len(front) = Len(order)
      /\ \A n \in 1..Len(front) : front[n] = IF n <= i THEN ha[n] ELSE order[n]
  <2>0. ha \in Seq(Items) /\ b \in Seq(Items)
    BY <1>2, <1>4
  <2>1. /\ front \in Seq(Items) /\ Len(front) = Len(ha) + Len(b)
        /\ \A n \in 1..Len(ha) : front[n] = ha[n]
        /\ \A n \in (Len(ha) + 1)..(Len(ha) + Len(b)) : front[n] = b[n - Len(ha)]
    BY <2>0, Concatenation
  <2> HIDE DEF front
  <2>2. Len(front) = Len(order) /\ Len(order) \in Nat
    BY <1>2, <1>4, <2>1
  <2>3. ASSUME NEW n \in 1..Len(front) PROVE front[n] = IF n <= i THEN ha[n] ELSE order[n]
    <3>1. CASE n > i
      <4>1. n - i \in 1..Len(b) /\ front[n] = b[n - i]
        BY <1>2, <1>4, <2>1, <2>2, <3>1
      <4>2. b[n - i] = order[(n - i) + i] /\ (n - i) + i = n
        BY <1>2, <4>1
      <4> QED BY <3>1, <4>1, <4>2
    <3> QED BY <1>4, <2>1, <3>1
  <2> QED BY <2>1, <2>2, <2>3
<1> HIDE DEF front
<1>6. ASSUME NEW n \in 1..Len(front) PROVE \E m \in 1..Len(order) : front[n] = order[m]
  <2>1. CASE n > i
    BY <1>5, <2>1
  <2>2. CASE n = 1
    BY <1>4, <1>5, <2>2
  <2>3. CASE n <= i /\ n # 1
    <3>1. front[n] = order[n - 1] /\ n - 1 \in 1..Len(order)
      BY <1>4, <1>5, <2>3
    <3> QED BY <3>1
  <2> QED BY <2>1, <2>2, <2>3
<1> QED BY <1>5, <1>6, Zenon DEF front, ha, h, a, b

\* PushFront, and the eviction of the last item.
LEMMA PushItems ==
  ASSUME NEW order \in Seq(Items), NEW item \in Items
  PROVE  LET more == <<item>> \o order
             new == IF Len(more) > LRUSize THEN SubSeq(more, 1, Len(more) - 1) ELSE more
         IN  /\ new \in Seq(Items)
             /\ \A n \in 1..Len(new) : new[n] = item \/ \E m \in 1..Len(order) : new[n] = order[m]
<1> DEFINE more == <<item>> \o order
           cut == SubSeq(more, 1, Len(more) - 1)
<1>1. /\ more \in Seq(Items) /\ Len(more) = Len(order) + 1 /\ Len(order) \in Nat
      /\ \A n \in 1..Len(more) : more[n] = IF n = 1 THEN item ELSE order[n - 1]
  OBVIOUS
<1> HIDE DEF more
<1>2. /\ cut \in Seq(Items) /\ Len(cut) = Len(order)
      /\ \A n \in 1..Len(cut) : cut[n] = more[n]
  BY <1>1
<1> HIDE DEF cut
<1>3. ASSUME NEW n \in 1..Len(more) PROVE more[n] = item \/ \E m \in 1..Len(order) : more[n] = order[m]
  <2>1. CASE n # 1
    <3>1. more[n] = order[n - 1] /\ n - 1 \in 1..Len(order)
      BY <1>1, <2>1
    <3> QED BY <3>1
  <2> QED BY <1>1, <2>1
<1>4. ASSUME NEW n \in 1..Len(cut) PROVE cut[n] = item \/ \E m \in 1..Len(order) : cut[n] = order[m]
  <2>1. n \in 1..Len(more) /\ cut[n] = more[n]
    BY <1>1, <1>2
  <2> QED BY <1>3, <2>1
<1> QED BY <1>1, <1>2, <1>3, <1>4, Zenon DEF more, cut

-----------------------------------------------------------------------------
(* Ownership is kept.                                                       *)
\* Budgets and caps are never taken away, and keep their owner and policy.
Extends(bs, cs) ==
  Len(bs) <= Len(cs) /\ \A i \in 1..Len(bs) : cs[i].owner = bs[i].owner

ExtendsCaps(cs, ds) ==
  Len(cs) <= Len(ds) /\ \A k \in 1..Len(cs) : ds[k].policy = cs[k].policy

LEMMA StaysOwned ==
  ASSUME NEW bs \in Seq(BudgetRecords), NEW bs2 \in Seq(BudgetRecords), Extends(bs, bs2)
  PROVE  /\ \A i, p, c : OwnedBy(bs, i, p, c) => OwnedBy(bs2, i, p, c)
         /\ \A order, p : OrderHeld(bs, order, p) => OrderHeld(bs2, order, p)
<1>1. ASSUME NEW i, NEW p, NEW c, OwnedBy(bs, i, p, c) PROVE OwnedBy(bs2, i, p, c)
  BY <1>1 DEF OwnedBy, Extends
<1> QED BY <1>1 DEF OrderHeld

LEMMA StaysHeld ==
  ASSUME NEW bs \in Seq(BudgetRecords), NEW bs2 \in Seq(BudgetRecords), Extends(bs, bs2),
         NEW cs \in Seq(CapRecords), NEW cs2 \in Seq(CapRecords), ExtendsCaps(cs, cs2)
  PROVE  /\ \A k, p : CapOf(cs, k, p) => CapOf(cs2, k, p)
         /\ \A e : EntryHeld(bs, cs, e) => EntryHeld(bs2, cs2, e)
         /\ \A label, l : LocalsHeld(bs, cs, label, l) => LocalsHeld(bs2, cs2, label, l)
<1>1. ASSUME NEW k, NEW p, CapOf(cs, k, p) PROVE CapOf(cs2, k, p)
  BY <1>1 DEF CapOf, ExtendsCaps
<1>2. \A i, p, c : OwnedBy(bs, i, p, c) => OwnedBy(bs2, i, p, c)
  BY StaysOwned
<1>3. ASSUME NEW e, EntryHeld(bs, cs, e) PROVE EntryHeld(bs2, cs2, e)
  BY <1>1, <1>2, <1>3 DEF EntryHeld
<1>4. ASSUME NEW label, NEW l, LocalsHeld(bs, cs, label, l) PROVE LocalsHeld(bs2, cs2, label, l)
  BY <1>1, <1>2, <1>4, Zenon DEF LocalsHeld
<1> QED BY <1>1, <1>3, <1>4

LEMMA EntryStays ==
  ASSUME NEW bs \in Seq(BudgetRecords), NEW bs2 \in Seq(BudgetRecords), Extends(bs, bs2),
         NEW cs \in Seq(CapRecords), NEW cs2 \in Seq(CapRecords), ExtendsCaps(cs, cs2),
         NEW e, EntryHeld(bs, cs, e)
  PROVE  EntryHeld(bs2, cs2, e)
BY StaysHeld, Zenon

\* Only q moves: to label, with locals l.
Moves(q, label, l) ==
  /\ DOMAIN pc' = Requests /\ req' \in [Requests -> Locals]
  /\ pc'[q] = label /\ req'[q] = l
  /\ \A r \in Requests \ {q} : pc'[r] = pc[r] /\ req'[r] = req[r]

LEMMA GoesOn ==
  ASSUME HoldInv, NEW q \in Requests, NEW label, Goto(q, label), req' = req
  PROVE  Moves(q, label, req[q])
BY DEF HoldInv, Goto, Moves

LEMMA GoesTo ==
  ASSUME HoldInv, NEW q \in Requests, NEW label, Goto(q, label),
         NEW l \in Locals, req' = [req EXCEPT ![q] = l]
  PROVE  Moves(q, label, l)
BY DEF HoldInv, Goto, Moves

LEMMA Ends ==
  ASSUME HoldInv, NEW q \in Requests, End(q)
  PROVE  Moves(q, "idle", Idle)
<1>1. Idle \in Locals
  BY DEF Idle, Locals, Customers
<1> QED BY <1>1, GoesTo, Zenon DEF End

LEMMA HoldInit == Init => HoldInv
<1> SUFFICES ASSUME Init PROVE HoldInv
  OBVIOUS
<1>1. req \in [Requests -> Locals]
  BY DEF Init, Idle, Locals, Customers
<1>2. budgets = <<>> /\ caps = <<>> /\ Len(budgets) = 0 /\ Len(caps) = 0
  BY DEF Init
<1>3. BudgetsHeld(budgets) /\ CapsHeld(budgets, caps)
  BY <1>2 DEF BudgetsHeld, CapsHeld
<1>4. CountsTyped
  BY DEF Init, CountsTyped
<1>5. EntryHeld(budgets, caps, entry) /\ DOMAIN pc = Requests
      /\ \A q \in Requests : LocalsHeld(budgets, caps, pc[q], req[q])
  BY DEF Init, EntryHeld, LocalsHeld
<1> QED BY <1>1, <1>3, <1>4, <1>5 DEF HoldInv

LEMMA HoldStep ==
  ASSUME HoldInv, NEW q \in Requests, NEW label, NEW l, Moves(q, label, l),
         BudgetsHeld(budgets'), Extends(budgets, budgets'),
         CapsHeld(budgets', caps'), ExtendsCaps(caps, caps'),
         EntryHeld(budgets', caps', entry'), LocalsHeld(budgets', caps', label, l), CountsTyped'
  PROVE  HoldInv'
<1>1. /\ budgets \in Seq(BudgetRecords) /\ budgets' \in Seq(BudgetRecords)
      /\ caps \in Seq(CapRecords) /\ caps' \in Seq(CapRecords)
  BY Zenon DEF HoldInv, BudgetsHeld, CapsHeld
<1>2. ASSUME NEW r \in Requests PROVE LocalsHeld(budgets', caps', pc'[r], req'[r])
  <2>1. CASE r = q
    BY <2>1, Zenon DEF Moves
  <2>2. CASE r # q
    <3>1. pc'[r] = pc[r] /\ req'[r] = req[r] /\ LocalsHeld(budgets, caps, pc[r], req[r])
      BY <2>2, Zenon DEF Moves, HoldInv
    <3> QED BY <1>1, <3>1, StaysHeld, Zenon
  <2> QED BY <2>1, <2>2, Zenon
<1> QED BY <1>2, Zenon DEF HoldInv, Moves

\* A step that changes no cap, and leaves every budget with its owner.
LEMMA HoldSameCaps ==
  ASSUME HoldInv, NEW q \in Requests, NEW label, NEW l, Moves(q, label, l),
         BudgetsHeld(budgets'), Extends(budgets, budgets'), caps' = caps, entry' = entry,
         label = "idle" \/ LocalsHeld(budgets, caps, label, l), CountsTyped'
  PROVE  HoldInv'
<1>1. budgets \in Seq(BudgetRecords) /\ budgets' \in Seq(BudgetRecords) /\ caps \in Seq(CapRecords)
  BY Zenon DEF HoldInv, BudgetsHeld, CapsHeld
<1>2. ExtendsCaps(caps, caps')
  BY <1>1 DEF ExtendsCaps
<1>3. EntryHeld(budgets', caps', entry')
  BY <1>1, <1>2, StaysHeld DEF HoldInv
<1>4. LocalsHeld(budgets', caps', label, l)
  <2>1. CASE label = "idle"
    BY <2>1, Zenon DEF LocalsHeld
  <2>2. CASE LocalsHeld(budgets, caps, label, l)
    BY <1>1, <1>2, <2>2, StaysHeld
  <2> QED BY <2>1, <2>2
<1>5. CapsHeld(budgets', caps')
  <2>1. ASSUME NEW k \in 1..Len(caps) PROVE OrderHeld(budgets', caps[k].order, caps[k].policy)
    BY <1>1, StaysOwned, Zenon DEF HoldInv, CapsHeld
  <2> QED BY <1>1, <2>1, Zenon DEF CapsHeld
<1> QED BY <1>2, <1>3, <1>4, <1>5, HoldStep

\* What a new budget at the end of the sequence changes.
LEMMA BudgetAdded ==
  ASSUME RetryConstants, HoldInv, NEW p \in Policies, NEW c \in Customers,
         budgets' = Append(budgets, NewBudget(Percent(Owner(p, c)), Owner(p, c)))
  PROVE  /\ BudgetsHeld(budgets') /\ Extends(budgets, budgets') /\ Len(budgets) \in Nat
         /\ OwnedBy(budgets', Len(budgets) + 1, p, c)
         /\ \A o : Purse(budgets', o) = Purse(budgets, o)
<1> DEFINE b == NewBudget(Percent(Owner(p, c)), Owner(p, c))
<1>1. /\ b \in BudgetRecords /\ Worth(b) = 0 /\ b.owner = Owner(p, c)
      /\ b.percent = Percent(Owner(p, c))
  BY NewBudgetType, Zenon
<1>2. budgets' = Append(budgets, b)
  OBVIOUS
<1> HIDE DEF b
<1>3. /\ budgets \in Seq(BudgetRecords)
      /\ \A i \in 1..Len(budgets) : budgets[i].percent = Percent(budgets[i].owner)
  BY DEF HoldInv, BudgetsHeld
<1>4. /\ budgets' \in Seq(BudgetRecords) /\ Len(budgets') = Len(budgets) + 1
      /\ Len(budgets) \in Nat /\ budgets'[Len(budgets) + 1] = b
      /\ \A i \in 1..Len(budgets) : budgets'[i] = budgets[i]
  BY <1>1, <1>2, <1>3
<1>5. ASSUME NEW i \in 1..Len(budgets') PROVE budgets'[i].percent = Percent(budgets'[i].owner)
  <2>1. i = Len(budgets) + 1 \/ i \in 1..Len(budgets)
    BY <1>4
  <2> QED BY <1>1, <1>3, <1>4, <2>1, Zenon
<1>6. OwnedBy(budgets', Len(budgets) + 1, p, c)
  BY <1>1, <1>4 DEF OwnedBy
<1>7. \A o : Purse(budgets', o) = Purse(budgets, o)
  <2>1. b \in BudgetRecords /\ Worth(b) = 0 /\ budgets \in Seq(BudgetRecords)
    BY <1>1, <1>3, Zenon
  <2>2. ASSUME NEW o PROVE Purse(Append(budgets, b), o) = Purse(budgets, o)
    BY <2>1, PurseAppend, Zenon
  <2> QED BY <1>2, <2>2, Zenon
<1> QED BY <1>4, <1>5, <1>6, <1>7 DEF BudgetsHeld, Extends

LEMMA HoldReuse ==
  ASSUME HoldInv, NEW q \in Requests, NEW c \in Clients, NEW p \in Policies,
         ReuseEntry(q, c, p), Goto(q, "bucket"), UNCHANGED history
  PROVE  HoldInv' /\ \E l : Moves(q, "bucket", l) /\ l.policy = p /\ l.client = c
<1> DEFINE l == [client |-> c, policy |-> p, budget |-> entry.budget,
                 clientCap |-> entry.clientCap, clientBudget |-> 0]
<1>1. OwnedBy(budgets, entry.budget, p, None) /\ CapOf(caps, entry.clientCap, p)
  BY Zenon DEF HoldInv, EntryHeld, ReuseEntry, EntryFor
<1>2. entry.budget \in Nat /\ entry.clientCap \in Nat
  BY <1>1 DEF OwnedBy, CapOf
<1>3. /\ l \in Locals /\ l.client = c /\ l.policy = p
      /\ l.budget = entry.budget /\ l.clientCap = entry.clientCap
  BY <1>2, Zenon DEF Locals, Customers
<1>4. budgets' = budgets /\ caps' = caps /\ entry' = entry /\ req' = [req EXCEPT ![q] = l]
  BY Zenon DEF ReuseEntry
<1> HIDE DEF l
<1>5. Moves(q, "bucket", l)
  BY <1>3, <1>4, GoesTo, Zenon
<1>6. LocalsHeld(budgets, caps, "bucket", l)
  BY <1>1, <1>3, Zenon DEF LocalsHeld
<1>7. BudgetsHeld(budgets') /\ Extends(budgets, budgets')
  BY <1>4 DEF HoldInv, BudgetsHeld, Extends
<1>8. CountsTyped'
  BY Zenon DEF HoldInv, CountsTyped, history
<1>9. HoldInv'
  BY <1>4, <1>5, <1>6, <1>7, <1>8, HoldSameCaps
<1> QED BY <1>3, <1>5, <1>9, Zenon

LEMMA HoldNewEntry ==
  ASSUME RetryConstants, HoldInv, NEW q \in Requests, NEW c \in Clients, NEW p \in Policies,
         NewEntry(q, c, p), Goto(q, "bucket"), UNCHANGED history
  PROVE  /\ HoldInv' /\ \A o : Purse(budgets', o) = Purse(budgets, o)
         /\ \E l : Moves(q, "bucket", l) /\ l.policy = p /\ l.client = c
<1> DEFINE id == Len(budgets) + 1
           k == Len(caps) + 1
           l == [client |-> c, policy |-> p, budget |-> id, clientCap |-> k, clientBudget |-> 0]
           cap == [policy |-> p, order |-> <<>>]
           new == [policy |-> p, budget |-> id, clientCap |-> k]
<1>0. RoutePercent[p] = Percent(Owner(p, None)) /\ None \in Customers
  BY OwnerType, Zenon DEF Customers
<1>1. /\ budgets' = Append(budgets, NewBudget(Percent(Owner(p, None)), Owner(p, None)))
      /\ caps' = Append(caps, cap) /\ req' = [req EXCEPT ![q] = l] /\ entry' = new
  BY <1>0, Zenon DEF NewEntry
<1>2. /\ BudgetsHeld(budgets') /\ Extends(budgets, budgets') /\ Len(budgets) \in Nat
      /\ OwnedBy(budgets', id, p, None)
      /\ \A o : Purse(budgets', o) = Purse(budgets, o)
  BY <1>0, <1>1, BudgetAdded, Zenon
<1>3. cap \in CapRecords /\ cap.policy = p /\ Len(cap.order) = 0
  BY DEF CapRecords
<1>4. caps \in Seq(CapRecords) /\ \A j \in 1..Len(caps) : OrderHeld(budgets, caps[j].order, caps[j].policy)
  BY Zenon DEF HoldInv, CapsHeld
<1>5. Len(caps) \in Nat
  BY <1>4
<1>6. l \in Locals /\ l.client = c /\ l.policy = p /\ l.budget = id /\ l.clientCap = k
  BY <1>2, <1>5 DEF Locals, Customers
<1>7. new.policy = p /\ new.budget = id /\ new.clientCap = k
  BY Zenon
<1> HIDE DEF cap, l, new, id
<1>8. /\ caps' \in Seq(CapRecords) /\ Len(caps') = k /\ caps'[k] = cap
      /\ \A i \in 1..Len(caps) : caps'[i] = caps[i]
  BY <1>1, <1>3, <1>4
<1>9. CapOf(caps', k, p) /\ ExtendsCaps(caps, caps')
  BY <1>3, <1>5, <1>8 DEF CapOf, ExtendsCaps
<1>10. CapsHeld(budgets', caps')
  <2>1. budgets \in Seq(BudgetRecords) /\ budgets' \in Seq(BudgetRecords)
    BY <1>2, Zenon DEF HoldInv, BudgetsHeld
  <2>2. ASSUME NEW j \in 1..Len(caps') PROVE OrderHeld(budgets', caps'[j].order, caps'[j].policy)
    <3>1. CASE j = k
      BY <1>3, <1>8, <3>1 DEF OrderHeld
    <3>2. CASE j # k
      <4>1. j \in 1..Len(caps) /\ caps'[j] = caps[j]
        BY <1>5, <1>8, <3>2
      <4> QED BY <1>2, <1>4, <2>1, <4>1, StaysOwned, Zenon
    <3> QED BY <3>1, <3>2, Zenon
  <2> QED BY <1>8, <2>2, Zenon DEF CapsHeld
<1> HIDE DEF k
<1>11. Moves(q, "bucket", l)
  BY <1>1, <1>6, GoesTo, Zenon
<1>12. LocalsHeld(budgets', caps', "bucket", l) /\ EntryHeld(budgets', caps', entry')
  BY <1>1, <1>2, <1>6, <1>7, <1>9, Zenon DEF LocalsHeld, EntryHeld
<1>13. CountsTyped'
  BY Zenon DEF HoldInv, CountsTyped, history
<1>14. HoldInv'
  BY <1>2, <1>9, <1>10, <1>11, <1>12, <1>13, HoldStep, Zenon
<1> QED BY <1>2, <1>6, <1>11, <1>14, Zenon

\* The order of q's cap is replaced, and q gets budget id for its client.
Serves(q, order, id) ==
  /\ caps' = [caps EXCEPT ![req[q].clientCap].order = order]
  /\ req' = [req EXCEPT ![q].clientBudget = id]

\* The cap's list is replaced by one whose items the policy owns, and the
\* request gets the budget id of its client.
LEMMA HoldBucket ==
  ASSUME HoldInv, NEW q \in Requests, pc[q] = "bucket", Goto(q, "attempt"),
         entry' = entry, UNCHANGED history,
         BudgetsHeld(budgets'), Extends(budgets, budgets'),
         NEW new \in Seq(Items), OrderHeld(budgets', new, req[q].policy),
         NEW id \in Nat, OwnedBy(budgets', id, req[q].policy, req[q].client),
         Serves(q, new, id)
  PROVE  /\ HoldInv'
         /\ \E l : Moves(q, "attempt", l) /\ l.policy = req[q].policy /\ l.client = req[q].client
<1> DEFINE k == req[q].clientCap
           l == [req[q] EXCEPT !.clientBudget = id]
<1>1. /\ req[q].client \in Clients /\ req[q].policy \in Policies /\ CapOf(caps, k, req[q].policy)
      /\ OwnedBy(budgets, req[q].budget, req[q].policy, None) /\ req[q] \in Locals
  BY Zenon DEF HoldInv, LocalsHeld
<1>2. /\ l \in Locals /\ l.client = req[q].client /\ l.policy = req[q].policy
      /\ l.budget = req[q].budget /\ l.clientCap = k /\ l.clientBudget = id
  BY <1>1, Zenon DEF Locals
<1>3. req' = [req EXCEPT ![q] = l] /\ caps' = [caps EXCEPT ![k].order = new]
  BY DEF Serves
<1>4. k \in 1..Len(caps) /\ caps[k].policy = req[q].policy /\ caps \in Seq(CapRecords)
  BY <1>1, Zenon DEF CapOf, HoldInv, CapsHeld
<1> HIDE DEF k, l
<1>5. /\ caps' \in Seq(CapRecords) /\ Len(caps') = Len(caps)
      /\ \A j \in 1..Len(caps) : caps'[j].policy = caps[j].policy
      /\ \A j \in 1..Len(caps) : j # k => caps'[j] = caps[j]
      /\ caps'[k].order = new
  <2> DEFINE ds == [caps EXCEPT ![k].order = new]
  <2>1. /\ ds \in Seq(CapRecords) /\ Len(ds) = Len(caps)
        /\ \A j \in 1..Len(caps) : ds[j].policy = caps[j].policy
        /\ \A j \in 1..Len(caps) : j # k => ds[j] = caps[j]
        /\ ds[k].order = new
    BY <1>4, OrderReplaced
  <2>2. caps' = ds
    BY <1>3, Zenon
  <2> HIDE DEF ds
  <2> QED BY <2>1, <2>2, Zenon
<1>6. ExtendsCaps(caps, caps') /\ CapOf(caps', k, req[q].policy)
  BY <1>4, <1>5 DEF ExtendsCaps, CapOf
<1>7. budgets \in Seq(BudgetRecords) /\ budgets' \in Seq(BudgetRecords)
  BY Zenon DEF HoldInv, BudgetsHeld
<1>8. CapsHeld(budgets', caps')
  <2>1. ASSUME NEW j \in 1..Len(caps') PROVE OrderHeld(budgets', caps'[j].order, caps'[j].policy)
    <3>1. CASE j = k
      BY <1>4, <1>5, <3>1, Zenon
    <3>2. CASE j # k
      <4>1. j \in 1..Len(caps) /\ caps'[j] = caps[j]
        BY <1>5, <3>2, Zenon
      <4>2. OrderHeld(budgets, caps[j].order, caps[j].policy)
        BY <4>1, Zenon DEF HoldInv, CapsHeld
      <4> QED BY <1>7, <4>1, <4>2, StaysOwned, Zenon
    <3> QED BY <3>1, <3>2, Zenon
  <2> QED BY <1>5, <2>1, Zenon DEF CapsHeld
<1>9. OwnedBy(budgets', req[q].budget, req[q].policy, None)
  BY <1>1, <1>7, StaysOwned, Zenon
<1>10. LocalsHeld(budgets', caps', "attempt", l)
  BY <1>1, <1>2, <1>6, <1>9, Zenon DEF LocalsHeld
<1>11. EntryHeld(budgets', caps', entry')
  <2>1. EntryHeld(budgets, caps, entry)
    BY Zenon DEF HoldInv
  <2>2. caps \in Seq(CapRecords) /\ caps' \in Seq(CapRecords) /\ ExtendsCaps(caps, caps')
    BY <1>4, <1>5, <1>6, Zenon
  <2>3. EntryHeld(budgets', caps', entry)
    BY <1>7, <2>1, <2>2, EntryStays, Zenon
  <2> QED BY <2>3, Zenon
<1>12. Moves(q, "attempt", l)
  BY <1>2, <1>3, GoesTo, Zenon
<1>13. CountsTyped'
  BY Zenon DEF HoldInv, CountsTyped, history
<1>14. HoldInv'
  BY <1>6, <1>8, <1>10, <1>11, <1>12, <1>13, HoldStep, Zenon
<1> QED BY <1>2, <1>12, <1>14, Zenon

\* The cap of a request that asks for its bucket.
LEMMA AtBucket ==
  ASSUME HoldInv, NEW q \in Requests, pc[q] = "bucket"
  PROVE  /\ req[q].client \in Clients /\ req[q].policy \in Policies
         /\ caps[req[q].clientCap].policy = req[q].policy
         /\ caps[req[q].clientCap].order \in Seq(Items)
         /\ OrderHeld(budgets, caps[req[q].clientCap].order, req[q].policy)
<1> DEFINE k == req[q].clientCap
<1>1. req[q].client \in Clients /\ req[q].policy \in Policies /\ CapOf(caps, k, req[q].policy)
  BY Zenon DEF HoldInv, LocalsHeld
<1>2. CapsHeld(budgets, caps)
  BY DEF HoldInv
<1> HIDE DEF k
<1>3. k \in 1..Len(caps) /\ caps[k].policy = req[q].policy
  BY <1>1, Zenon DEF CapOf
<1>4. caps[k] \in CapRecords /\ OrderHeld(budgets, caps[k].order, caps[k].policy)
  BY <1>2, <1>3 DEF CapsHeld
<1>5. caps[k].order \in Seq(Items)
  BY <1>4, Zenon DEF CapRecords
<1> QED BY <1>1, <1>3, <1>4, <1>5, Zenon DEF k

LEMMA HoldKnownBucket ==
  ASSUME HoldInv, NEW q \in Requests, pc[q] = "bucket",
         KnownBucket(q), Goto(q, "attempt"), entry' = entry, UNCHANGED history
  PROVE  /\ HoldInv'
         /\ \E l : Moves(q, "attempt", l) /\ l.policy = req[q].policy /\ l.client = req[q].client
<1> DEFINE order == caps[req[q].clientCap].order
           front(i) == <<order[i]>> \o SubSeq(order, 1, i - 1) \o SubSeq(order, i + 1, Len(order))
<1>1. order \in Seq(Items) /\ OrderHeld(budgets, order, req[q].policy)
  BY AtBucket, Zenon
<1>2. PICK i \in Places(q) :
        /\ Serves(q, front(i), order[i].budget)
        /\ budgets' = budgets
  BY Zenon DEF KnownBucket, Serves
<1>3. i \in 1..Len(order) /\ order[i].client = req[q].client
  BY Zenon DEF Places
<1> HIDE DEF order
<1>4. /\ front(i) \in Seq(Items)
      /\ \A n \in 1..Len(front(i)) : \E m \in 1..Len(order) : front(i)[n] = order[m]
  BY <1>1, <1>3, FrontItems, Zenon
<1> HIDE DEF front
<1>5. OrderHeld(budgets, front(i), req[q].policy)
  BY <1>1, <1>4, Zenon DEF OrderHeld
<1>6. OwnedBy(budgets, order[i].budget, req[q].policy, req[q].client)
  BY <1>1, <1>3, Zenon DEF OrderHeld
<1>7. order[i].budget \in Nat
  BY <1>6 DEF OwnedBy
<1>8. BudgetsHeld(budgets') /\ Extends(budgets, budgets')
  BY <1>2 DEF HoldInv, BudgetsHeld, Extends
<1> QED BY <1>2, <1>4, <1>5, <1>6, <1>7, <1>8, HoldBucket, Zenon

LEMMA HoldNewBucket ==
  ASSUME RetryConstants, HoldInv, NEW q \in Requests, pc[q] = "bucket",
         NewBucket(q), Goto(q, "attempt"), entry' = entry, UNCHANGED history
  PROVE  /\ HoldInv' /\ \A o : Purse(budgets', o) = Purse(budgets, o)
         /\ \E l : Moves(q, "attempt", l) /\ l.policy = req[q].policy /\ l.client = req[q].client
<1> DEFINE old == caps[req[q].clientCap].order
           id == Len(budgets) + 1
           item == [client |-> req[q].client, budget |-> id]
           more == <<item>> \o old
           new == IF Len(more) > LRUSize THEN SubSeq(more, 1, Len(more) - 1) ELSE more
<1>1. /\ req[q].client \in Clients /\ req[q].policy \in Policies
      /\ caps[req[q].clientCap].policy = req[q].policy
      /\ old \in Seq(Items) /\ OrderHeld(budgets, old, req[q].policy)
  BY AtBucket, Zenon
<1>2. req[q].client # None /\ req[q].client \in Customers
  BY <1>1, Zenon DEF RetryConstants, Customers
<1>3. ClientPercent[req[q].policy] = Percent(Owner(req[q].policy, req[q].client))
  BY <1>1, <1>2, OwnerType, Zenon
<1>4. /\ budgets' = Append(budgets, NewBudget(Percent(Owner(req[q].policy, req[q].client)),
                                              Owner(req[q].policy, req[q].client)))
      /\ Serves(q, new, id)
  BY <1>1, <1>3, Zenon DEF NewBucket, Serves
<1>5. /\ BudgetsHeld(budgets') /\ Extends(budgets, budgets') /\ Len(budgets) \in Nat
      /\ OwnedBy(budgets', id, req[q].policy, req[q].client)
      /\ \A o : Purse(budgets', o) = Purse(budgets, o)
  BY <1>1, <1>2, <1>4, BudgetAdded, Zenon
<1>6. id \in Nat /\ item \in Items /\ item.client = req[q].client /\ item.budget = id
  BY <1>1, <1>5 DEF Items
<1> HIDE DEF id, item, old
<1>7. /\ new \in Seq(Items)
      /\ \A n \in 1..Len(new) : new[n] = item \/ \E m \in 1..Len(old) : new[n] = old[m]
  BY <1>1, <1>6, PushItems, Zenon
<1> HIDE DEF new
<1>8. OrderHeld(budgets', old, req[q].policy)
  BY <1>1, <1>5, StaysOwned, Zenon DEF HoldInv, BudgetsHeld
<1>9. OrderHeld(budgets', new, req[q].policy)
  BY <1>5, <1>6, <1>7, <1>8, Zenon DEF OrderHeld
<1>10. /\ HoldInv'
       /\ \E l : Moves(q, "attempt", l) /\ l.policy = req[q].policy /\ l.client = req[q].client
  BY <1>4, <1>5, <1>6, <1>7, <1>9, HoldBucket, Zenon
<1> QED BY <1>5, <1>10, Zenon

-----------------------------------------------------------------------------
(* What a step moves.                                                       *)
\* An account is a policy and a customer; None is the route itself.  It has
\* spent retries and earned successes; a request holds a token of it, or owes
\* it the record of a success, between the steps of a round trip.
Spent(p, c) == IF c = None THEN routeRetries[p] ELSE retries[p][c]
Earned(p, c) == IF c = None THEN routeSuccesses[p] ELSE successes[p][c]

TakenBy(label, l, p, c) == c = None /\ label = "consumeClient" /\ l.policy = p
DueFor(label, l, p, c) ==
  /\ l.policy = p
  /\ \/ c = None /\ label = "recordRoute"
     \/ c # None /\ label \in {"recordRoute", "recordClient"} /\ l.client = c

\* A step that spends x, puts d in the purse, takes k and owes n more, and earns
\* y keeps an account balanced when it pays for itself.
Pays(a, x, d, k, n, y) == 100 * x + d + 100 * k + a * n <= a * y

One(b) == IF b THEN 1 ELSE 0

\* What a step changes by: v0 for the route's own account under policy P, v1
\* for the account of its client C, nothing for every other.
At(p, c, P, C, v0, v1) ==
  IF p = P /\ c = None THEN v0 ELSE IF p = P /\ c = C THEN v1 ELSE 0

CountsMove(P, C, x, y) ==
  \A p \in Policies, c \in Customers :
    /\ Spent(p, c)' = Spent(p, c) + At(p, c, P, C, x, x)
    /\ Earned(p, c)' = Earned(p, c) + At(p, c, P, C, y, y)

TakenAt(label) == One(label = "consumeClient")
RouteDueAt(label) == One(label = "recordRoute")
ClientDueAt(label) == One(label \in {"recordRoute", "recordClient"})

Replaces(j, b) == budgets' = [budgets EXCEPT ![j] = b]

\* One budget, of the account (p, c), is replaced by one worth at most d more.
Refills(p, c, d) ==
  \E j, b : /\ OwnedBy(budgets, j, p, c) /\ Replaces(j, b)
            /\ b \in BudgetRecords /\ b.owner = budgets[j].owner /\ b.percent = budgets[j].percent
            /\ Worth(b) <= Worth(budgets[j]) + d

\* The route's purse under P moves by at most d0, its client C's by d1, and
\* one of the two not at all.
PursesGo(P, C, d0, d1) ==
  \/ d0 = 0 /\ d1 = 0 /\ \A o : Purse(budgets', o) = Purse(budgets, o)
  \/ d1 = 0 /\ Refills(P, None, d0)
  \/ d0 = 0 /\ Refills(P, C, d1)

\* Request q, of client C under policy P, goes to label with locals l: it
\* spends x retries and earns y successes, and pays for them in both accounts.
Turn(q, label, l, P, C, x, y, d0, d1) ==
  /\ Moves(q, label, l) /\ P \in Policies /\ C \in Clients
  /\ pc[q] # "idle" => req[q].policy = P /\ req[q].client = C
  /\ label # "idle" => l.policy = P /\ l.client = C
  /\ x \in Int /\ y \in Int /\ d0 \in Int /\ d1 \in Int
  /\ CountsMove(P, C, x, y) /\ PursesGo(P, C, d0, d1)
  /\ Pays(RoutePercent[P], x, d0, TakenAt(label) - TakenAt(pc[q]),
          RouteDueAt(label) - RouteDueAt(pc[q]), y)
  /\ Pays(ClientPercent[P], x, d1, 0, ClientDueAt(label) - ClientDueAt(pc[q]), y)

TakesTurn(q) == \E label, l, P, C, x, y, d0, d1 : Turn(q, label, l, P, C, x, y, d0, d1)

LEMMA TurnTaken ==
  ASSUME NEW q, NEW label, NEW l, NEW P \in Policies, NEW C \in Clients, Moves(q, label, l),
         pc[q] # "idle" => req[q].policy = P /\ req[q].client = C,
         label # "idle" => l.policy = P /\ l.client = C,
         NEW x \in Int, NEW y \in Int, NEW d0 \in Int, NEW d1 \in Int,
         CountsMove(P, C, x, y), PursesGo(P, C, d0, d1),
         Pays(RoutePercent[P], x, d0, TakenAt(label) - TakenAt(pc[q]),
              RouteDueAt(label) - RouteDueAt(pc[q]), y),
         Pays(ClientPercent[P], x, d1, 0, ClientDueAt(label) - ClientDueAt(pc[q]), y)
  PROVE  TakesTurn(q)
<1>1. Turn(q, label, l, P, C, x, y, d0, d1)
  BY Zenon DEF Turn
<1> QED BY <1>1, Zenon DEF TakesTurn

LEMMA Numbers == 0 \in Int /\ 1 \in Int
OBVIOUS

\* Labels at which a request owes no record, and holds no token.
NotDue(label) == label \notin {"recordRoute", "recordClient"}
NotTaken(label) == label # "consumeClient"

LEMMA Labels ==
  /\ NotDue("idle") /\ NotDue("bucket") /\ NotDue("attempt") /\ NotDue("consumeRoute")
  /\ NotTaken("idle") /\ NotTaken("bucket") /\ NotTaken("attempt") /\ NotTaken("consumeRoute")
  /\ NotDue("consumeClient")
BY DEF NotDue, NotTaken

LEMMA CountTypes ==
  ASSUME CountsTyped, NEW p \in Policies, NEW c \in Customers
  PROVE  Spent(p, c) \in Nat /\ Earned(p, c) \in Nat
BY DEF CountsTyped, Spent, Earned, Customers

\* Counters that do not change.
LEMMA CountsStay ==
  ASSUME HoldInv, UNCHANGED history, NEW P, NEW C
  PROVE  CountsTyped' /\ CountsMove(P, C, 0, 0)
<1>1. CountsTyped /\ CountsTyped'
  BY Zenon DEF HoldInv, CountsTyped, history
<1>2. ASSUME NEW p \in Policies, NEW c \in Customers
      PROVE  /\ Spent(p, c)' = Spent(p, c) + At(p, c, P, C, 0, 0)
             /\ Earned(p, c)' = Earned(p, c) + At(p, c, P, C, 0, 0)
  <2>1. Spent(p, c)' = Spent(p, c) /\ Earned(p, c)' = Earned(p, c)
    BY Zenon DEF history, Spent, Earned
  <2>2. Spent(p, c) \in Nat /\ Earned(p, c) \in Nat
    BY <1>1, CountTypes
  <2>3. At(p, c, P, C, 0, 0) = 0
    BY Zenon DEF At
  <2> QED BY <2>1, <2>2, <2>3
<1> QED BY <1>1, <1>2, Zenon DEF CountsMove

\* A step that pays, earns and owes nothing; it may give up a token it took.
LEMMA QuietStep ==
  ASSUME RetryConstants, HoldInv,
         NEW q \in Requests, NEW label, NEW l, Moves(q, label, l),
         NEW P \in Policies, NEW C \in Clients,
         pc[q] # "idle" => req[q].policy = P /\ req[q].client = C,
         label # "idle" => l.policy = P /\ l.client = C,
         \A o : Purse(budgets', o) = Purse(budgets, o), UNCHANGED history,
         NotDue(pc[q]), NotDue(label), NotTaken(label)
  PROVE  TakesTurn(q)
<1>1. PursesGo(P, C, 0, 0) /\ CountsMove(P, C, 0, 0)
  BY CountsStay, Zenon DEF PursesGo
<1>2. RoutePercent[P] \in Nat /\ ClientPercent[P] \in Nat
  BY DEF RetryConstants
<1>3. Pays(RoutePercent[P], 0, 0, TakenAt(label) - TakenAt(pc[q]),
           RouteDueAt(label) - RouteDueAt(pc[q]), 0)
  BY <1>2 DEF Pays, TakenAt, RouteDueAt, One, NotDue, NotTaken
<1>4. Pays(ClientPercent[P], 0, 0, 0, ClientDueAt(label) - ClientDueAt(pc[q]), 0)
  BY <1>2 DEF Pays, ClientDueAt, One, NotDue
<1>5. TakesTurn(q)
  BY <1>1, <1>3, <1>4, Numbers, TurnTaken, Zenon
<1> QED BY <1>5, Zenon

LEMMA BudgetReplaced ==
  ASSUME HoldInv, NEW p, NEW c, NEW j,
         OwnedBy(budgets, j, p, c), NEW b \in BudgetRecords,
         b.owner = budgets[j].owner, b.percent = budgets[j].percent,
         NEW d \in Int, Worth(b) <= Worth(budgets[j]) + d,
         Replaces(j, b)
  PROVE  BudgetsHeld(budgets') /\ Extends(budgets, budgets') /\ Refills(p, c, d)
<1>1. /\ budgets \in Seq(BudgetRecords)
      /\ \A i \in 1..Len(budgets) : budgets[i].percent = Percent(budgets[i].owner)
  BY Zenon DEF HoldInv, BudgetsHeld
<1>2. j \in 1..Len(budgets) /\ budgets[j].owner = Owner(p, c)
  BY Zenon DEF OwnedBy
<1>3. /\ budgets' \in Seq(BudgetRecords) /\ Len(budgets') = Len(budgets) /\ budgets'[j] = b
      /\ \A i \in 1..Len(budgets) : i # j => budgets'[i] = budgets[i]
  BY <1>1, <1>2 DEF Replaces
<1>4. BudgetsHeld(budgets') /\ Extends(budgets, budgets')
  <2>1. \A i \in 1..Len(budgets) : /\ budgets'[i].owner = budgets[i].owner
                                   /\ budgets'[i].percent = budgets[i].percent
    BY <1>3, Zenon
  <2>2. Len(budgets) <= Len(budgets')
    BY <1>1, <1>3
  <2> QED BY <1>1, <1>3, <2>1, <2>2, Zenon DEF BudgetsHeld, Extends
<1> QED BY <1>4, Zenon DEF Refills

\* What is known of a request past its bucket.
LEMMA PastBucket ==
  ASSUME HoldInv, NEW q \in Requests, pc[q] # "idle", pc[q] # "bucket"
  PROVE  /\ req[q].client \in Clients /\ req[q].policy \in Policies
         /\ OwnedBy(budgets, req[q].budget, req[q].policy, None)
         /\ OwnedBy(budgets, req[q].clientBudget, req[q].policy, req[q].client)
         /\ \A label : LocalsHeld(budgets, caps, label, req[q])
         /\ \A i, p, c : OwnedBy(budgets, i, p, c) =>
              budgets[i] \in BudgetRecords /\ budgets[i].percent = Percent(Owner(p, c))
<1>1. LocalsHeld(budgets, caps, pc[q], req[q]) /\ BudgetsHeld(budgets)
  BY Zenon DEF HoldInv
<1>2. /\ req[q].client \in Clients /\ req[q].policy \in Policies
      /\ OwnedBy(budgets, req[q].budget, req[q].policy, None)
      /\ OwnedBy(budgets, req[q].clientBudget, req[q].policy, req[q].client)
      /\ \A label : LocalsHeld(budgets, caps, label, req[q])
  BY <1>1, Zenon DEF LocalsHeld
<1>3. ASSUME NEW i, NEW p, NEW c, OwnedBy(budgets, i, p, c)
      PROVE  budgets[i] \in BudgetRecords /\ budgets[i].percent = Percent(Owner(p, c))
  BY <1>1, <1>3 DEF BudgetsHeld, OwnedBy
<1> QED BY <1>2, <1>3, Zenon

-----------------------------------------------------------------------------
(* Each step keeps the ownership and pays for itself.                       *)
\* What a step adds when it counts one for the request's policy and client.
LEMMA AtOne ==
  ASSUME RetryConstants, NEW P, NEW C \in Clients, NEW p, NEW c \in Customers
  PROVE  /\ At(p, c, P, C, 0, 0) = 0
         /\ c = None => At(p, c, P, C, 1, 1) = IF p = P THEN 1 ELSE 0
         /\ c # None => c \in Clients /\ At(p, c, P, C, 1, 1) = IF p = P /\ c = C THEN 1 ELSE 0
BY Zenon DEF At, RetryConstants, Customers

LEMMA SucceedCounts ==
  ASSUME RetryConstants, HoldInv, NEW q \in Requests, Succeed(q),
         req[q].policy \in Policies, req[q].client \in Clients
  PROVE  CountsTyped' /\ CountsMove(req[q].policy, req[q].client, 0, 1)
<1> DEFINE P == req[q].policy
           C == req[q].client
<1>1. /\ successes' = [successes EXCEPT ![P][C] = @ + 1] /\ retries' = retries
      /\ routeSuccesses' = [routeSuccesses EXCEPT ![P] = @ + 1] /\ routeRetries' = routeRetries
  BY Zenon DEF Succeed
<1>2. CountsTyped
  BY Zenon DEF HoldInv
<1> HIDE DEF P, C
<1>3. P \in Policies /\ C \in Clients
  BY Zenon DEF P, C
<1>4. /\ successes' \in [Policies -> [Clients -> Nat]] /\ routeSuccesses' \in [Policies -> Nat]
      /\ \A p \in Policies, c \in Clients : /\ successes[p][c] \in Nat
           /\ successes'[p][c] = IF p = P /\ c = C THEN successes[p][c] + 1 ELSE successes[p][c]
      /\ \A p \in Policies : /\ routeSuccesses[p] \in Nat
           /\ routeSuccesses'[p] = IF p = P THEN routeSuccesses[p] + 1 ELSE routeSuccesses[p]
  BY <1>1, <1>2, <1>3 DEF CountsTyped
<1>5. CountsTyped'
  BY <1>1, <1>2, <1>4, Zenon DEF CountsTyped
<1>6. ASSUME NEW p \in Policies, NEW c \in Customers
      PROVE  /\ Spent(p, c)' = Spent(p, c) + At(p, c, P, C, 0, 0)
             /\ Earned(p, c)' = Earned(p, c) + At(p, c, P, C, 1, 1)
  <2>1. Spent(p, c)' = Spent(p, c) /\ Spent(p, c) \in Nat
    BY <1>1, <1>2, CountTypes, Zenon DEF Spent
  <2>2. At(p, c, P, C, 0, 0) = 0
    BY <1>3, AtOne
  <2>3. Earned(p, c)' = Earned(p, c) + At(p, c, P, C, 1, 1)
    BY <1>3, <1>4, AtOne DEF Earned
  <2> QED BY <2>1, <2>2, <2>3
<1> QED BY <1>5, <1>6, Zenon DEF CountsMove, P, C

LEMMA RetryCounts ==
  ASSUME RetryConstants, HoldInv, NEW q \in Requests, CountRetry(q),
         successes' = successes, routeSuccesses' = routeSuccesses,
         req[q].policy \in Policies, req[q].client \in Clients
  PROVE  CountsTyped' /\ CountsMove(req[q].policy, req[q].client, 1, 0)
<1> DEFINE P == req[q].policy
           C == req[q].client
<1>1. /\ retries' = [retries EXCEPT ![P][C] = @ + 1]
      /\ routeRetries' = [routeRetries EXCEPT ![P] = @ + 1]
  BY Zenon DEF CountRetry
<1>2. CountsTyped
  BY Zenon DEF HoldInv
<1> HIDE DEF P, C
<1>3. P \in Policies /\ C \in Clients
  BY Zenon DEF P, C
<1>4. /\ retries' \in [Policies -> [Clients -> Nat]] /\ routeRetries' \in [Policies -> Nat]
      /\ \A p \in Policies, c \in Clients : /\ retries[p][c] \in Nat
           /\ retries'[p][c] = IF p = P /\ c = C THEN retries[p][c] + 1 ELSE retries[p][c]
      /\ \A p \in Policies : /\ routeRetries[p] \in Nat
           /\ routeRetries'[p] = IF p = P THEN routeRetries[p] + 1 ELSE routeRetries[p]
  BY <1>1, <1>2, <1>3 DEF CountsTyped
<1>5. CountsTyped'
  BY <1>2, <1>4, Zenon DEF CountsTyped
<1>6. ASSUME NEW p \in Policies, NEW c \in Customers
      PROVE  /\ Spent(p, c)' = Spent(p, c) + At(p, c, P, C, 1, 1)
             /\ Earned(p, c)' = Earned(p, c) + At(p, c, P, C, 0, 0)
  <2>1. Earned(p, c)' = Earned(p, c) /\ Earned(p, c) \in Nat
    BY <1>2, CountTypes, Zenon DEF Earned
  <2>2. At(p, c, P, C, 0, 0) = 0
    BY <1>3, AtOne
  <2>3. Spent(p, c)' = Spent(p, c) + At(p, c, P, C, 1, 1)
    BY <1>3, <1>4, AtOne DEF Spent
  <2> QED BY <2>1, <2>2, <2>3
<1> QED BY <1>5, <1>6, Zenon DEF CountsMove, P, C

\* A success earns the percentage of both accounts, and leaves both due.
LEMMA SucceedTurns ==
  ASSUME RetryConstants, HoldInv, NEW q \in Requests, Succeed(q)
  PROVE  HoldInv' /\ TakesTurn(q)
<1> DEFINE P == req[q].policy
           C == req[q].client
<1>1. /\ pc[q] = "attempt" /\ budgets' = budgets /\ caps' = caps /\ entry' = entry
      /\ Goto(q, "recordRoute") /\ req' = req
  BY Zenon DEF Succeed
<1>2. P \in Policies /\ C \in Clients /\ LocalsHeld(budgets, caps, "recordRoute", req[q])
  BY <1>1, PastBucket, Zenon
<1>3. CountsTyped' /\ CountsMove(P, C, 0, 1)
  BY <1>2, SucceedCounts, Zenon
<1>4. Moves(q, "recordRoute", req[q])
  BY <1>1, GoesOn, Zenon
<1>5. BudgetsHeld(budgets') /\ Extends(budgets, budgets')
  BY <1>1 DEF HoldInv, BudgetsHeld, Extends
<1>6. HoldInv'
  BY <1>1, <1>2, <1>3, <1>4, <1>5, HoldSameCaps, Zenon
<1>7. PursesGo(P, C, 0, 0)
  BY <1>1, Zenon DEF PursesGo
<1>8. req[q].policy = P /\ req[q].client = C
  BY Zenon
<1> HIDE DEF P, C
<1>9. /\ Pays(RoutePercent[P], 0, 0, TakenAt("recordRoute") - TakenAt(pc[q]),
              RouteDueAt("recordRoute") - RouteDueAt(pc[q]), 1)
      /\ Pays(ClientPercent[P], 0, 0, 0, ClientDueAt("recordRoute") - ClientDueAt(pc[q]), 1)
  <2>1. RoutePercent[P] \in Nat /\ ClientPercent[P] \in Nat
    BY <1>2 DEF RetryConstants
  <2> QED BY <1>1, <2>1 DEF Pays, TakenAt, RouteDueAt, ClientDueAt, One
<1>10. TakesTurn(q)
  BY <1>2, <1>3, <1>4, <1>7, <1>8, <1>9, Numbers, TurnTaken, Zenon
<1> QED BY <1>6, <1>10, Zenon

\* The route's token is taken; without one the request ends.
LEMMA ConsumeRouteTurns ==
  ASSUME RetryConstants, HoldInv, NEW q \in Requests, ConsumeRoute(q)
  PROVE  HoldInv' /\ TakesTurn(q)
<1> DEFINE P == req[q].policy
           C == req[q].client
           j == req[q].budget
<1>1. pc[q] = "consumeRoute" /\ caps' = caps /\ entry' = entry /\ UNCHANGED history
  BY Zenon DEF ConsumeRoute
<1>2. /\ P \in Policies /\ C \in Clients /\ OwnedBy(budgets, j, P, None)
      /\ budgets[j] \in BudgetRecords /\ LocalsHeld(budgets, caps, "consumeClient", req[q])
  BY <1>1, PastBucket, Zenon
<1>3. CountsTyped' /\ CountsMove(P, C, 0, 0)
  BY <1>1, CountsStay, Zenon
<1>4. CASE ~CanConsume(budgets[j])
  <2>1. budgets' = budgets /\ Moves(q, "idle", Idle)
    BY <1>4, Ends, Zenon DEF ConsumeRoute
  <2>2. BudgetsHeld(budgets') /\ Extends(budgets, budgets')
    BY <2>1 DEF HoldInv, BudgetsHeld, Extends
  <2>3. HoldInv'
    BY <1>1, <1>3, <2>1, <2>2, HoldSameCaps, Zenon
  <2> QED BY <1>1, <1>2, <2>1, <2>3, Labels, QuietStep, Zenon
<1>5. CASE CanConsume(budgets[j])
  <2> DEFINE b == Consumed(budgets[j])
             d == -100
  <2>1. Replaces(j, b) /\ Moves(q, "consumeClient", req[q])
    BY <1>5, GoesOn, Zenon DEF ConsumeRoute, Replaces
  <2>2. /\ b \in BudgetRecords /\ b.owner = budgets[j].owner /\ b.percent = budgets[j].percent
        /\ d \in Int /\ Worth(b) <= Worth(budgets[j]) + d
    BY <1>2, <1>5, ConsumedWorth
  <2>3. req[q].policy = P /\ req[q].client = C /\ d = -100
    BY Zenon
  <2> HIDE DEF b, d, P, C, j
  <2>4. BudgetsHeld(budgets') /\ Extends(budgets, budgets') /\ PursesGo(P, C, d, 0)
    BY <1>2, <2>1, <2>2, BudgetReplaced, Zenon DEF PursesGo
  <2>5. HoldInv'
    BY <1>1, <1>2, <1>3, <2>1, <2>4, HoldSameCaps, Zenon
  <2>6. /\ Pays(RoutePercent[P], 0, d, TakenAt("consumeClient") - TakenAt(pc[q]),
                RouteDueAt("consumeClient") - RouteDueAt(pc[q]), 0)
        /\ Pays(ClientPercent[P], 0, 0, 0, ClientDueAt("consumeClient") - ClientDueAt(pc[q]), 0)
    <3>1. RoutePercent[P] \in Nat /\ ClientPercent[P] \in Nat
      BY <1>2 DEF RetryConstants
    <3> QED BY <1>1, <2>3, <3>1 DEF Pays, TakenAt, RouteDueAt, ClientDueAt, One
  <2>7. TakesTurn(q)
    BY <1>2, <1>3, <2>1, <2>2, <2>3, <2>4, <2>6, Numbers, TurnTaken, Zenon
  <2> QED BY <2>5, <2>7, Zenon
<1> QED BY <1>4, <1>5, Zenon

\* The client's token is taken and the retry counts; without one the request
\* ends, and the route's token with it.
LEMMA ConsumeClientTurns ==
  ASSUME RetryConstants, HoldInv, NEW q \in Requests, ConsumeClient(q)
  PROVE  HoldInv' /\ TakesTurn(q)
<1> DEFINE P == req[q].policy
           C == req[q].client
           j == req[q].clientBudget
<1>1. /\ pc[q] = "consumeClient" /\ caps' = caps /\ entry' = entry
      /\ successes' = successes /\ routeSuccesses' = routeSuccesses
  BY Zenon DEF ConsumeClient
<1>2. /\ P \in Policies /\ C \in Clients /\ OwnedBy(budgets, j, P, C)
      /\ budgets[j] \in BudgetRecords /\ LocalsHeld(budgets, caps, "attempt", req[q])
  BY <1>1, PastBucket, Zenon
<1>4. CASE ~CanConsume(budgets[j])
  <2>1. budgets' = budgets /\ Moves(q, "idle", Idle) /\ UNCHANGED history
    BY <1>1, <1>4, Ends, Zenon DEF ConsumeClient, history
  <2>2. BudgetsHeld(budgets') /\ Extends(budgets, budgets')
    BY <2>1 DEF HoldInv, BudgetsHeld, Extends
  <2>3. CountsTyped'
    BY <2>1, CountsStay, Zenon
  <2>4. HoldInv'
    BY <1>1, <2>1, <2>2, <2>3, HoldSameCaps, Zenon
  <2> QED BY <1>1, <1>2, <2>1, <2>4, Labels, QuietStep, Zenon
<1>5. CASE CanConsume(budgets[j])
  <2> DEFINE b == Consumed(budgets[j])
             d == -100
  <2>1. Replaces(j, b) /\ Moves(q, "attempt", req[q]) /\ CountRetry(q)
    BY <1>5, GoesOn, Zenon DEF ConsumeClient, Replaces
  <2>2. /\ b \in BudgetRecords /\ b.owner = budgets[j].owner /\ b.percent = budgets[j].percent
        /\ d \in Int /\ Worth(b) <= Worth(budgets[j]) + d
    BY <1>2, <1>5, ConsumedWorth
  <2>3. CountsTyped' /\ CountsMove(P, C, 1, 0)
    BY <1>1, <1>2, <2>1, RetryCounts, Zenon
  <2>4. req[q].policy = P /\ req[q].client = C /\ d = -100
    BY Zenon
  <2> HIDE DEF b, d, P, C, j
  <2>5. BudgetsHeld(budgets') /\ Extends(budgets, budgets') /\ PursesGo(P, C, 0, d)
    BY <1>2, <2>1, <2>2, BudgetReplaced, Zenon DEF PursesGo
  <2>6. HoldInv'
    BY <1>1, <1>2, <2>1, <2>3, <2>5, HoldSameCaps, Zenon
  <2>7. /\ Pays(RoutePercent[P], 1, 0, TakenAt("attempt") - TakenAt(pc[q]),
                RouteDueAt("attempt") - RouteDueAt(pc[q]), 0)
        /\ Pays(ClientPercent[P], 1, d, 0, ClientDueAt("attempt") - ClientDueAt(pc[q]), 0)
    <3>1. RoutePercent[P] \in Nat /\ ClientPercent[P] \in Nat
      BY <1>2 DEF RetryConstants
    <3> QED BY <1>1, <2>4, <3>1 DEF Pays, TakenAt, RouteDueAt, ClientDueAt, One
  <2>8. TakesTurn(q)
    BY <1>2, <2>1, <2>2, <2>3, <2>4, <2>5, <2>7, Numbers, TurnTaken, Zenon
  <2> QED BY <2>6, <2>8, Zenon
<1> QED BY <1>4, <1>5, Zenon

\* The route's budget gets what the success is worth to it.
LEMMA RecordRouteTurns ==
  ASSUME RetryConstants, HoldInv, NEW q \in Requests, RecordRoute(q)
  PROVE  HoldInv' /\ TakesTurn(q)
<1> DEFINE P == req[q].policy
           C == req[q].client
           j == req[q].budget
           d == RoutePercent[P]
<1>1. /\ pc[q] = "recordRoute" /\ caps' = caps /\ entry' = entry /\ UNCHANGED history
      /\ Goto(q, "recordClient") /\ req' = req
  BY Zenon DEF RecordRoute
<1>2. /\ P \in Policies /\ C \in Clients /\ OwnedBy(budgets, j, P, None)
      /\ budgets[j] \in BudgetRecords /\ budgets[j].percent = Percent(Owner(P, None))
      /\ LocalsHeld(budgets, caps, "recordClient", req[q])
  BY <1>1, PastBucket
<1>3. PICK b \in RecordSuccess(budgets[j]) : Replaces(j, b)
  BY Zenon DEF RecordRoute, Replaces
<1>4. req[q].policy = P /\ req[q].client = C /\ d = RoutePercent[P]
  BY Zenon
<1> HIDE DEF P, C, j, d
<1>5. None \in Customers
  BY Zenon DEF Customers
<1>6. budgets[j].percent = d /\ d \in Nat
  BY <1>2, <1>4, <1>5, OwnerType
<1>7. /\ b \in BudgetRecords /\ b.owner = budgets[j].owner /\ b.percent = budgets[j].percent
      /\ Worth(b) <= Worth(budgets[j]) + d /\ d \in Int
  BY <1>2, <1>6, RecordWorth
<1>8. BudgetsHeld(budgets') /\ Extends(budgets, budgets') /\ PursesGo(P, C, d, 0)
  BY <1>2, <1>3, <1>7, BudgetReplaced, Zenon DEF PursesGo
<1>9. CountsTyped' /\ CountsMove(P, C, 0, 0)
  BY <1>1, CountsStay, Zenon
<1>10. Moves(q, "recordClient", req[q])
  BY <1>1, GoesOn, Zenon
<1>11. HoldInv'
  BY <1>1, <1>2, <1>8, <1>9, <1>10, HoldSameCaps, Zenon
<1>12. /\ Pays(RoutePercent[P], 0, d, TakenAt("recordClient") - TakenAt(pc[q]),
               RouteDueAt("recordClient") - RouteDueAt(pc[q]), 0)
       /\ Pays(ClientPercent[P], 0, 0, 0, ClientDueAt("recordClient") - ClientDueAt(pc[q]), 0)
  <2>1. ClientPercent[P] \in Nat
    BY <1>2 DEF RetryConstants
  <2> QED BY <1>1, <1>4, <1>6, <2>1 DEF Pays, TakenAt, RouteDueAt, ClientDueAt, One
<1>13. TakesTurn(q)
  BY <1>2, <1>4, <1>7, <1>8, <1>9, <1>10, <1>12, Numbers, TurnTaken, Zenon
<1> QED BY <1>11, <1>13, Zenon

\* The client's budget gets what the success is worth to it.
LEMMA RecordClientTurns ==
  ASSUME RetryConstants, HoldInv, NEW q \in Requests, RecordClient(q)
  PROVE  HoldInv' /\ TakesTurn(q)
<1> DEFINE P == req[q].policy
           C == req[q].client
           j == req[q].clientBudget
           d == ClientPercent[P]
<1>1. /\ pc[q] = "recordClient" /\ caps' = caps /\ entry' = entry /\ UNCHANGED history
      /\ End(q)
  BY Zenon DEF RecordClient
<1>2. /\ P \in Policies /\ C \in Clients /\ OwnedBy(budgets, j, P, C)
      /\ budgets[j] \in BudgetRecords /\ budgets[j].percent = Percent(Owner(P, C))
  BY <1>1, PastBucket
<1>3. PICK b \in RecordSuccess(budgets[j]) : Replaces(j, b)
  BY Zenon DEF RecordClient, Replaces
<1>4. req[q].policy = P /\ req[q].client = C /\ d = ClientPercent[P]
  BY Zenon
<1> HIDE DEF P, C, j, d
<1>5. C \in Customers /\ C # None
  BY <1>2, Zenon DEF Customers, RetryConstants
<1>6. budgets[j].percent = d /\ d \in Nat
  BY <1>2, <1>4, <1>5, OwnerType
<1>7. /\ b \in BudgetRecords /\ b.owner = budgets[j].owner /\ b.percent = budgets[j].percent
      /\ Worth(b) <= Worth(budgets[j]) + d /\ d \in Int
  BY <1>2, <1>6, RecordWorth
<1>8. BudgetsHeld(budgets') /\ Extends(budgets, budgets') /\ PursesGo(P, C, 0, d)
  BY <1>2, <1>3, <1>7, BudgetReplaced, Zenon DEF PursesGo
<1>9. CountsTyped' /\ CountsMove(P, C, 0, 0)
  BY <1>1, CountsStay, Zenon
<1>10. Moves(q, "idle", Idle)
  BY <1>1, Ends, Zenon
<1>11. HoldInv'
  BY <1>1, <1>8, <1>9, <1>10, HoldSameCaps, Zenon
<1>12. /\ Pays(RoutePercent[P], 0, 0, TakenAt("idle") - TakenAt(pc[q]),
               RouteDueAt("idle") - RouteDueAt(pc[q]), 0)
       /\ Pays(ClientPercent[P], 0, d, 0, ClientDueAt("idle") - ClientDueAt(pc[q]), 0)
  <2>1. RoutePercent[P] \in Nat
    BY <1>2 DEF RetryConstants
  <2> QED BY <1>1, <1>4, <1>6, <2>1 DEF Pays, TakenAt, RouteDueAt, ClientDueAt, One
<1>13. TakesTurn(q)
  BY <1>2, <1>4, <1>7, <1>8, <1>9, <1>10, <1>12, Numbers, TurnTaken, Zenon
<1> QED BY <1>11, <1>13, Zenon

\* A failed attempt asks the budgets; any other ends the request.
LEMMA AttemptsTurn ==
  ASSUME RetryConstants, HoldInv, NEW q \in Requests, Fail(q) \/ GiveUp(q)
  PROVE  HoldInv' /\ TakesTurn(q)
<1>1. pc[q] = "attempt" /\ budgets' = budgets /\ caps' = caps /\ entry' = entry /\ UNCHANGED history
  BY Zenon DEF Fail, GiveUp
<1>2. /\ req[q].policy \in Policies /\ req[q].client \in Clients
      /\ LocalsHeld(budgets, caps, "consumeRoute", req[q])
  BY <1>1, PastBucket, Zenon
<1>3. CountsTyped' /\ BudgetsHeld(budgets') /\ Extends(budgets, budgets')
  BY <1>1, CountsStay DEF HoldInv, BudgetsHeld, Extends
<1>4. CASE Fail(q)
  <2>1. Moves(q, "consumeRoute", req[q])
    BY <1>4, GoesOn, Zenon DEF Fail
  <2>2. HoldInv'
    BY <1>1, <1>2, <1>3, <2>1, HoldSameCaps, Zenon
  <2> QED BY <1>1, <1>2, <2>1, <2>2, Labels, QuietStep, Zenon
<1>5. CASE GiveUp(q)
  <2>1. Moves(q, "idle", Idle)
    BY <1>5, Ends, Zenon DEF GiveUp
  <2>2. HoldInv'
    BY <1>1, <1>3, <2>1, HoldSameCaps, Zenon
  <2> QED BY <1>1, <1>2, <2>1, <2>2, Labels, QuietStep, Zenon
<1> QED BY <1>4, <1>5, Zenon

LEMMA BudgetsTurn ==
  ASSUME RetryConstants, HoldInv, NEW q \in Requests,
         NEW c \in Clients, NEW p \in Policies, Budgets(q, c, p)
  PROVE  HoldInv' /\ TakesTurn(q)
<1>1. pc[q] = "idle" /\ Goto(q, "bucket") /\ UNCHANGED history
  BY Zenon DEF Budgets
<1>2. /\ HoldInv' /\ \A o : Purse(budgets', o) = Purse(budgets, o)
      /\ \E l : Moves(q, "bucket", l) /\ l.policy = p /\ l.client = c
  <2>1. CASE ReuseEntry(q, c, p)
    <3>1. HoldInv' /\ \E l : Moves(q, "bucket", l) /\ l.policy = p /\ l.client = c
      BY <1>1, <2>1, HoldReuse, Zenon
    <3>2. budgets' = budgets
      BY <2>1, Zenon DEF ReuseEntry
    <3> QED BY <3>1, <3>2, Zenon
  <2>2. CASE NewEntry(q, c, p)
    BY <1>1, <2>2, HoldNewEntry
  <2> QED BY <2>1, <2>2, Zenon DEF Budgets
<1>3. PICK l : Moves(q, "bucket", l) /\ l.policy = p /\ l.client = c
  BY <1>2, Zenon
<1> QED BY <1>1, <1>2, <1>3, Labels, QuietStep, Zenon

LEMMA BucketTurns ==
  ASSUME RetryConstants, HoldInv, NEW q \in Requests, Bucket(q)
  PROVE  HoldInv' /\ TakesTurn(q)
<1>1. pc[q] = "bucket" /\ Goto(q, "attempt") /\ entry' = entry /\ UNCHANGED history
  BY Zenon DEF Bucket
<1>2. /\ HoldInv' /\ \A o : Purse(budgets', o) = Purse(budgets, o)
      /\ \E l : Moves(q, "attempt", l) /\ l.policy = req[q].policy /\ l.client = req[q].client
  <2>1. CASE KnownBucket(q)
    <3>1. /\ HoldInv' /\ \E l : /\ Moves(q, "attempt", l) /\ l.policy = req[q].policy
                                /\ l.client = req[q].client
      BY <1>1, <2>1, HoldKnownBucket, Zenon
    <3>2. budgets' = budgets
      BY <2>1, Zenon DEF KnownBucket
    <3> QED BY <3>1, <3>2, Zenon
  <2>2. CASE NewBucket(q)
    BY <1>1, <2>2, HoldNewBucket, Zenon
  <2> QED BY <2>1, <2>2, Zenon DEF Bucket
<1>3. PICK l : Moves(q, "attempt", l) /\ l.policy = req[q].policy /\ l.client = req[q].client
  BY <1>2, Zenon
<1>4. req[q].policy \in Policies /\ req[q].client \in Clients
  BY <1>1, AtBucket, Zenon
<1> QED BY <1>1, <1>2, <1>3, <1>4, Labels, QuietStep, Zenon

Rests == UNCHANGED <<budgets, pc, req, successes, retries, routeSuccesses, routeRetries>>

\* Every step keeps the ownership, and is a turn of a request or moves nothing.
LEMMA HoldNext ==
  ASSUME RetryConstants, HoldInv, [Next]_vars
  PROVE  HoldInv' /\ (Rests \/ \E q \in Requests : TakesTurn(q))
<1>1. ASSUME UNCHANGED <<budgets, caps, pc, req, history>>, entry' = entry \/ entry' = None
      PROVE  HoldInv' /\ Rests
  <2>1. UNCHANGED <<budgets, caps, pc, req, successes, retries, routeSuccesses, routeRetries>>
    BY <1>1, Zenon DEF history
  <2>2. EntryHeld(budgets', caps', entry')
    BY <1>1, <2>1, Zenon DEF HoldInv, EntryHeld
  <2> QED BY <2>1, <2>2, Zenon DEF HoldInv, CountsTyped, Rests
<1>2. CASE UNCHANGED vars
  BY <1>1, <1>2, Zenon DEF vars
<1>3. CASE Reap
  BY <1>1, <1>3, Zenon DEF Reap
<1>4. ASSUME NEW q \in Requests, RoundTrip(q) PROVE HoldInv' /\ TakesTurn(q)
  <2>1. ASSUME NEW c \in Clients, NEW p \in Policies, Budgets(q, c, p)
        PROVE  HoldInv' /\ TakesTurn(q)
    BY <2>1, BudgetsTurn, Zenon
  <2>2. CASE Bucket(q)
    BY <2>2, BucketTurns, Zenon
  <2>3. CASE Succeed(q)
    BY <2>3, SucceedTurns, Zenon
  <2>4. CASE Fail(q) \/ GiveUp(q)
    BY <2>4, AttemptsTurn, Zenon
  <2>5. CASE ConsumeRoute(q)
    BY <2>5, ConsumeRouteTurns, Zenon
  <2>6. CASE ConsumeClient(q)
    BY <2>6, ConsumeClientTurns, Zenon
  <2>7. CASE RecordRoute(q)
    BY <2>7, RecordRouteTurns, Zenon
  <2>8. CASE RecordClient(q)
    BY <2>8, RecordClientTurns, Zenon
  <2> QED BY <1>4, <2>1, <2>2, <2>3, <2>4, <2>5, <2>6, <2>7, <2>8, Zenon DEF RoundTrip
<1> QED BY <1>2, <1>3, <1>4, Zenon DEF Next

-----------------------------------------------------------------------------
(* What a turn does to the accounts.                                        *)
Balanced(a, r, w, k, n, s) == 100 * r + w + 100 * k + a * n <= a * s

LEMMA StaysBalanced ==
  ASSUME NEW a \in Nat, NEW r \in Nat, NEW w \in Nat, NEW k \in Nat, NEW n \in Nat, NEW s \in Nat,
         NEW x \in Int, NEW d \in Int, NEW dk \in Int, NEW dn \in Int, NEW y \in Int,
         NEW w2 \in Nat, w2 <= w + d, Balanced(a, r, w, k, n, s), Pays(a, x, d, dk, dn, y)
  PROVE  Balanced(a, r + x, w2, k + dk, n + dn, s + y)
<1>1. a * (n + dn) = a * n + a * dn /\ a * (s + y) = a * s + a * y
  OBVIOUS
<1>2. a * n \in Int /\ a * dn \in Int /\ a * s \in Int /\ a * y \in Int
  OBVIOUS
<1>3. 100 * r + w + 100 * k + a * n <= a * s /\ 100 * x + d + 100 * dk + a * dn <= a * y
  BY Zenon DEF Balanced, Pays
<1> QED BY <1>1, <1>2, <1>3 DEF Balanced

\* What q has taken, or is due to record, counts in its own accounts.
LEMMA PendingAt ==
  ASSUME NEW P, NEW C, C # None, NEW label, NEW l,
         label # "idle" => l.policy = P /\ l.client = C, NEW p, NEW c
  PROVE  /\ One(TakenBy(label, l, p, c)) = At(p, c, P, C, TakenAt(label), 0)
         /\ One(DueFor(label, l, p, c)) = At(p, c, P, C, RouteDueAt(label), ClientDueAt(label))
<1>1. One(TakenBy(label, l, p, c)) = At(p, c, P, C, TakenAt(label), 0)
  BY Zenon DEF One, TakenBy, At, TakenAt
<1>2. One(DueFor(label, l, p, c)) = At(p, c, P, C, RouteDueAt(label), ClientDueAt(label))
  BY Zenon DEF One, DueFor, At, RouteDueAt, ClientDueAt
<1> QED BY <1>1, <1>2, Zenon

\* What a turn does to an account, its own or any other, pays for itself.
LEMMA TurnPays ==
  ASSUME RetryConstants, NEW q, NEW label, NEW l, NEW P, NEW C, NEW x, NEW y, NEW d0, NEW d1,
         Turn(q, label, l, P, C, x, y, d0, d1), NEW p \in Policies, NEW c \in Customers
  PROVE  LET X == At(p, c, P, C, x, x)
             Y == At(p, c, P, C, y, y)
             D == At(p, c, P, C, d0, d1)
             K == One(TakenBy(label, l, p, c)) - One(TakenBy(pc[q], req[q], p, c))
             N == One(DueFor(label, l, p, c)) - One(DueFor(pc[q], req[q], p, c))
         IN  /\ X \in Int /\ Y \in Int /\ D \in Int /\ K \in Int /\ N \in Int
             /\ Pays(Percent(Owner(p, c)), X, D, K, N, Y)
<1> DEFINE a == Percent(Owner(p, c))
           X == At(p, c, P, C, x, x)
           Y == At(p, c, P, C, y, y)
           D == At(p, c, P, C, d0, d1)
           dt == TakenAt(label) - TakenAt(pc[q])
           dr == RouteDueAt(label) - RouteDueAt(pc[q])
           dc == ClientDueAt(label) - ClientDueAt(pc[q])
           K == At(p, c, P, C, dt, 0)
           N == At(p, c, P, C, dr, dc)
           K1 == One(TakenBy(label, l, p, c))
           K0 == One(TakenBy(pc[q], req[q], p, c))
           N1 == One(DueFor(label, l, p, c))
           N0 == One(DueFor(pc[q], req[q], p, c))
<1>1. /\ C # None
      /\ pc[q] # "idle" => req[q].policy = P /\ req[q].client = C
      /\ label # "idle" => l.policy = P /\ l.client = C
  BY Zenon DEF RetryConstants, Turn
<1>2. dt \in Int /\ dr \in Int /\ dc \in Int
  BY DEF TakenAt, RouteDueAt, ClientDueAt, One
<1>3. a \in Nat /\ (c = None => a = RoutePercent[p]) /\ (c # None => a = ClientPercent[p])
  BY OwnerType
<1>4. x \in Int /\ y \in Int /\ d0 \in Int /\ d1 \in Int
  BY Zenon DEF Turn
<1>5. Pays(RoutePercent[P], x, d0, dt, dr, y) /\ Pays(ClientPercent[P], x, d1, 0, dc, y)
  BY Zenon DEF Turn
<1>6. /\ K1 = At(p, c, P, C, TakenAt(label), 0)
      /\ N1 = At(p, c, P, C, RouteDueAt(label), ClientDueAt(label))
  BY <1>1, PendingAt
<1>7. /\ K0 = At(p, c, P, C, TakenAt(pc[q]), 0)
      /\ N0 = At(p, c, P, C, RouteDueAt(pc[q]), ClientDueAt(pc[q]))
  BY <1>1, PendingAt
<1> HIDE DEF K0, K1, N0, N1
<1>8. K1 - K0 = K /\ N1 - N0 = N
  BY <1>6, <1>7 DEF At, TakenAt, RouteDueAt, ClientDueAt, One
<1> HIDE DEF a, dt, dr, dc
<1>9. X \in Int /\ Y \in Int /\ D \in Int /\ K \in Int /\ N \in Int
  BY <1>2, <1>4 DEF At
<1>10. Pays(a, X, D, K, N, Y)
  <2>1. CASE p = P /\ c = None
    BY <1>3, <1>5, <2>1, Zenon DEF At
  <2>2. CASE p = P /\ c = C
    BY <1>1, <1>3, <1>5, <2>2, Zenon DEF At
  <2>3. CASE ~(p = P /\ c = None) /\ ~(p = P /\ c = C)
    <3>1. X = 0 /\ Y = 0 /\ D = 0 /\ K = 0 /\ N = 0
      BY <2>3, Zenon DEF At
    <3> HIDE DEF X, Y, D, K, N
    <3> QED BY <1>3, <3>1 DEF Pays
  <2> QED BY <2>1, <2>2, <2>3, Zenon
<1> HIDE DEF X, Y, D, K, N
<1> QED BY <1>8, <1>9, <1>10, Zenon DEF a, X, Y, D, K0, K1, N0, N1

====
