---- MODULE RetryLedgerProofs ----
(***************************************************************************)
(* The accounts of RetryBudget: what a policy, and a client under it, may  *)
(* still spend is counted, and every turn of a request keeps it paid for.  *)
(***************************************************************************)
EXTENDS RetryBudgetProofs, FiniteSetTheorems

\* Elements i, a + 1 to i, b.
Slice(i, a, b) == {i} \X ((a + 1)..b)

LEMMA SliceSize ==
  ASSUME NEW i, NEW a \in Nat, NEW b \in Nat, a <= b
  PROVE  IsFiniteSet(Slice(i, a, b)) /\ Cardinality(Slice(i, a, b)) = b - a
<1> DEFINE T == (a + 1)..b
<1>1. IsFiniteSet(T) /\ Cardinality(T) = b - a
  <2>1. a + 1 \in Int /\ b \in Int
    OBVIOUS
  <2>2. IsFiniteSet(T) /\ Cardinality(T) = IF a + 1 > b THEN 0 ELSE b - (a + 1) + 1
    BY <2>1, FS_Interval, Zenon
  <2> QED BY <2>2
<1>2. IsFiniteSet({i}) /\ Cardinality({i}) = 1
  BY FS_Singleton, Zenon
<1>3. Slice(i, a, b) = {i} \X T
  BY Zenon DEF Slice
<1> HIDE DEF T
<1>4. IsFiniteSet({i} \X T) /\ Cardinality({i} \X T) = 1 * Cardinality(T)
  BY <1>1, <1>2, FS_Product, Zenon
<1> QED BY <1>1, <1>3, <1>4

\* One budget of the owner is worth more: its purse grows by that.
LEMMA PurseGrows ==
  ASSUME NEW bs \in Seq(BudgetRecords), NEW cs \in Seq(BudgetRecords), Len(cs) = Len(bs),
         NEW j \in 1..Len(bs), NEW o,
         \A i \in 1..Len(bs) : cs[i].owner = bs[i].owner,
         \A i \in 1..Len(bs) : i # j => Worth(cs[i]) = Worth(bs[i]),
         bs[j].owner = o, Worth(bs[j]) <= Worth(cs[j]),
         IsFiniteSet(Purse(bs, o))
  PROVE  /\ IsFiniteSet(Purse(cs, o))
         /\ Cardinality(Purse(cs, o)) = Cardinality(Purse(bs, o)) + Worth(cs[j]) - Worth(bs[j])
<1> DEFINE a == Worth(bs[j])
           b == Worth(cs[j])
           new == Slice(j, a, b)
<1>1. a \in Nat /\ b \in Nat /\ a <= b
  BY WorthType
<1>2. IsFiniteSet(new) /\ Cardinality(new) = b - a
  BY <1>1, SliceSize, Zenon
<1>3. ASSUME NEW x PROVE x \in new <=> \E k \in (a + 1)..b : x = <<j, k>>
  BY DEF Slice
<1>4. Purse(cs, o) = Purse(bs, o) \cup new
  <2>1. ASSUME NEW x \in Purse(cs, o) PROVE x \in Purse(bs, o) \cup new
    <3>1. PICK i \in 1..Len(bs) : cs[i].owner = o /\ \E k \in 1..Worth(cs[i]) : x = <<i, k>>
      BY <2>1, PurseMember
    <3>2. PICK k \in 1..Worth(cs[i]) : x = <<i, k>>
      BY <3>1, Zenon
    <3>3. CASE i # j \/ k <= a
      <4>1. k \in 1..Worth(bs[i])
        BY <1>1, <3>3
      <4> QED BY <3>1, <3>2, <4>1, PurseMember, Zenon
    <3>4. CASE i = j /\ k > a
      BY <1>1, <1>3, <3>2, <3>4
    <3> QED BY <1>1, <3>3, <3>4
  <2>2. ASSUME NEW x \in Purse(bs, o) PROVE x \in Purse(cs, o)
    <3>1. PICK i \in 1..Len(bs) : bs[i].owner = o /\ \E k \in 1..Worth(bs[i]) : x = <<i, k>>
      BY <2>2, PurseMember
    <3>2. PICK k \in 1..Worth(bs[i]) : x = <<i, k>>
      BY <3>1, Zenon
    <3>3. k \in 1..Worth(cs[i])
      BY <1>1
    <3> QED BY <3>1, <3>2, <3>3, PurseMember, Zenon
  <2>3. ASSUME NEW x \in new PROVE x \in Purse(cs, o)
    <3>1. PICK k \in (a + 1)..b : x = <<j, k>>
      BY <1>3, <2>3, Zenon
    <3>2. k \in 1..Worth(cs[j])
      BY <1>1
    <3> QED BY <3>1, <3>2, PurseMember, Zenon
  <2> QED BY <2>1, <2>2, <2>3, Zenon
<1>5. Purse(bs, o) \cap new = {}
  <2> SUFFICES ASSUME NEW x \in new, x \in Purse(bs, o) PROVE FALSE
    BY Zenon
  <2>1. PICK k \in (a + 1)..b : x = <<j, k>>
    BY <1>3, Zenon
  <2>2. PICK i \in 1..Len(bs) : \E m \in 1..Worth(bs[i]) : x = <<i, m>>
    BY PurseMember
  <2> QED BY <1>1, <2>1, <2>2
<1> HIDE DEF new, a, b
<1>6. /\ IsFiniteSet(Purse(cs, o))
      /\ Cardinality(Purse(cs, o)) = Cardinality(Purse(bs, o)) + Cardinality(new)
  <2>1. Cardinality(Purse(bs, o) \cap new) = 0
    BY <1>5, FS_EmptySet, Zenon
  <2>2. Cardinality(Purse(bs, o)) \in Nat /\ Cardinality(new) \in Nat
    BY <1>2, FS_CardinalityType, Zenon
  <2>3. /\ IsFiniteSet(Purse(bs, o) \cup new)
        /\ Cardinality(Purse(bs, o) \cup new) =
             Cardinality(Purse(bs, o)) + Cardinality(new) - Cardinality(Purse(bs, o) \cap new)
    BY <1>2, FS_Union, Zenon
  <2> QED BY <1>4, <2>1, <2>2, <2>3
<1>7. Cardinality(Purse(bs, o)) \in Nat
  BY FS_CardinalityType, Zenon
<1> QED BY <1>1, <1>2, <1>6, <1>7, Zenon DEF a, b

\* One budget of the owner changes, to at most d more: so does its purse.
LEMMA PurseChanges ==
  ASSUME NEW bs \in Seq(BudgetRecords), NEW cs \in Seq(BudgetRecords), Len(cs) = Len(bs),
         NEW j \in 1..Len(bs), \A i \in 1..Len(bs) : i # j => cs[i] = bs[i],
         cs[j].owner = bs[j].owner, NEW d \in Int, Worth(cs[j]) <= Worth(bs[j]) + d, NEW o,
         IsFiniteSet(Purse(bs, o))
  PROVE  /\ IsFiniteSet(Purse(cs, o))
         /\ Cardinality(Purse(cs, o)) \in Nat /\ Cardinality(Purse(bs, o)) \in Nat
         /\ o = bs[j].owner => Cardinality(Purse(cs, o)) <= Cardinality(Purse(bs, o)) + d
         /\ o # bs[j].owner => Cardinality(Purse(cs, o)) = Cardinality(Purse(bs, o))
<1>1. cs[j] \in BudgetRecords /\ bs[j] \in BudgetRecords
  OBVIOUS
<1>2. \A i \in 1..Len(bs) : cs[i].owner = bs[i].owner
  BY Zenon
<1>3. Worth(cs[j]) \in Nat /\ Worth(bs[j]) \in Nat
  BY <1>1, WorthType, Zenon
<1>4. CASE o # bs[j].owner
  <2>1. Purse(cs, o) = Purse(bs, o)
    BY <1>1, <1>2, <1>4, PurseSame
  <2> QED BY <1>4, <2>1, FS_CardinalityType, Zenon
<1>5. CASE o = bs[j].owner /\ Worth(bs[j]) <= Worth(cs[j])
  <2>1. /\ IsFiniteSet(Purse(cs, o))
        /\ Cardinality(Purse(cs, o)) = Cardinality(Purse(bs, o)) + Worth(cs[j]) - Worth(bs[j])
    BY <1>1, <1>2, <1>5, PurseGrows, Zenon
  <2>2. Cardinality(Purse(cs, o)) \in Nat /\ Cardinality(Purse(bs, o)) \in Nat
    BY <2>1, FS_CardinalityType, Zenon
  <2>3. Cardinality(Purse(cs, o)) <= Cardinality(Purse(bs, o)) + d
    BY <1>1, <1>3, <2>1, <2>2
  <2> QED BY <1>5, <2>1, <2>2, <2>3, Zenon
<1>6. CASE o = bs[j].owner /\ Worth(cs[j]) <= Worth(bs[j])
  <2>1. Purse(cs, o) \subseteq Purse(bs, o)
    <3> SUFFICES ASSUME NEW x \in Purse(cs, o) PROVE x \in Purse(bs, o)
      BY Zenon
    <3>1. PICK i \in 1..Len(bs) : cs[i].owner = o /\ \E k \in 1..Worth(cs[i]) : x = <<i, k>>
      BY <1>1, PurseMember
    <3>2. PICK k \in 1..Worth(cs[i]) : x = <<i, k>>
      BY <3>1, Zenon
    <3>3. k \in 1..Worth(bs[i])
      BY <1>1, <1>3, <1>6
    <3> QED BY <1>2, <3>1, <3>2, <3>3, PurseMember, Zenon
  <2>2. IsFiniteSet(Purse(cs, o))
    BY <2>1, FS_Subset, Zenon
  <2>3. Cardinality(Purse(bs, o)) = Cardinality(Purse(cs, o)) + Worth(bs[j]) - Worth(cs[j])
    BY <1>1, <1>2, <1>6, <2>2, PurseGrows
  <2>4. Cardinality(Purse(cs, o)) \in Nat /\ Cardinality(Purse(bs, o)) \in Nat
    BY <2>2, FS_CardinalityType, Zenon
  <2>5. Cardinality(Purse(cs, o)) <= Cardinality(Purse(bs, o)) + d
    BY <1>1, <1>3, <2>3, <2>4
  <2> QED BY <1>6, <2>2, <2>4, <2>5, Zenon
<1> QED BY <1>3, <1>4, <1>5, <1>6

Taken(p, c) == {q \in Requests : TakenBy(pc[q], req[q], p, c)}
Due(p, c) == {q \in Requests : DueFor(pc[q], req[q], p, c)}

\* The ledger: by policy and customer (None is the route itself) the hundredths
\* that were spent, are in a purse, were taken by a request that has not counted
\* its retry yet, or are due for a success that is not yet recorded, are no more
\* than what the successes earned.
Account(p, c) ==
  /\ IsFiniteSet(Purse(budgets, Owner(p, c)))
  /\ Balanced(Percent(Owner(p, c)), Spent(p, c), Cardinality(Purse(budgets, Owner(p, c))),
              Cardinality(Taken(p, c)), Cardinality(Due(p, c)), Earned(p, c))

Ledger == \A p \in Policies, c \in Customers : Account(p, c)

LedgerInv == HoldInv /\ Ledger

LEMMA OneMore ==
  ASSUME NEW S, NEW T, IsFiniteSet(S), NEW q, \A r : r # q => (r \in S <=> r \in T)
  PROVE  /\ Cardinality(S) \in Nat /\ Cardinality(T) \in Nat
         /\ Cardinality(T) = Cardinality(S) + (One(q \in T) - One(q \in S))
<1>1. CASE (q \in S) <=> (q \in T)
  <2>1. S = T
    BY <1>1
  <2>2. Cardinality(S) \in Nat
    BY FS_CardinalityType, Zenon
  <2> QED BY <1>1, <2>1, <2>2 DEF One
<1>2. CASE q \in S /\ q \notin T
  <2>1. T = S \ {q}
    BY <1>2, Zenon
  <2>2. IsFiniteSet(T) /\ Cardinality(T) = Cardinality(S) - 1
    BY <1>2, <2>1, FS_RemoveElement, Zenon
  <2>3. Cardinality(S) \in Nat /\ Cardinality(T) \in Nat
    BY <2>2, FS_CardinalityType, Zenon
  <2> QED BY <1>2, <2>2, <2>3 DEF One
<1>3. CASE q \notin S /\ q \in T
  <2>1. T = S \cup {q}
    BY <1>3, Zenon
  <2>2. IsFiniteSet(T) /\ Cardinality(T) = Cardinality(S) + 1
    BY <1>3, <2>1, FS_AddElement, Zenon
  <2>3. Cardinality(S) \in Nat /\ Cardinality(T) \in Nat
    BY <2>2, FS_CardinalityType, Zenon
  <2> QED BY <1>3, <2>2, <2>3 DEF One
<1> QED BY <1>1, <1>2, <1>3, Zenon

PursesMove(P, C, d0, d1) ==
  \A p \in Policies, c \in Customers :
    /\ IsFiniteSet(Purse(budgets', Owner(p, c)))
    /\ Cardinality(Purse(budgets', Owner(p, c))) <=
         Cardinality(Purse(budgets, Owner(p, c))) + At(p, c, P, C, d0, d1)

LEMMA PendingMoves ==
  ASSUME RetryConstants, NEW q \in Requests, NEW label, NEW l, Moves(q, label, l),
         NEW p, NEW c
  PROVE  /\ Cardinality(Taken(p, c)) \in Nat /\ Cardinality(Taken(p, c)') \in Nat
         /\ Cardinality(Due(p, c)) \in Nat /\ Cardinality(Due(p, c)') \in Nat
         /\ Cardinality(Taken(p, c)') = Cardinality(Taken(p, c))
              + (One(TakenBy(label, l, p, c)) - One(TakenBy(pc[q], req[q], p, c)))
         /\ Cardinality(Due(p, c)') = Cardinality(Due(p, c))
              + (One(DueFor(label, l, p, c)) - One(DueFor(pc[q], req[q], p, c)))
<1>1. IsFiniteSet(Requests)
  BY Zenon DEF RetryConstants
<1>2. /\ Taken(p, c) \subseteq Requests
      /\ \A r : r # q => (r \in Taken(p, c) <=> r \in Taken(p, c)')
      /\ q \in Taken(p, c) <=> TakenBy(pc[q], req[q], p, c)
      /\ q \in Taken(p, c)' <=> TakenBy(label, l, p, c)
  BY Zenon DEF Taken, Moves
<1>3. /\ Due(p, c) \subseteq Requests
      /\ \A r : r # q => (r \in Due(p, c) <=> r \in Due(p, c)')
      /\ q \in Due(p, c) <=> DueFor(pc[q], req[q], p, c)
      /\ q \in Due(p, c)' <=> DueFor(label, l, p, c)
  BY Zenon DEF Due, Moves
<1>4. IsFiniteSet(Taken(p, c)) /\ IsFiniteSet(Due(p, c))
  BY <1>1, <1>2, <1>3, FS_Subset, Zenon
<1>5. /\ Cardinality(Taken(p, c)) \in Nat /\ Cardinality(Taken(p, c)') \in Nat
      /\ Cardinality(Taken(p, c)') =
           Cardinality(Taken(p, c)) + (One(q \in Taken(p, c)') - One(q \in Taken(p, c)))
  BY <1>2, <1>4, OneMore
<1>6. /\ Cardinality(Due(p, c)) \in Nat /\ Cardinality(Due(p, c)') \in Nat
      /\ Cardinality(Due(p, c)') =
           Cardinality(Due(p, c)) + (One(q \in Due(p, c)') - One(q \in Due(p, c)))
  BY <1>3, <1>4, OneMore
<1> QED BY <1>2, <1>3, <1>5, <1>6, Zenon DEF One

\* Purses that do not change.
LEMMA PursesStay ==
  ASSUME Ledger, NEW P, NEW C, \A o : Purse(budgets', o) = Purse(budgets, o)
  PROVE  PursesMove(P, C, 0, 0)
<1> SUFFICES ASSUME NEW p \in Policies, NEW c \in Customers
             PROVE  /\ IsFiniteSet(Purse(budgets', Owner(p, c)))
                    /\ Cardinality(Purse(budgets', Owner(p, c))) <=
                         Cardinality(Purse(budgets, Owner(p, c))) + At(p, c, P, C, 0, 0)
  BY Zenon DEF PursesMove
<1>1. IsFiniteSet(Purse(budgets, Owner(p, c)))
  BY Zenon DEF Ledger, Account
<1>2. Cardinality(Purse(budgets, Owner(p, c))) \in Nat
  BY <1>1, FS_CardinalityType, Zenon
<1>3. At(p, c, P, C, 0, 0) = 0
  BY Zenon DEF At
<1> QED BY <1>1, <1>2, <1>3

\* The purse of one owner grows by at most d, the others stay.
OnePurse(p, c, d) ==
  \A r \in Policies, e \in Customers :
    /\ IsFiniteSet(Purse(budgets', Owner(r, e)))
    /\ Cardinality(Purse(budgets', Owner(r, e))) \in Nat
    /\ Cardinality(Purse(budgets, Owner(r, e))) \in Nat
    /\ r = p /\ e = c => Cardinality(Purse(budgets', Owner(r, e))) <=
                           Cardinality(Purse(budgets, Owner(r, e))) + d
    /\ r # p \/ e # c => Cardinality(Purse(budgets', Owner(r, e))) =
                           Cardinality(Purse(budgets, Owner(r, e)))

\* One budget, of the account (p, c), is replaced by one worth at most d more.
LEMMA PurseRefilled ==
  ASSUME HoldInv, Ledger, NEW p \in Policies, NEW c \in Customers, NEW d \in Int,
         Refills(p, c, d)
  PROVE  OnePurse(p, c, d)
<1>0. PICK j, b : /\ OwnedBy(budgets, j, p, c) /\ Replaces(j, b)
                  /\ b \in BudgetRecords /\ b.owner = budgets[j].owner
                  /\ Worth(b) <= Worth(budgets[j]) + d
  BY Zenon DEF Refills
<1>1. budgets \in Seq(BudgetRecords)
  BY Zenon DEF HoldInv, BudgetsHeld
<1>2. j \in 1..Len(budgets) /\ budgets[j].owner = Owner(p, c)
  BY <1>0, Zenon DEF OwnedBy
<1>3. /\ budgets' \in Seq(BudgetRecords) /\ Len(budgets') = Len(budgets) /\ budgets'[j] = b
      /\ \A i \in 1..Len(budgets) : i # j => budgets'[i] = budgets[i]
  BY <1>0, <1>1, <1>2 DEF Replaces
<1>4. ASSUME NEW r \in Policies, NEW e \in Customers
      PROVE  LET o == Owner(r, e)
             IN  /\ IsFiniteSet(Purse(budgets', o))
                 /\ Cardinality(Purse(budgets', o)) \in Nat /\ Cardinality(Purse(budgets, o)) \in Nat
                 /\ r = p /\ e = c => Cardinality(Purse(budgets', o)) <= Cardinality(Purse(budgets, o)) + d
                 /\ r # p \/ e # c => Cardinality(Purse(budgets', o)) = Cardinality(Purse(budgets, o))
  <2> DEFINE o == Owner(r, e)
  <2>1. IsFiniteSet(Purse(budgets, o))
    BY Zenon DEF Ledger, Account
  <2>2. r = p /\ e = c => o = budgets[j].owner
    BY <1>2, Zenon
  <2>3. r # p \/ e # c => o # budgets[j].owner
    BY <1>2, OwnersDiffer, Zenon
  <2> HIDE DEF o
  <2>4. budgets'[j].owner = budgets[j].owner /\ Worth(budgets'[j]) <= Worth(budgets[j]) + d
    BY <1>0, <1>3, Zenon
  <2>5. /\ IsFiniteSet(Purse(budgets', o))
        /\ Cardinality(Purse(budgets', o)) \in Nat /\ Cardinality(Purse(budgets, o)) \in Nat
        /\ o = budgets[j].owner => Cardinality(Purse(budgets', o)) <= Cardinality(Purse(budgets, o)) + d
        /\ o # budgets[j].owner => Cardinality(Purse(budgets', o)) = Cardinality(Purse(budgets, o))
    BY <1>1, <1>2, <1>3, <2>1, <2>4, PurseChanges
  <2> QED BY <2>2, <2>3, <2>5, Zenon DEF o
<1> QED BY <1>4, Zenon DEF OnePurse

LEMMA PursesGone ==
  ASSUME RetryConstants, HoldInv, Ledger, NEW P \in Policies, NEW C \in Clients,
         NEW d0 \in Int, NEW d1 \in Int, PursesGo(P, C, d0, d1)
  PROVE  PursesMove(P, C, d0, d1)
<1>1. None \in Customers /\ C \in Customers /\ C # None
  BY Zenon DEF RetryConstants, Customers
<1>2. CASE d0 = 0 /\ d1 = 0 /\ \A o : Purse(budgets', o) = Purse(budgets, o)
  BY <1>2, PursesStay, Zenon
<1>3. CASE d1 = 0 /\ Refills(P, None, d0)
  <2>1. OnePurse(P, None, d0)
    BY <1>1, <1>3, PurseRefilled, Zenon
  <2> QED BY <1>1, <1>3, <2>1 DEF OnePurse, PursesMove, At
<1>4. CASE d0 = 0 /\ Refills(P, C, d1)
  <2>1. OnePurse(P, C, d1)
    BY <1>1, <1>4, PurseRefilled, Zenon
  <2> QED BY <1>1, <1>4, <2>1 DEF OnePurse, PursesMove, At
<1> QED BY <1>2, <1>3, <1>4, Zenon DEF PursesGo

\* A turn of q keeps the ledger, since it pays for itself in every account.
LEMMA TurnKeepsLedger ==
  ASSUME RetryConstants, HoldInv, Ledger, NEW q \in Requests, TakesTurn(q)
  PROVE  Ledger'
<1> SUFFICES ASSUME NEW p \in Policies, NEW c \in Customers PROVE Account(p, c)'
  BY Zenon DEF Ledger
<1>1. PICK label, l, P, C, x, y, d0, d1 : Turn(q, label, l, P, C, x, y, d0, d1)
  BY Zenon DEF TakesTurn
<1> DEFINE a == Percent(Owner(p, c))
           w == Cardinality(Purse(budgets, Owner(p, c)))
           w2 == Cardinality(Purse(budgets', Owner(p, c)))
           k == Cardinality(Taken(p, c))
           k2 == Cardinality(Taken(p, c)')
           n == Cardinality(Due(p, c))
           n2 == Cardinality(Due(p, c)')
           r == Spent(p, c)
           r2 == Spent(p, c)'
           s == Earned(p, c)
           s2 == Earned(p, c)'
           X == At(p, c, P, C, x, x)
           Y == At(p, c, P, C, y, y)
           D == At(p, c, P, C, d0, d1)
           K == One(TakenBy(label, l, p, c)) - One(TakenBy(pc[q], req[q], p, c))
           N == One(DueFor(label, l, p, c)) - One(DueFor(pc[q], req[q], p, c))
<1>2. /\ Moves(q, label, l) /\ P \in Policies /\ C \in Clients /\ d0 \in Int /\ d1 \in Int
      /\ CountsMove(P, C, x, y) /\ PursesGo(P, C, d0, d1)
  BY <1>1, Zenon DEF Turn
<1>3. /\ X \in Int /\ Y \in Int /\ D \in Int /\ K \in Int /\ N \in Int
      /\ Pays(a, X, D, K, N, Y)
  BY <1>1, TurnPays, Zenon
<1>4. PursesMove(P, C, d0, d1)
  BY <1>2, PursesGone, Zenon
<1>5. r2 = r + X /\ s2 = s + Y
  BY <1>2, Zenon DEF CountsMove
<1>6. IsFiniteSet(Purse(budgets, Owner(p, c))) /\ Balanced(a, r, w, k, n, s)
  BY Zenon DEF Ledger, Account
<1>7. IsFiniteSet(Purse(budgets', Owner(p, c))) /\ w2 <= w + D
  BY <1>4, Zenon DEF PursesMove
<1>8. w \in Nat /\ w2 \in Nat
  BY <1>6, <1>7, FS_CardinalityType, Zenon
<1>9. k \in Nat /\ n \in Nat /\ k2 = k + K /\ n2 = n + N
  BY <1>2, PendingMoves
<1>10. a \in Nat /\ r \in Nat /\ s \in Nat
  BY OwnerType, CountTypes DEF HoldInv
<1> HIDE DEF a, w, w2, k, k2, n, n2, r, r2, s, s2, X, Y, D, K, N
<1>11. Balanced(a, r + X, w2, k + K, n + N, s + Y)
  BY <1>3, <1>6, <1>7, <1>8, <1>9, <1>10, StaysBalanced, Zenon
<1>12. Balanced(a, r2, w2, k2, n2, s2)
  BY <1>5, <1>9, <1>11, Zenon
<1> QED BY <1>7, <1>12, Zenon DEF Account, a, r2, w2, k2, n2, s2

LEMMA LedgerInit == RetryConstants /\ Init => Ledger
<1> SUFFICES ASSUME RetryConstants, Init, NEW p \in Policies, NEW c \in Customers
             PROVE  Account(p, c)
  BY Zenon DEF Ledger
<1>1. Purse(budgets, Owner(p, c)) = {}
  BY DEF Init, Purse
<1>2. Taken(p, c) = {} /\ Due(p, c) = {}
  BY Zenon DEF Init, Taken, Due, TakenBy, DueFor
<1>3. IsFiniteSet({}) /\ Cardinality({}) = 0
  BY FS_EmptySet, Zenon
<1>4. Spent(p, c) = 0 /\ Earned(p, c) = 0
  BY Zenon DEF Init, Spent, Earned, Customers
<1>5. Percent(Owner(p, c)) \in Nat
  BY OwnerType
<1>6. Balanced(Percent(Owner(p, c)), 0, 0, 0, 0, 0)
  BY <1>5 DEF Balanced
<1> QED BY <1>1, <1>2, <1>3, <1>4, <1>6, Zenon DEF Account

LEMMA LedgerNext == RetryConstants /\ LedgerInv /\ [Next]_vars => LedgerInv'
<1> SUFFICES ASSUME RetryConstants, HoldInv, Ledger, [Next]_vars PROVE HoldInv' /\ Ledger'
  BY Zenon DEF LedgerInv
<1>1. HoldInv' /\ (Rests \/ \E q \in Requests : TakesTurn(q))
  BY HoldNext, Zenon
<1>2. CASE Rests
  <2>1. ASSUME NEW p \in Policies, NEW c \in Customers PROVE Account(p, c)'
    <3>1. Taken(p, c)' = Taken(p, c) /\ Due(p, c)' = Due(p, c)
      BY <1>2, Zenon DEF Rests, Taken, Due
    <3>2. Spent(p, c)' = Spent(p, c) /\ Earned(p, c)' = Earned(p, c)
      BY <1>2, Zenon DEF Rests, Spent, Earned
    <3> QED BY <1>2, <3>1, <3>2, Zenon DEF Rests, Ledger, Account
  <2> QED BY <1>1, <2>1, Zenon DEF Ledger
<1>3. CASE \E q \in Requests : TakesTurn(q)
  BY <1>1, <1>3, TurnKeepsLedger, Zenon
<1> QED BY <1>1, <1>2, <1>3, Zenon

\* The rest of the account only adds to what was spent.
LEMMA SpentEarned ==
  ASSUME RetryConstants, LedgerInv, NEW p \in Policies, NEW c \in Customers
  PROVE  100 * Spent(p, c) <= Percent(Owner(p, c)) * Earned(p, c)
<1> DEFINE a == Percent(Owner(p, c))
           w == Cardinality(Purse(budgets, Owner(p, c)))
           k == Cardinality(Taken(p, c))
           n == Cardinality(Due(p, c))
           r == Spent(p, c)
           s == Earned(p, c)
<1>1. IsFiniteSet(Purse(budgets, Owner(p, c))) /\ Balanced(a, r, w, k, n, s)
  BY Zenon DEF LedgerInv, Ledger, Account
<1>2. IsFiniteSet(Taken(p, c)) /\ IsFiniteSet(Due(p, c))
  <2>1. Taken(p, c) \subseteq Requests /\ Due(p, c) \subseteq Requests /\ IsFiniteSet(Requests)
    BY Zenon DEF Taken, Due, RetryConstants
  <2> QED BY <2>1, FS_Subset, Zenon
<1>3. w \in Nat /\ k \in Nat /\ n \in Nat
  BY <1>1, <1>2, FS_CardinalityType, Zenon
<1>4. a \in Nat
  BY OwnerType
<1>5. r \in Nat /\ s \in Nat
  BY CountTypes, Zenon DEF LedgerInv, HoldInv
<1> HIDE DEF a, w, k, n, r, s
<1>6. a * n \in Nat /\ a * s \in Nat
  BY <1>3, <1>4, <1>5
<1>7. 100 * r <= a * s
  BY <1>1, <1>3, <1>5, <1>6 DEF Balanced
<1> QED BY <1>7, Zenon DEF a, r, s

\* RetriesWithinBudget, for any set of requests, clients and policies: what
\* Budget.Consume hands out under a policy was put there by Budget.RecordSuccess,
\* whatever entries Budgets replaces and reapOnce removes meanwhile.
THEOREM RouteBudgetHolds == ASSUME RetryConstants PROVE Spec => []RetriesWithinBudget
<1>1. Init => LedgerInv
  BY HoldInit, LedgerInit, Zenon DEF LedgerInv
<1>2. LedgerInv /\ [Next]_vars => LedgerInv'
  BY LedgerNext, Zenon
<1>3. LedgerInv => RetriesWithinBudget
  <2> SUFFICES ASSUME LedgerInv, NEW p \in Policies
               PROVE  100 * routeRetries[p] <= RoutePercent[p] * routeSuccesses[p]
    BY Zenon DEF RetriesWithinBudget
  <2>1. None \in Customers
    BY Zenon DEF Customers
  <2>2. Spent(p, None) = routeRetries[p] /\ Earned(p, None) = routeSuccesses[p]
    BY Zenon DEF Spent, Earned
  <2>3. Percent(Owner(p, None)) = RoutePercent[p]
    BY <2>1, OwnerType, Zenon
  <2>4. 100 * Spent(p, None) <= Percent(Owner(p, None)) * Earned(p, None)
    BY <2>1, SpentEarned, Zenon
  <2> QED BY <2>2, <2>3, <2>4, Zenon
<1> QED BY <1>1, <1>2, <1>3, PTL DEF Spec

\* RetriesWithinClientCap, for any set of requests, clients and policies and any
\* size of ClientCap's list: a client retries on its own successes only, through
\* every eviction of its bucket.
THEOREM ClientCapHolds == ASSUME RetryConstants PROVE Spec => []RetriesWithinClientCap
<1>1. Init => LedgerInv
  BY HoldInit, LedgerInit, Zenon DEF LedgerInv
<1>2. LedgerInv /\ [Next]_vars => LedgerInv'
  BY LedgerNext, Zenon
<1>3. LedgerInv => RetriesWithinClientCap
  <2> SUFFICES ASSUME LedgerInv, NEW p \in Policies, NEW c \in Clients
               PROVE  100 * retries[p][c] <= ClientPercent[p] * successes[p][c]
    BY Zenon DEF RetriesWithinClientCap
  <2>1. c \in Customers /\ c # None
    BY Zenon DEF Customers, RetryConstants
  <2>2. Spent(p, c) = retries[p][c] /\ Earned(p, c) = successes[p][c]
    BY <2>1, Zenon DEF Spent, Earned
  <2>3. Percent(Owner(p, c)) = ClientPercent[p]
    BY <2>1, OwnerType, Zenon
  <2>4. 100 * Spent(p, c) <= Percent(Owner(p, c)) * Earned(p, c)
    BY <2>1, SpentEarned, Zenon
  <2> QED BY <2>2, <2>3, <2>4, Zenon
<1> QED BY <1>1, <1>2, <1>3, PTL DEF Spec

====
