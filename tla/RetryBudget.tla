---------------------------- MODULE RetryBudget ----------------------------
(***************************************************************************)
(* The retry budgets: retry.Budget, the per-client retry.ClientCap with    *)
(* its LRU list, the RetryRegistry that keeps one entry per route, and the *)
(* steps of Engine.roundTripWithRetry and retry.Execute that use them.     *)
(*                                                                         *)
(* One route, several clients.  Requests of an old and of a new snapshot   *)
(* run at the same time with different policies, so the entry is replaced, *)
(* or reaped, under requests that go on using the old budgets.  Every      *)
(* mutex section is a step; each budget and each cap has its own mutex.    *)
(***************************************************************************)
EXTENDS Integers, Sequences, FiniteSets

CONSTANTS
  Requests, Clients, None,
  Policies,        \* the retry policies of the snapshots in use
  RoutePercent,    \* PercentOfSuccesses of the route's budget, by policy
  ClientPercent,   \* and of each client's budget
  Burst, LRUSize,
  MaxSuccesses,    \* bound on the successful requests of each policy
  MaxBudgets       \* bound on the budgets that are created

RetryConstants ==
  /\ IsFiniteSet(Requests) /\ None \notin Clients
  /\ RoutePercent \in [Policies -> 0..100] /\ ClientPercent \in [Policies -> 0..100]
  /\ Burst \in Nat /\ LRUSize \in Nat \ {0}
  /\ MaxSuccesses \in Nat /\ MaxBudgets \in Nat

ASSUME RetryBudgetAssumption == RetryConstants

VARIABLES
  budgets,     \* every Budget ever created: [percent, tokens, accumulator], and for
               \* the properties whose it is: a policy's, or a client's under it
  caps,        \* every ClientCap: its policy and its order, the [client, budget]
               \* items, latest first
  entry,       \* r.routes[routeID]: None or [policy, budget, clientCap]
  pc,
  req,         \* the locals of a request: [client, policy, budget, clientCap, clientBudget]
  successes, retries,   \* history: by policy and client
  routeSuccesses, routeRetries    \* history: by policy

history == <<successes, retries, routeSuccesses, routeRetries>>
vars == <<budgets, caps, entry, pc, req, history>>

Idle == [client |-> None, policy |-> None, budget |-> 0, clientCap |-> 0, clientBudget |-> 0]

Init ==
  /\ budgets = <<>> /\ caps = <<>> /\ entry = None
  /\ pc = [q \in Requests |-> "idle"]
  /\ req = [q \in Requests |-> Idle]
  /\ successes = [p \in Policies |-> [c \in Clients |-> 0]]
  /\ retries = [p \in Policies |-> [c \in Clients |-> 0]]
  /\ routeSuccesses = [p \in Policies |-> 0]
  /\ routeRetries = [p \in Policies |-> 0]

Goto(q, label) == pc' = [pc EXCEPT ![q] = label]

-----------------------------------------------------------------------------
(* retry.Budget                                                             *)
Owner(p, c) == [policy |-> p, client |-> c]

NewBudget(percent, owner) ==
  [percent |-> percent, tokens |-> 0, accumulator |-> 0, owner |-> owner]

Add(b, whole) ==
  [b EXCEPT !.accumulator = @ + b.percent - 100 * whole,
            !.tokens = IF @ + whole > Burst THEN Burst ELSE @ + whole]

\* The accumulator, in hundredths.  It is a float64 in the code: ten times 0.1
\* stays below 1, so a sum of exactly 100 gives its token now or next time.
RecordSuccess(b) ==
  LET sum == b.accumulator + b.percent
  IN IF b.percent <= 0 \/ Burst <= 0 THEN {b}
     ELSE {Add(b, sum \div 100)} \cup (IF sum = 100 THEN {Add(b, 0)} ELSE {})

CanConsume(b) == b.tokens > 0

Consumed(b) == [b EXCEPT !.tokens = @ - 1]

-----------------------------------------------------------------------------
(* RetryRegistry.Budgets: an entry with another policy is replaced.         *)
EntryFor(p) == entry # None /\ entry.policy = p

ReuseEntry(q, c, p) ==
  /\ EntryFor(p)
  /\ req' = [req EXCEPT ![q] = [client |-> c, policy |-> p, budget |-> entry.budget,
                                clientCap |-> entry.clientCap, clientBudget |-> 0]]
  /\ UNCHANGED <<budgets, caps, entry>>

NewEntry(q, c, p) ==
  /\ ~EntryFor(p)
  /\ Len(budgets) < MaxBudgets
  /\ budgets' = Append(budgets, NewBudget(RoutePercent[p], Owner(p, None)))
  /\ caps' = Append(caps, [policy |-> p, order |-> <<>>])
  /\ entry' = [policy |-> p, budget |-> Len(budgets) + 1, clientCap |-> Len(caps) + 1]
  /\ req' = [req EXCEPT ![q] = [client |-> c, policy |-> p, budget |-> Len(budgets) + 1,
                                clientCap |-> Len(caps) + 1, clientBudget |-> 0]]

Budgets(q, c, p) ==
  /\ pc[q] = "idle"
  /\ ReuseEntry(q, c, p) \/ NewEntry(q, c, p)
  /\ Goto(q, "bucket")
  /\ UNCHANGED history

\* reapOnce finds the entry unused for longer than the ttl.
Reap ==
  /\ entry # None
  /\ entry' = None
  /\ UNCHANGED <<budgets, caps, pc, req, history>>

-----------------------------------------------------------------------------
(* ClientCap.Bucket                                                         *)
Places(q) ==
  LET cap == caps[req[q].clientCap]
  IN {i \in 1..Len(cap.order) : cap.order[i].client = req[q].client}

\* The client is in the map: its item moves to the front.
KnownBucket(q) ==
  LET k == req[q].clientCap
      order == caps[k].order
  IN \E i \in Places(q) :
       /\ caps' = [caps EXCEPT ![k].order =
                     <<order[i]>> \o SubSeq(order, 1, i - 1) \o SubSeq(order, i + 1, Len(order))]
       /\ req' = [req EXCEPT ![q].clientBudget = order[i].budget]
       /\ UNCHANGED budgets

\* It is not: a new budget goes to the front, and the last item is evicted.
NewBucket(q) ==
  LET k == req[q].clientCap
      id == Len(budgets) + 1
      order == <<[client |-> req[q].client, budget |-> id]>> \o caps[k].order
      owner == Owner(caps[k].policy, req[q].client)
  IN /\ Places(q) = {} /\ Len(budgets) < MaxBudgets
     /\ budgets' = Append(budgets, NewBudget(ClientPercent[caps[k].policy], owner))
     /\ caps' = [caps EXCEPT ![k].order =
                   IF Len(order) > LRUSize THEN SubSeq(order, 1, Len(order) - 1) ELSE order]
     /\ req' = [req EXCEPT ![q].clientBudget = id]

Bucket(q) ==
  /\ pc[q] = "bucket"
  /\ KnownBucket(q) \/ NewBucket(q)
  /\ Goto(q, "attempt")
  /\ UNCHANGED <<entry, history>>

-----------------------------------------------------------------------------
(* The attempts.  A response from 200 to 399 is a success; an error or a    *)
(* status that the policy retries asks the budgets; anything else ends the  *)
(* request.                                                                 *)
Succeed(q) ==
  /\ pc[q] = "attempt"
  /\ routeSuccesses[req[q].policy] < MaxSuccesses
  /\ successes' = [successes EXCEPT ![req[q].policy][req[q].client] = @ + 1]
  /\ routeSuccesses' = [routeSuccesses EXCEPT ![req[q].policy] = @ + 1]
  /\ Goto(q, "recordRoute")
  /\ UNCHANGED <<budgets, caps, entry, req, retries, routeRetries>>

Fail(q) ==
  /\ pc[q] = "attempt"
  /\ Goto(q, "consumeRoute")
  /\ UNCHANGED <<budgets, caps, entry, req, history>>

End(q) ==
  /\ Goto(q, "idle")
  /\ req' = [req EXCEPT ![q] = Idle]

GiveUp(q) ==
  /\ pc[q] = "attempt"
  /\ End(q)
  /\ UNCHANGED <<budgets, caps, entry, history>>

\* Mutant of ConsumeRoute: the token is looked at but not taken.
ConsumeRouteAnyway(q) ==
  /\ pc[q] = "consumeRoute"
  /\ IF CanConsume(budgets[req[q].budget])
     THEN Goto(q, "consumeClient") /\ UNCHANGED req
     ELSE End(q)
  /\ UNCHANGED <<budgets, caps, entry, history>>

\* consumeBudgets: first the route's token, then the client's; the first is
\* not given back when the second is refused.
ConsumeRoute(q) ==
  LET b == req[q].budget
  IN /\ pc[q] = "consumeRoute"
     /\ IF CanConsume(budgets[b])
        THEN /\ Goto(q, "consumeClient")
             /\ budgets' = [budgets EXCEPT ![b] = Consumed(@)]
             /\ UNCHANGED req
        ELSE End(q) /\ UNCHANGED budgets
     /\ UNCHANGED <<caps, entry, history>>

CountRetry(q) ==
  /\ retries' = [retries EXCEPT ![req[q].policy][req[q].client] = @ + 1]
  /\ routeRetries' = [routeRetries EXCEPT ![req[q].policy] = @ + 1]

\* Mutant of ConsumeClient: the client's refusal is not looked at.
ConsumeClientAnyway(q) ==
  LET b == req[q].clientBudget
  IN /\ pc[q] = "consumeClient"
     /\ Goto(q, "attempt")
     /\ budgets' = IF CanConsume(budgets[b]) THEN [budgets EXCEPT ![b] = Consumed(@)] ELSE budgets
     /\ CountRetry(q)
     /\ UNCHANGED <<caps, entry, req, successes, routeSuccesses>>

ConsumeClient(q) ==
  LET b == req[q].clientBudget
  IN /\ pc[q] = "consumeClient"
     /\ IF CanConsume(budgets[b])
        THEN /\ Goto(q, "attempt")
             /\ budgets' = [budgets EXCEPT ![b] = Consumed(@)]
             /\ CountRetry(q)
             /\ UNCHANGED req
        ELSE End(q) /\ UNCHANGED <<budgets, retries, routeRetries>>
     /\ UNCHANGED <<caps, entry, successes, routeSuccesses>>

RecordRoute(q) ==
  /\ pc[q] = "recordRoute"
  /\ \E b \in RecordSuccess(budgets[req[q].budget]) :
        budgets' = [budgets EXCEPT ![req[q].budget] = b]
  /\ Goto(q, "recordClient")
  /\ UNCHANGED <<caps, entry, req, history>>

RecordClient(q) ==
  /\ pc[q] = "recordClient"
  /\ \E b \in RecordSuccess(budgets[req[q].clientBudget]) :
        budgets' = [budgets EXCEPT ![req[q].clientBudget] = b]
  /\ End(q)
  /\ UNCHANGED <<caps, entry, history>>

-----------------------------------------------------------------------------
RoundTrip(q) ==
  \/ \E c \in Clients, p \in Policies : Budgets(q, c, p)
  \/ Bucket(q) \/ Succeed(q) \/ Fail(q) \/ GiveUp(q)
  \/ ConsumeRoute(q) \/ ConsumeClient(q) \/ RecordRoute(q) \/ RecordClient(q)

Next == (\E q \in Requests : RoundTrip(q)) \/ Reap

Spec == Init /\ [][Next]_vars

-----------------------------------------------------------------------------
Owners == [policy : Policies, client : Clients \cup {None}]

Budget == [percent : 0..100, tokens : 0..Burst, accumulator : 0..199, owner : Owners]

\* Types: a budget never holds more than its burst, nor less than nothing.
TypeOK ==
  /\ budgets \in Seq(Budget)
  /\ caps \in Seq([policy : Policies, order : Seq([client : Clients, budget : 1..Len(budgets)])])
  /\ entry = None \/ entry \in [policy : Policies, budget : 1..Len(budgets),
                                  clientCap : 1..Len(caps)]
  /\ pc \in [Requests -> {"idle", "bucket", "attempt", "consumeRoute", "consumeClient",
                          "recordRoute", "recordClient"}]
  /\ \A q \in Requests : pc[q] # "idle" =>
       /\ req[q].client \in Clients /\ req[q].policy \in Policies
       /\ req[q].budget \in 1..Len(budgets) /\ req[q].clientCap \in 1..Len(caps)
       /\ pc[q] # "bucket" => req[q].clientBudget \in 1..Len(budgets)
  /\ successes \in [Policies -> [Clients -> Nat]] /\ retries \in [Policies -> [Clients -> Nat]]
  /\ routeSuccesses \in [Policies -> Nat] /\ routeRetries \in [Policies -> Nat]

\* Budget, RetryRegistry (docs/FAILURE_MODES.md, request_timeout: no retries
\* beyond the budget): under one policy a route retries at most its percentage
\* of its successes, although entries are replaced and reaped while requests
\* hold their budgets.
RetriesWithinBudget ==
  \A p \in Policies : 100 * routeRetries[p] <= RoutePercent[p] * routeSuccesses[p]

\* ClientCap: neither does a client, although its bucket may be evicted and
\* made anew, and one client's successes never pay for another's retries.
RetriesWithinClientCap ==
  \A p \in Policies, c \in Clients : 100 * retries[p][c] <= ClientPercent[p] * successes[p][c]

=============================================================================
