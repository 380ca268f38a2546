-------------------------- MODULE OverloadLimiter --------------------------
(***************************************************************************)
(* OverloadLimiter (internal/traffic/overload.go), as proxy/handler.go     *)
(* uses it: Acquire on entry, the returned release deferred to the end.    *)
(*                                                                         *)
(* Its state is two buffered channels used as semaphores.  A send on a     *)
(* full channel blocks, in arrival order, and a receive then hands the     *)
(* freed place straight to the first blocked sender, whose select has      *)
(* thereby chosen that case.                                               *)
(***************************************************************************)
EXTENDS Integers, Sequences, FiniteSets

CONSTANTS
  Requests,
  MaxInflight,   \* capacity of the channel inflight
  MaxQueue       \* capacity of the channel queue; 0 is the nil channel

ASSUME LimiterAssumption ==
  /\ IsFiniteSet(Requests)
  /\ MaxInflight \in Nat \ {0} /\ MaxQueue \in Nat

VARIABLES
  inflight,      \* len(l.inflight)
  queue,         \* len(l.queue)
  waiting,       \* requests blocked in the send to l.inflight, oldest first
  pc,
  wasQueued      \* the request got a place in the queue

vars == <<inflight, queue, waiting, pc, wasQueued>>

Goto(r, label) == pc' = [pc EXCEPT ![r] = label]

Init ==
  /\ inflight = 0 /\ queue = 0 /\ waiting = <<>>
  /\ pc = [r \in Requests |-> "idle"]
  /\ wasQueued = [r \in Requests |-> FALSE]

\* trySend(l.inflight), and when that fails trySend(l.queue).
Arrive(r) ==
  /\ pc[r] = "idle"
  /\ IF inflight < MaxInflight
     THEN inflight' = inflight + 1 /\ Goto(r, "holding")
     ELSE Goto(r, "full") /\ UNCHANGED inflight
  /\ wasQueued' = [wasQueued EXCEPT ![r] = FALSE]
  /\ UNCHANGED <<queue, waiting>>

Enqueue(r) ==
  /\ pc[r] = "full"
  /\ IF queue < MaxQueue
     THEN queue' = queue + 1 /\ Goto(r, "queued") /\ wasQueued' = [wasQueued EXCEPT ![r] = TRUE]
     ELSE Goto(r, "rejected") /\ UNCHANGED <<queue, wasQueued>>
  /\ UNCHANGED <<inflight, waiting>>

\* Mutant of Select: a request that finds no room waits for its timer only.
SelectTimerOnly(r) ==
  /\ pc[r] = "queued"
  /\ IF inflight < MaxInflight
     THEN inflight' = inflight + 1 /\ Goto(r, "granted")
     ELSE Goto(r, "waiting") /\ UNCHANGED inflight
  /\ UNCHANGED <<queue, waiting, wasQueued>>

\* The select, on entry: there is room by now, or the sender blocks.
Select(r) ==
  /\ pc[r] = "queued"
  /\ IF inflight < MaxInflight
     THEN inflight' = inflight + 1 /\ Goto(r, "granted") /\ UNCHANGED waiting
     ELSE waiting' = Append(waiting, r) /\ Goto(r, "waiting") /\ UNCHANGED inflight
  /\ UNCHANGED <<queue, wasQueued>>

\* The timer fires, or the request's context ends.
GiveUp(r) ==
  /\ \/ pc[r] = "queued" /\ UNCHANGED waiting
     \/ /\ pc[r] = "waiting"
        /\ \E i \in 1..Len(waiting) :
             /\ waiting[i] = r
             /\ waiting' = SubSeq(waiting, 1, i - 1) \o SubSeq(waiting, i + 1, Len(waiting))
  /\ Goto(r, "gaveUp")
  /\ UNCHANGED <<inflight, queue, wasQueued>>

\* Mutant of Dequeue: a request that is let through keeps its queue place.
DequeueGaveUpOnly(r) ==
  /\ pc[r] \in {"granted", "gaveUp"}
  /\ queue' = IF pc[r] = "granted" THEN queue ELSE queue - 1
  /\ Goto(r, IF pc[r] = "granted" THEN "holding" ELSE "rejected")
  /\ UNCHANGED <<inflight, waiting, wasQueued>>

\* <-l.queue, in every branch of the select.
Dequeue(r) ==
  /\ pc[r] \in {"granted", "gaveUp"}
  /\ queue' = queue - 1
  /\ Goto(r, IF pc[r] = "granted" THEN "holding" ELSE "rejected")
  /\ UNCHANGED <<inflight, waiting, wasQueued>>

\* <-l.inflight, by the deferred release.
ReleaseFree(r) ==
  /\ pc[r] = "holding" /\ waiting = <<>>
  /\ inflight' = inflight - 1
  /\ Goto(r, "idle")
  /\ UNCHANGED <<queue, waiting, wasQueued>>

\* Mutant of ReleaseToWaiter: the slot is freed and nobody is woken.
ReleaseToNobody(r) ==
  /\ pc[r] = "holding" /\ waiting # <<>>
  /\ inflight' = inflight - 1
  /\ Goto(r, "idle")
  /\ UNCHANGED <<queue, waiting, wasQueued>>

\* Mutant of ReleaseToWaiter: the slot goes to the youngest waiter.
ReleaseToLast(r) ==
  /\ pc[r] = "holding" /\ waiting # <<>>
  /\ pc' = [pc EXCEPT ![r] = "idle", ![waiting[Len(waiting)]] = "granted"]
  /\ waiting' = SubSeq(waiting, 1, Len(waiting) - 1)
  /\ UNCHANGED <<inflight, queue, wasQueued>>

ReleaseToWaiter(r) ==
  /\ pc[r] = "holding" /\ waiting # <<>>
  /\ pc' = [pc EXCEPT ![r] = "idle", ![Head(waiting)] = "granted"]
  /\ waiting' = Tail(waiting)
  /\ UNCHANGED <<inflight, queue, wasQueued>>

\* The handler answers 503 overloaded.
Reject(r) ==
  /\ pc[r] = "rejected"
  /\ Goto(r, "idle")
  /\ UNCHANGED <<inflight, queue, waiting, wasQueued>>

Release(r) == ReleaseFree(r) \/ ReleaseToWaiter(r)

Next ==
  \E r \in Requests :
    \/ Arrive(r) \/ Enqueue(r) \/ Select(r) \/ GiveUp(r) \/ Dequeue(r)
    \/ Release(r) \/ Reject(r)

Spec == Init /\ [][Next]_vars

(* A goroutine that is not blocked proceeds, and a request that holds a    *)
(* slot ends; the queue timer is not needed and not assumed.               *)
FairSpec ==
  /\ Spec
  /\ \A r \in Requests :
       WF_vars(Enqueue(r) \/ Select(r) \/ Dequeue(r) \/ Release(r) \/ Reject(r))

-----------------------------------------------------------------------------
Labels == {"idle", "full", "queued", "waiting", "granted", "gaveUp", "holding", "rejected"}

\* Types; neither channel holds fewer than none or more than its capacity.
TypeOK ==
  /\ inflight \in 0..MaxInflight /\ queue \in 0..MaxQueue
  /\ waiting \in Seq(Requests)
  /\ pc \in [Requests -> Labels]
  /\ wasQueued \in [Requests -> BOOLEAN]

Holders == {r \in Requests : pc[r] \in {"granted", "holding"}}

Queued == {r \in Requests : pc[r] \in {"queued", "waiting", "granted", "gaveUp"}}

\* Acquire: the requests that were let through and have not released are as
\* many as the channel counts, never more than MaxInflight, and a place in the
\* queue is given back exactly once on each of the three ways out of the
\* select, whatever timeouts race with hand-overs.
CountsExact ==
  /\ inflight = Cardinality(Holders) /\ inflight <= MaxInflight
  /\ queue = Cardinality(Queued)

\* Acquire: no slot is idle while a request is blocked waiting for one.
WorkConserving == waiting # <<>> => inflight = MaxInflight

\* Acquire: a queued request is let through, or gives up, even if its timer
\* never fires: newcomers do not overtake it for ever.
WaitingEnds == \A r \in Requests : (pc[r] = "waiting") ~> (pc[r] # "waiting")

\* Acquire and release implement a counting semaphore that serves its waiters
\* first come, first served: the holders are the requests let through, the
\* waiters those blocked in the send.
Slots == INSTANCE Semaphore WITH Limit <- MaxInflight, holders <- Holders, waiters <- waiting
SlotsSpec == Slots!Spec

\* docs/FAILURE_MODES.md, overloaded: the limiter rejects before queue
\* admission, so that a request that was queued is not rejected.
RejectedBeforeQueue == \A r \in Requests : pc[r] = "rejected" => ~wasQueued[r]
=============================================================================
