----------------------------- MODULE Semaphore -----------------------------
(***************************************************************************)
(* What an overload limiter promises: at most Limit requests hold a slot,  *)
(* requests wait only while all slots are held, and a slot that is given   *)
(* up goes to the request that has waited longest, never to a newcomer.    *)
(***************************************************************************)
EXTENDS Integers, Sequences, FiniteSets

CONSTANTS Requests, Limit

VARIABLES
  holders,  \* requests that hold a slot
  waiters   \* requests that wait for one, oldest first

vars == <<holders, waiters>>

Init == holders = {} /\ waiters = <<>>

Enter(r) ==
  /\ r \notin holders /\ waiters = <<>>
  /\ Cardinality(holders) < Limit
  /\ holders' = holders \cup {r}
  /\ UNCHANGED waiters

Wait(r) ==
  /\ r \notin holders /\ \A i \in 1..Len(waiters) : waiters[i] # r
  /\ Cardinality(holders) = Limit
  /\ waiters' = Append(waiters, r)
  /\ UNCHANGED holders

GiveUp(r) ==
  /\ \E i \in 1..Len(waiters) :
       /\ waiters[i] = r
       /\ waiters' = SubSeq(waiters, 1, i - 1) \o SubSeq(waiters, i + 1, Len(waiters))
  /\ UNCHANGED holders

Leave(r) ==
  /\ r \in holders /\ waiters = <<>>
  /\ holders' = holders \ {r}
  /\ UNCHANGED waiters

HandOver(r) ==
  /\ r \in holders /\ waiters # <<>>
  /\ holders' = (holders \ {r}) \cup {Head(waiters)}
  /\ waiters' = Tail(waiters)

Next ==
  \E r \in Requests : Enter(r) \/ Wait(r) \/ GiveUp(r) \/ Leave(r) \/ HandOver(r)

Spec == Init /\ [][Next]_vars
=============================================================================
