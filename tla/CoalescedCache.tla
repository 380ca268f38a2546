--------------------------- MODULE CoalescedCache ---------------------------
(***************************************************************************)
(* The cached path of proxy/handler.go with the memory store               *)
(* (internal/cache/memory.go) and the coalescer (internal/cache/           *)
(* coalesce.go) under it: look the key up, start or join a flight, go      *)
(* upstream, store the response, finish the flight.                        *)
(*                                                                         *)
(* A request runs once.  A response is named by the request that fetched   *)
(* it and a flight by the request that leads it.  Critical sections of the *)
(* two mutexes are one step each.                                          *)
(***************************************************************************)
EXTENDS Integers, FiniteSets

CONSTANTS
  Requests, Keys, None,
  Coalesced,     \* the keys of routes with CoalesceEnabled
  MaxFlights,
  TTL,
  MaxClock       \* bound on the clock

ASSUME CacheAssumption ==
  /\ IsFiniteSet(Requests) /\ None \notin Requests /\ Coalesced \subseteq Keys
  /\ MaxFlights \in Nat \ {0} /\ TTL \in Nat \ {0} /\ MaxClock \in Nat

VARIABLES
  clock,
  entries,       \* MemoryStore.entries: [by, expires], or None
  flights,       \* Coalescer.flights: the leader's name, or None
  result,        \* Flight.result and Flight.ok: the response, or None for not ok
  done,          \* Flight.done is closed
  key, pc,
  now,           \* the clock as Get read it
  joined,        \* the flight a follower waits for
  role,          \* what coalescing made of the request
  outcome,       \* what the round trip gave
  served         \* whose response the client got; None for an error

vars == <<clock, entries, flights, result, done, key, pc, now, joined, role, outcome, served>>
locals == <<key, now, joined, role, outcome, served>>
flightVars == <<flights, result, done>>

Goto(r, label) == pc' = [pc EXCEPT ![r] = label]

Init ==
  /\ clock = 0
  /\ entries = [k \in Keys |-> None]
  /\ flights = [k \in Keys |-> None]
  /\ result = [r \in Requests |-> None]
  /\ done = [r \in Requests |-> FALSE]
  /\ key \in [Requests -> Keys]
  /\ pc = [r \in Requests |-> "arrive"]
  /\ now = [r \in Requests |-> 0]
  /\ joined = [r \in Requests |-> None]
  /\ role = [r \in Requests |-> "none"]
  /\ outcome = [r \in Requests |-> "none"]
  /\ served = [r \in Requests |-> None]

Tick ==
  /\ clock < MaxClock
  /\ clock' = clock + 1
  /\ UNCHANGED <<entries, flightVars, locals, pc>>

-----------------------------------------------------------------------------
(* MemoryStore.Get reads the clock, then the entry under the read lock, and *)
(* deletes an expired entry in a second critical section.                   *)
GetNow(r) ==
  /\ pc[r] = "arrive"
  /\ now' = [now EXCEPT ![r] = clock]
  /\ Goto(r, "get")
  /\ UNCHANGED <<clock, entries, flightVars, key, joined, role, outcome, served>>

Get(r) ==
  LET entry == entries[key[r]] IN
  /\ pc[r] = "get"
  /\ \/ entry = None /\ Goto(r, "start") /\ UNCHANGED served
     \/ entry # None /\ now[r] > entry.expires /\ Goto(r, "delete") /\ UNCHANGED served
     \/ /\ entry # None /\ now[r] <= entry.expires
        /\ served' = [served EXCEPT ![r] = entry.by]
        /\ Goto(r, "end")
  /\ now' = [now EXCEPT ![r] = 0]
  /\ UNCHANGED <<clock, entries, flightVars, key, joined, role, outcome>>

Delete(r) ==
  /\ pc[r] = "delete"
  /\ entries' = [entries EXCEPT ![key[r]] = None]
  /\ Goto(r, "start")
  /\ UNCHANGED <<clock, flightVars, locals>>

-----------------------------------------------------------------------------
(* Coalescer.Start.                                                         *)
Alone(r) ==
  /\ role' = [role EXCEPT ![r] = "alone"]
  /\ Goto(r, "upstream")
  /\ UNCHANGED <<flights, joined>>

Follow(r) ==
  /\ flights[key[r]] # None
  /\ joined' = [joined EXCEPT ![r] = flights[key[r]]]
  /\ role' = [role EXCEPT ![r] = "follower"]
  /\ Goto(r, "wait")
  /\ UNCHANGED flights

Lead(r) ==
  /\ flights[key[r]] = None
  /\ flights' = [flights EXCEPT ![key[r]] = r]
  /\ role' = [role EXCEPT ![r] = "leader"]
  /\ Goto(r, "upstream")
  /\ UNCHANGED joined

FlightKeys == {k \in Keys : flights[k] # None}

Start(r) ==
  /\ pc[r] = "start"
  /\ \/ key[r] \notin Coalesced /\ Alone(r)
     \/ key[r] \in Coalesced /\ Follow(r)
     \/ /\ key[r] \in Coalesced /\ flights[key[r]] = None
        /\ Cardinality(FlightKeys) >= MaxFlights /\ Alone(r)
     \/ key[r] \in Coalesced /\ Cardinality(FlightKeys) < MaxFlights /\ Lead(r)
  /\ UNCHANGED <<clock, entries, result, done, key, now, outcome, served>>

(* Coalescer.Wait: the flight is done, or the timer fires.                  *)
WaitServed(r) ==
  /\ pc[r] = "wait" /\ done[joined[r]] /\ result[joined[r]] # None
  /\ served' = [served EXCEPT ![r] = result[joined[r]]]
  /\ Goto(r, "end")
  /\ UNCHANGED <<clock, entries, flightVars, key, now, joined, role, outcome>>

WaitFailed(r) ==
  /\ pc[r] = "wait" /\ done[joined[r]] /\ result[joined[r]] = None
  /\ role' = [role EXCEPT ![r] = "failedOver"]
  /\ Goto(r, "upstream")
  /\ UNCHANGED <<clock, entries, flightVars, key, now, joined, outcome, served>>

WaitTimeout(r) ==
  /\ pc[r] = "wait"
  /\ role' = [role EXCEPT ![r] = "breakaway"]
  /\ Goto(r, "upstream")
  /\ UNCHANGED <<clock, entries, flightVars, key, now, joined, outcome, served>>

-----------------------------------------------------------------------------
(* The round trip: no response, or an error reading its body; a response    *)
(* that a plugin replaces, or that may not be cached; or one that may.      *)
(* A panic on the way runs the deferred Finish like an early return.        *)
RoundTrip(r, out) ==
  /\ pc[r] = "upstream"
  /\ outcome' = [outcome EXCEPT ![r] = out]
  /\ served' = IF out = "error" THEN served ELSE [served EXCEPT ![r] = r]
  /\ Goto(r, IF out = "cacheable" THEN "set" ELSE "finish")
  /\ UNCHANGED <<clock, entries, flightVars, key, now, joined, role>>

\* MemoryStore.Set; it refuses a body over its own maxObjectBytes.
Set(r) ==
  /\ pc[r] = "set"
  /\ \/ entries' = [entries EXCEPT ![key[r]] = [by |-> r, expires |-> clock + TTL]]
     \/ UNCHANGED entries
  /\ Goto(r, "finish")
  /\ UNCHANGED <<clock, flightVars, locals>>

(* The leader's deferred Coalescer.Finish: the flight leaves the map, then  *)
(* gets its result, then is closed.  Others return.                         *)
Return(r) ==
  /\ pc[r] = "finish" /\ role[r] # "leader"
  /\ Goto(r, "end")
  /\ UNCHANGED <<clock, entries, flightVars, locals>>

\* Mutant of FinishDelete: only a cacheable response ends the flight.
FinishDeleteCacheable(r) ==
  /\ pc[r] = "finish" /\ role[r] = "leader"
  /\ flights' = IF outcome[r] = "cacheable" THEN [flights EXCEPT ![key[r]] = None] ELSE flights
  /\ Goto(r, "publish")
  /\ UNCHANGED <<clock, entries, result, done, locals>>

FinishDelete(r) ==
  /\ pc[r] = "finish" /\ role[r] = "leader"
  /\ flights' = IF flights[key[r]] = r THEN [flights EXCEPT ![key[r]] = None] ELSE flights
  /\ Goto(r, "publish")
  /\ UNCHANGED <<clock, entries, result, done, locals>>

\* Mutant of FinishPublish: any response is shared.
FinishPublishAny(r) ==
  /\ pc[r] = "publish"
  /\ result' = [result EXCEPT ![r] = IF outcome[r] = "error" THEN None ELSE r]
  /\ Goto(r, "close")
  /\ UNCHANGED <<clock, entries, flights, done, locals>>

FinishPublish(r) ==
  /\ pc[r] = "publish"
  /\ result' = [result EXCEPT ![r] = IF outcome[r] = "cacheable" THEN r ELSE None]
  /\ Goto(r, "close")
  /\ UNCHANGED <<clock, entries, flights, done, locals>>

\* Mutant of FinishClose: a flight without a response is not closed.
FinishNoClose(r) ==
  /\ pc[r] = "close"
  /\ done' = [done EXCEPT ![r] = result[r] # None]
  /\ Goto(r, "end")
  /\ UNCHANGED <<clock, entries, flights, result, locals>>

FinishClose(r) ==
  /\ pc[r] = "close"
  /\ done' = [done EXCEPT ![r] = TRUE]
  /\ Goto(r, "end")
  /\ UNCHANGED <<clock, entries, flights, result, locals>>

-----------------------------------------------------------------------------
Outcomes == {"error", "uncacheable", "cacheable"}

Progress(r) ==
  \/ GetNow(r) \/ Get(r) \/ Delete(r) \/ Start(r)
  \/ WaitServed(r) \/ WaitFailed(r)
  \/ \E out \in Outcomes : RoundTrip(r, out)
  \/ Set(r) \/ Return(r) \/ FinishDelete(r) \/ FinishPublish(r) \/ FinishClose(r)

Next == Tick \/ \E r \in Requests : Progress(r) \/ WaitTimeout(r)

Spec == Init /\ [][Next]_vars

-----------------------------------------------------------------------------
Labels == {"arrive", "get", "delete", "start", "wait", "upstream", "set", "finish", "publish",
           "close", "end"}
Roles == {"none", "alone", "leader", "follower", "failedOver", "breakaway"}

\* Types.
TypeOK ==
  /\ clock \in 0..MaxClock
  /\ entries \in [Keys -> {None} \cup [by : Requests, expires : 0..(MaxClock + TTL)]]
  /\ flights \in [Keys -> Requests \cup {None}]
  /\ result \in [Requests -> Requests \cup {None}] /\ done \in [Requests -> BOOLEAN]
  /\ key \in [Requests -> Keys] /\ pc \in [Requests -> Labels]
  /\ now \in [Requests -> 0..MaxClock] /\ joined \in [Requests -> Requests \cup {None}]
  /\ role \in [Requests -> Roles] /\ outcome \in [Requests -> Outcomes \cup {"none"}]
  /\ served \in [Requests -> Requests \cup {None}]

\* Get and Wait: a response reaches a client other than the one it was
\* fetched for only for the same key, and only if it was cacheable: an error
\* or a response with no-store is never shared, and a follower never reads a
\* flight before its result is there.
SharedOnlyIfCacheable ==
  \A r, s \in Requests :
    served[r] = s /\ s # r => key[s] = key[r] /\ outcome[s] = "cacheable"

\* Start and Finish: a flight in the map belongs to a leader that is still
\* going to finish it, so the map cannot fill up with dead flights and keep
\* later requests of the key waiting for nobody.
FlightHasLeader ==
  \A k \in Keys : flights[k] # None =>
    /\ key[flights[k]] = k /\ role[flights[k]] = "leader"
    /\ pc[flights[k]] \in {"upstream", "set", "finish"}

\* Wait and Finish: a follower is released even if its coalescing timer never
\* fires: the flight it waits for is closed, or its leader is still on the way
\* to close it, however the leader's round trip ended.
FollowerIsReleased ==
  \A r \in Requests : pc[r] = "wait" =>
    LET leader == joined[r] IN
    done[leader] \/ (role[leader] = "leader" /\ pc[leader] # "end")

\* README.md: request coalescing prevents cache stampedes, so that of the
\* requests of a coalesced key that have not timed out, and were not turned
\* away by a full map, at most one is upstream at a time.
NoStampede ==
  \A k \in Keys :
    Cardinality({r \in Requests : /\ key[r] = k /\ pc[r] = "upstream"
                                  /\ role[r] \in {"leader", "failedOver"}}) <= 1
=============================================================================
