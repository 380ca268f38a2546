------------------------------ MODULE Shutdown ------------------------------
(***************************************************************************)
(* Server.Shutdown (internal/server/server.go) against the connections it  *)
(* drains, with the InflightTracker (internal/runtime/inflight.go) that    *)
(* the handler counts its requests in and Shutdown waits on.               *)
(*                                                                         *)
(* The tracker counts with an atomic and signals with a channel that is    *)
(* replaced, under a mutex, when the count leaves 0 and closed, under the  *)
(* mutex, when it returns to 0: the two are separate steps.  Closing a     *)
(* closed channel panics; Dec does not defer its Unlock, so the mutex then *)
(* stays locked, while net/http recovers the panic and drops the           *)
(* connection.                                                             *)
(***************************************************************************)
EXTENDS Integers, FiniteSets

CONSTANTS
  Conns,        \* client connections, each with its goroutine
  MaxRequests   \* requests a connection carries in its life (a bound)

ShutdownConstants == IsFiniteSet(Conns) /\ MaxRequests \in Nat \ {0}
ASSUME ShutdownAssumption == ShutdownConstants

VARIABLES
  pc,           \* control point of a connection's goroutine
  sent,         \* requests the connection has carried
  count,        \* InflightTracker.count
  zeroCh,       \* InflightTracker.zeroCh, channels being numbered
  closed,       \* the closed channels
  locked,       \* InflightTracker.mu was left locked by a panic
  listening,    \* the listeners accept
  stocked,      \* the pools have their endpoints
  stage,        \* where Shutdown is
  waitCh,       \* the channel Wait selects on
  expired,      \* gracefulCtx is done
  older,        \* connections whose request was in flight when Shutdown began
  refused       \* connections one of whose requests found no endpoint

trackerVars == <<count, zeroCh, closed, locked>>
connVars == <<pc, sent, older, refused>>
serverVars == <<listening, stocked, stage, waitCh, expired>>
vars == <<trackerVars, connVars, serverVars>>

Goto(c, label) == pc' = [pc EXCEPT ![c] = label]

InRequest == {"incLock", "serving", "upstream", "decAdd", "decLock"}

\* NewInflightTracker closes the first channel.
Init ==
  /\ pc = [c \in Conns |-> "new"]
  /\ sent = [c \in Conns |-> 0]
  /\ count = 0 /\ zeroCh = 0 /\ closed = {0} /\ locked = FALSE
  /\ listening = TRUE /\ stocked = TRUE
  /\ stage = "running" /\ waitCh = 0 /\ expired = FALSE
  /\ older = {} /\ refused = {}

-----------------------------------------------------------------------------
(* Connections.                                                            *)

Accept(c) ==
  /\ pc[c] = "new" /\ listening
  /\ Goto(c, "open")
  /\ UNCHANGED <<trackerVars, sent, older, refused, serverVars>>

\* A request arrives on an open connection: Inc's atomic add.
IncAdd(c) ==
  /\ pc[c] = "open" /\ sent[c] < MaxRequests
  /\ sent' = [sent EXCEPT ![c] = @ + 1]
  /\ count' = count + 1
  /\ Goto(c, IF count' = 1 THEN "incLock" ELSE "serving")
  /\ UNCHANGED <<zeroCh, closed, locked, older, refused, serverVars>>

IncMake(c) ==
  /\ pc[c] = "incLock" /\ ~locked
  /\ zeroCh' = zeroCh + 1
  /\ Goto(c, "serving")
  /\ UNCHANGED <<count, closed, locked, sent, older, refused, serverVars>>

\* The handler asks the registry for an endpoint; a pool that was stopped has
\* none.
Pick(c) ==
  /\ pc[c] = "serving"
  /\ IF stocked THEN Goto(c, "upstream") /\ UNCHANGED refused
                ELSE Goto(c, "decAdd") /\ refused' = refused \cup {c}
  /\ UNCHANGED <<trackerVars, sent, older, serverVars>>

Respond(c) ==
  /\ pc[c] = "upstream"
  /\ Goto(c, "decAdd")
  /\ UNCHANGED <<trackerVars, sent, older, refused, serverVars>>

\* Mutant of DecAdd: the channel is closed when one request is left.
DecAddAtOne(c) ==
  /\ pc[c] = "decAdd"
  /\ count' = count - 1
  /\ Goto(c, IF count' = 1 THEN "decLock" ELSE "open")
  /\ older' = older \ {c}
  /\ UNCHANGED <<zeroCh, closed, locked, sent, refused, serverVars>>

\* The handler's last deferred call: Dec's atomic add.
DecAdd(c) ==
  /\ pc[c] = "decAdd"
  /\ count' = count - 1
  /\ Goto(c, IF count' = 0 THEN "decLock" ELSE "open")
  /\ older' = older \ {c}
  /\ UNCHANGED <<zeroCh, closed, locked, sent, refused, serverVars>>

DecClose(c) ==
  /\ pc[c] = "decLock" /\ ~locked
  /\ IF zeroCh \in closed
     THEN locked' = TRUE /\ Goto(c, "closed") /\ UNCHANGED closed
     ELSE closed' = closed \cup {zeroCh} /\ Goto(c, "open") /\ UNCHANGED locked
  /\ UNCHANGED <<count, zeroCh, sent, older, refused, serverVars>>

-----------------------------------------------------------------------------
(* Shutdown.                                                               *)

CloseListeners ==
  /\ stage = "running"
  /\ listening' = FALSE
  /\ stage' = "stoppers"
  /\ older' = {c \in Conns : pc[c] \in InRequest}
  /\ UNCHANGED <<trackerVars, pc, sent, refused, stocked, waitCh, expired>>

\* Registry.Stop empties every pool; the other stoppers stop reapers.  The
\* drain sleep and the closing of idle upstream connections follow, and then
\* gracefulCtx is created.
RunStoppers ==
  /\ stage = "stoppers"
  /\ stocked' = FALSE
  /\ stage' = "wait"
  /\ UNCHANGED <<trackerVars, connVars, listening, waitCh, expired>>

GracefulTimeout ==
  /\ stage \in {"wait", "select", "http"} /\ ~expired
  /\ expired' = TRUE
  /\ UNCHANGED <<trackerVars, connVars, listening, stocked, stage, waitCh>>

WaitLock ==
  /\ stage = "wait" /\ ~locked
  /\ waitCh' = zeroCh
  /\ stage' = "select"
  /\ UNCHANGED <<trackerVars, connVars, listening, stocked, expired>>

\* Mutant of WaitSelect: Wait does not select on its context.
WaitSelectNoTimeout ==
  /\ stage = "select"
  /\ waitCh \in closed
  /\ stage' = "http"
  /\ UNCHANGED <<trackerVars, connVars, listening, stocked, waitCh, expired>>

WaitSelect ==
  /\ stage = "select"
  /\ waitCh \in closed \/ expired
  /\ stage' = "http"
  /\ UNCHANGED <<trackerVars, connVars, listening, stocked, waitCh, expired>>

\* http.Server.Shutdown closes idle connections until none is left ...
HTTPCloseIdle(c) ==
  /\ stage = "http" /\ pc[c] = "open"
  /\ Goto(c, "closed")
  /\ UNCHANGED <<trackerVars, sent, older, refused, serverVars>>

\* Mutant of HTTPShutdown: the servers are left as they are once Wait has returned.
HTTPShutdownNoWait ==
  /\ stage = "http"
  /\ stage' = "returned"
  /\ UNCHANGED <<trackerVars, connVars, listening, stocked, waitCh, expired>>

\* ... or until its context ends.
HTTPShutdown ==
  /\ stage = "http"
  /\ expired \/ \A c \in Conns : pc[c] \in {"new", "closed"}
  /\ stage' = "returned"
  /\ UNCHANGED <<trackerVars, connVars, listening, stocked, waitCh, expired>>

\* Shutdown returns without error, or closes what is left and returns one.
Finish ==
  /\ stage = "returned"
  /\ stage' = IF expired THEN "forced" ELSE "drained"
  /\ UNCHANGED <<trackerVars, connVars, listening, stocked, waitCh, expired>>

-----------------------------------------------------------------------------
Connection(c) ==
  \/ Accept(c) \/ IncAdd(c) \/ IncMake(c) \/ Pick(c) \/ Respond(c)
  \/ DecAdd(c) \/ DecClose(c)

ShutdownSequence ==
  \/ CloseListeners \/ RunStoppers \/ WaitLock \/ WaitSelect
  \/ (\E c \in Conns : HTTPCloseIdle(c)) \/ HTTPShutdown \/ Finish

Next == (\E c \in Conns : Connection(c)) \/ ShutdownSequence \/ GracefulTimeout

Spec == Init /\ [][Next]_vars

(* The goroutine in Shutdown runs whenever it can and the timer fires;     *)
(* nothing is assumed of the clients and upstreams, which may be slow      *)
(* for ever.                                                               *)
FairSpec ==
  /\ Spec
  /\ WF_vars(RunStoppers \/ WaitLock \/ WaitSelect \/ HTTPShutdown \/ Finish)
  /\ WF_vars(GracefulTimeout)

-----------------------------------------------------------------------------
\* Types; the count of requests in flight is never negative.
TypeOK ==
  /\ pc \in [Conns -> InRequest \cup {"new", "open", "closed"}]
  /\ sent \in [Conns -> 0..MaxRequests]
  /\ count \in Nat /\ zeroCh \in Nat /\ closed \subseteq Nat /\ locked \in BOOLEAN
  /\ listening \in BOOLEAN /\ stocked \in BOOLEAN
  /\ stage \in {"running", "stoppers", "wait", "select", "http", "returned", "drained", "forced"}
  /\ waitCh \in Nat /\ expired \in BOOLEAN
  /\ older \subseteq Conns /\ refused \subseteq Conns

\* server.go shutdownSequence returns nil only when no request is being
\* served, even though inflight.Wait can return while some are.
DrainedMeansIdle == stage = "drained" => \A c \in Conns : pc[c] \notin InRequest

\* server.go shutdownSequence ends within its timeouts, whatever clients and
\* upstreams do, as long as Dec has not panicked.
ShutdownEndsUnlessPanic == (stage = "stoppers") ~> (stage \in {"drained", "forced"} \/ locked)

\* inflight.go: the channel Wait would be given now is open only while a
\* request is being counted in or out or served, so Wait does not sleep on an
\* idle server.
IdleTrackerSignals ==
  (\A c \in Conns : pc[c] \notin InRequest) => zeroCh \in closed

\* docs/RUNBOOK.md: the server exits after the configured shutdown timeouts.
ShutdownEnds == (stage = "stoppers") ~> (stage \in {"drained", "forced"})

\* docs/RUNBOOK.md: the server drains the requests in flight; none that was in
\* flight when the shutdown began is turned away.
InflightServed == older \cap refused = {}
=============================================================================
