---------------------------- MODULE PluginFilter ----------------------------
(***************************************************************************)
(* One external filter in one phase: its breaker                           *)
(* (internal/plugin/breaker.go), the connection to its address in the      *)
(* plugin registry (internal/plugin/registry.go, client.go), and the       *)
(* requests that use both in a filter loop of proxy/plugins.go: GetBreaker *)
(* with the settings of the request's own route and snapshot, Allow,       *)
(* GetClient, the call of the filter, Report.                              *)
(*                                                                         *)
(* A breaker has a mutex, so each of its methods is one step; what         *)
(* interleaves is the call between Allow and Report.  The registry's mutex *)
(* is released while a connection is dialled.  The clock is a flag of the  *)
(* breaker: cooling says that openUntil is in the future.  A client that   *)
(* is closed and that nobody holds may stand for a later dial.             *)
(***************************************************************************)
EXTENDS Integers, FiniteSets

CONSTANTS
  Requests,   \* goroutines, each running the filter for one request after another
  Configs,    \* breaker settings that routes or snapshots give the filter:
              \* records [enabled, failures, probes]
  Clients,    \* connection objects; enough for every request, the map and Close
  None        \* no client

PluginFilterConstants ==
  /\ IsFiniteSet(Requests) /\ IsFiniteSet(Clients) /\ None \notin Clients
  /\ Cardinality(Clients) >= Cardinality(Requests) + 1
  /\ IsFiniteSet(Configs) /\ Configs # {}
  /\ Configs \subseteq [enabled : BOOLEAN, failures : Nat \ {0}, probes : Nat \ {0}]

ASSUME PluginFilterAssumption == PluginFilterConstants

VARIABLES
  breaker,        \* Registry.breakers[filterKey]
  listed,         \* Registry.clients[addr], or None
  open,           \* the connections that are not closed
  closing,        \* the connections Close took out of the map and has not closed
  stopped,        \* Close has been called
  sick,           \* the filter may fail
  pc, client

locals == <<pc, client>>
vars == <<breaker, listed, open, closing, stopped, sick, locals>>

MaxFailures ==
  CHOOSE n \in {cfg.failures : cfg \in Configs} : \A cfg \in Configs : cfg.failures <= n
MaxProbes == CHOOSE n \in {cfg.probes : cfg \in Configs} : \A cfg \in Configs : cfg.probes <= n

NewBreaker(cfg) ==
  [config |-> cfg, state |-> "closed", cooling |-> FALSE,
   fails |-> 0, inFlight |-> 0, success |-> 0]

\* (GetBreaker gives a breaker its settings before anybody asks it.)
Init ==
  /\ breaker = NewBreaker(CHOOSE cfg \in Configs : TRUE)
  /\ listed = None /\ open = {} /\ closing = {} /\ stopped = FALSE /\ sick = TRUE
  /\ pc = [r \in Requests |-> "idle"]
  /\ client = [r \in Requests |-> None]

Goto(r, from, to) == pc[r] = from /\ pc' = [pc EXCEPT ![r] = to]
Hold(r, c) == client' = [client EXCEPT ![r] = c]

-----------------------------------------------------------------------------
(* breaker.go, each method under the breaker's mutex.                      *)

\* Settings that disable the breaker reset it.
UpdateConfig(b, cfg) == IF cfg.enabled THEN [b EXCEPT !.config = cfg] ELSE NewBreaker(cfg)

\* Mutant of HalfOpen: the slots of the last half-open period stay taken.
HalfOpenKeepsSlots(b) ==
  IF b.state = "open" /\ ~b.cooling THEN [b EXCEPT !.state = "half", !.success = 0] ELSE b

\* Allow finds the open period over.
HalfOpen(b) ==
  IF b.state = "open" /\ ~b.cooling
  THEN [b EXCEPT !.state = "half", !.inFlight = 0, !.success = 0]
  ELSE b

Refuses(b) ==
  b.config.enabled /\ (b.state = "open" \/ (b.state = "half" /\ b.inFlight >= b.config.probes))

AfterAllow(b) ==
  LET h == IF b.config.enabled THEN HalfOpen(b) ELSE b IN
  IF b.config.enabled /\ h.state = "half" /\ ~Refuses(h) THEN [h EXCEPT !.inFlight = @ + 1] ELSE h

Opened(b) == [b EXCEPT !.state = "open", !.cooling = TRUE, !.success = 0]

\* Opening leaves consecutiveFails as it is: closing resets it.
ReportClosed(b, success) ==
  LET counted == [b EXCEPT !.fails = IF success THEN 0 ELSE @ + 1] IN
  IF ~success /\ counted.fails >= b.config.failures
  THEN Opened([counted EXCEPT !.inFlight = 0])
  ELSE counted

\* Mutant of FreeSlot: the report does not give the slot back.
KeepSlot(b) == b

\* A report takes a slot back whoever makes it, a probe or a call admitted earlier.
FreeSlot(b) == [b EXCEPT !.inFlight = IF @ > 0 THEN @ - 1 ELSE 0]

\* Mutant of ReportHalf: the successes are not counted.
ReportHalfUncounted(b, success) ==
  LET freed == FreeSlot(b) IN
  CASE ~success -> Opened([freed EXCEPT !.fails = 0])
    [] success /\ freed.success >= b.config.probes /\ freed.inFlight = 0 ->
         [freed EXCEPT !.state = "closed", !.fails = 0, !.success = 0, !.cooling = FALSE]
    [] OTHER -> freed

\* The breaker closes on enough successes, when no slot is taken (success is
\* only compared with the number of probes, and stops at the largest).
ReportHalf(b, success) ==
  LET freed == FreeSlot(b)
      counted == [freed EXCEPT !.success = IF @ < MaxProbes THEN @ + 1 ELSE @]
  IN CASE ~success -> Opened([freed EXCEPT !.fails = 0])
       [] success /\ counted.success >= b.config.probes /\ freed.inFlight = 0 ->
            [counted EXCEPT !.state = "closed", !.fails = 0, !.success = 0, !.cooling = FALSE]
       [] OTHER -> counted

AfterReport(b, success) ==
  CASE ~b.config.enabled \/ b.state = "open" -> b
    [] b.config.enabled /\ b.state = "closed" -> ReportClosed(b, success)
    [] OTHER -> ReportHalf(b, success)

-----------------------------------------------------------------------------
(* The filter loops.                                                       *)

Free == {"idle", "refused"}

GetBreaker(r, cfg) ==
  /\ pc[r] \in Free
  /\ pc' = [pc EXCEPT ![r] = "allow"]
  /\ breaker' = UpdateConfig(breaker, cfg)
  /\ UNCHANGED <<listed, open, closing, stopped, sick, client>>

\* A refused request goes on without the filter or is answered, by FailureMode.
Allow(r) ==
  /\ Goto(r, "allow", IF Refuses(HalfOpen(breaker)) THEN "refused" ELSE "lookup")
  /\ breaker' = AfterAllow(breaker)
  /\ UNCHANGED <<listed, open, closing, stopped, sick, client>>

\* GetClient: the first look into the map; the mutex is released before dialling.
GetClient(r) ==
  /\ Goto(r, "lookup", IF listed # None THEN "call" ELSE "dial")
  /\ Hold(r, listed)
  /\ UNCHANGED <<breaker, listed, open, closing, stopped, sick>>

\* A client object nobody refers to: what NewClient returns.
Fresh == Clients \ (open \cup closing \cup {listed} \cup {client[r] : r \in Requests})

Dial(r) ==
  LET c == CHOOSE x \in Fresh : TRUE IN
  /\ Fresh # {} /\ Goto(r, "dial", "list")
  /\ Hold(r, c)
  /\ open' = open \cup {c}
  /\ UNCHANGED <<breaker, listed, closing, stopped, sick>>

\* Mutant of ListClient: the map is not looked at again.
ListClientBlindly(r) ==
  /\ Goto(r, "list", "call")
  /\ listed' = client[r]
  /\ UNCHANGED <<breaker, open, closing, stopped, sick, client>>

\* Mutant of ListClient: the loser closes its connection and returns it.
ListClientOwn(r) ==
  /\ Goto(r, "list", "call")
  /\ listed' = IF listed = None THEN client[r] ELSE listed
  /\ open' = IF listed = None THEN open ELSE open \ {client[r]}
  /\ UNCHANGED <<breaker, closing, stopped, sick, client>>

\* The second look: another request's connection wins and one's own is closed.
ListClient(r) ==
  /\ Goto(r, "list", "call")
  /\ IF listed # None
     THEN /\ Hold(r, listed)
          /\ open' = open \ {client[r]}
          /\ UNCHANGED listed
     ELSE /\ listed' = client[r]
          /\ UNCHANGED <<open, client>>
  /\ UNCHANGED <<breaker, closing, stopped, sick>>

\* The call returns, or the dial fails, and the outcome is reported.  A call on
\* a closed connection fails.
Report(r, success) ==
  /\ pc[r] = "dial" => ~success
  /\ success => client[r] \in open
  /\ ~success => sick \/ (pc[r] = "call" /\ client[r] \notin open)
  /\ \E label \in {"dial", "call"} : Goto(r, label, "idle")
  /\ Hold(r, None)
  /\ breaker' = AfterReport(breaker, success)
  /\ UNCHANGED <<listed, open, closing, stopped, sick>>

-----------------------------------------------------------------------------
\* Close, called once by the server's stoppers, empties the map under the mutex
\* and closes the connections after it.
CloseTake ==
  /\ ~stopped /\ stopped' = TRUE
  /\ closing' = {listed} \ {None}
  /\ listed' = None
  /\ UNCHANGED <<breaker, open, sick, locals>>

CloseClient ==
  /\ \E c \in closing : closing' = closing \ {c} /\ open' = open \ {c}
  /\ UNCHANGED <<breaker, listed, stopped, sick, locals>>

\* openUntil passes.
CoolDown ==
  /\ breaker.cooling
  /\ breaker' = [breaker EXCEPT !.cooling = FALSE]
  /\ UNCHANGED <<listed, open, closing, stopped, sick, locals>>

\* The filter stops failing for good.
Heal ==
  /\ sick /\ sick' = FALSE
  /\ UNCHANGED <<breaker, listed, open, closing, stopped, locals>>

Step(r) ==
  \/ \E cfg \in Configs : GetBreaker(r, cfg)
  \/ Allow(r) \/ GetClient(r) \/ Dial(r) \/ ListClient(r)
  \/ \E success \in BOOLEAN : Report(r, success)

Next ==
  \/ CloseTake \/ CloseClient \/ Heal \/ CoolDown
  \/ \E r \in Requests : Step(r)

Spec == Init /\ [][Next]_vars

\* Clocks advance, every dial and every call ends within its timeout, and
\* requests for the filter keep arriving.
FairSpec ==
  /\ Spec /\ WF_vars(CoolDown)
  /\ \A r \in Requests : WF_vars(Step(r))

-----------------------------------------------------------------------------
Breakers ==
  [config : Configs, state : {"closed", "open", "half"}, fails : 0..MaxFailures,
   inFlight : 0..MaxProbes, success : 0..MaxProbes, cooling : BOOLEAN]

\* Types: a streak of failures stops at the largest threshold, the slots at the
\* largest HalfOpenProbes.
TypeOK ==
  /\ breaker \in Breakers
  /\ listed \in Clients \cup {None} /\ open \subseteq Clients /\ closing \subseteq Clients
  /\ stopped \in BOOLEAN /\ sick \in BOOLEAN
  /\ pc \in [Requests -> Free \cup {"allow", "lookup", "dial", "list", "call"}]
  /\ client \in [Requests -> Clients \cup {None}]

\* The requests between Allow and Report.
Calling == {r \in Requests : pc[r] \in {"lookup", "dial", "list", "call"}}

\* breaker.go Allow, Report: no probe slot is lost.  Whatever calls were admitted
\* before the breaker opened, was reconfigured or half-opened, a half-open breaker
\* counts no more slots than there are calls that will still report.
SlotsComeBack == breaker.state = "half" => breaker.inFlight <= Cardinality(Calling)

\* registry.go GetClient, Close: no connection leaks through the unlocked dial.
\* An open connection is the one in the map, in the hands of the request that
\* dialled it, or about to be closed by Close.
OpenIsAccountedFor ==
  open \subseteq {listed} \cup closing \cup {client[r] : r \in {q \in Requests : pc[q] = "list"}}

\* registry.go GetClient: until the registry is closed no request calls the filter
\* on a connection that the GetClient of another request has closed.
CalledIsOpen == ~stopped => \A r \in Requests : pc[r] = "call" => client[r] \in open

\* breaker.go Report: once the filter answers, refusals end, so that a fail-closed
\* route stops answering plugin_unavailable, although routes keep giving the
\* breaker different settings.  A breaker closes only on a report that leaves no
\* call in flight: this needs calls that do not overlap for ever.
RefusalsEnd ==
  <>~sick /\ []<>(Calling = {}) => <>[](\A r \in Requests : pc[r] # "refused")

\* The same without that condition, which fails: with overlapping probes the
\* breaker stays half-open and refuses the calls beyond HalfOpenProbes.
RefusalsEndAnyway == <>~sick => <>[](\A r \in Requests : pc[r] # "refused")
=============================================================================
