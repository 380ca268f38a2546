--------------------------- MODULE BundleHistory ---------------------------
(***************************************************************************)
(* The admin API's history of bundles (internal/admin/store.go), the       *)
(* handlers that install and roll back (admin/handlers.go), the stages of  *)
(* rollout.ApplyBundle as they show in the live snapshot, and the puller   *)
(* (internal/pull), which installs bundles without recording them.  The    *)
(* puller gets its bundles from a distributor (internal/distributor) that  *)
(* reads the files of a bundle.FileStorage (internal/bundle/storage.go)    *)
(* while a publisher writes them.                                          *)
(*                                                                         *)
(* A handler installs first and records afterwards; nothing serialises     *)
(* two calls.  How an installation fails is in ConfigApply; here it is a   *)
(* choice.  Handlers that are refused before they do anything (method,     *)
(* signature, unknown version) leave no trace and are left out.  A version *)
(* is a number: the order in which the bundles were created.               *)
(***************************************************************************)
EXTENDS Integers, Sequences

CONSTANTS
  Operators,       \* concurrent calls of the admin API
  Puller, Pulling, \* the puller, and whether pull mode is on
  Versions, Initial, None, Cut,
  HistoryLimit,    \* bundleHistoryLimit
  MaxCalls         \* bound on the calls, and on the bundles that are published

HistoryConstants ==
  /\ Versions \subseteq Nat /\ Initial \in Versions /\ {None, Cut} \cap Versions = {}
  /\ Puller \notin Operators /\ Pulling \in BOOLEAN
  /\ HistoryLimit \in Nat \ {0} /\ MaxCalls \in Nat

ASSUME HistoryAssumption == HistoryConstants

Actors == Operators \cup {Puller}

VARIABLES
  live,        \* the current snapshot: [version, locked]
  current, previous, bundles,    \* admin.Store
  files,       \* FileStorage: each version's file is None, Cut short or "whole"
  latest,      \* the version in the file "latest"; Cut or None
  put, putting,  \* the publisher: control point, the version of its Put
  unread,      \* FileStorage.List: the files not read yet
  pc, target,
  prior,       \* ApplyBundle: the snapshot to go back to
  full,        \* history: the versions that calls installed in full
  serial,      \* history: no two calls have overlapped, the puller installed nothing
  calls

store == <<current, previous, bundles>>
storage == <<files, latest, put, putting>>
vars == <<live, store, storage, unread, pc, target, prior, full, serial, calls>>

Init ==
  /\ live = [version |-> Initial, locked |-> FALSE]
  /\ current = None /\ previous = <<>> /\ bundles = {}
  /\ files = [v \in Versions |-> None] /\ latest = None
  /\ put = "idle" /\ putting = None /\ unread = {}
  /\ pc = [a \in Actors |-> "idle"]
  /\ target = [a \in Actors |-> None]
  /\ prior = [a \in Actors |-> None]
  /\ full = <<>> /\ serial = TRUE
  /\ calls = 0

Goto(a, label) == pc' = [pc EXCEPT ![a] = label]

InFull(a, v) ==
  full' = IF a = Puller \/ (full # <<>> /\ full[Len(full)] = v) THEN full ELSE Append(full, v)

-----------------------------------------------------------------------------
(* The entry points.                                                        *)
Counted == calls < MaxCalls /\ calls' = calls + 1

Quiet == \A a \in Actors : pc[a] = "idle"

Start(a, v, label) ==
  /\ pc[a] = "idle"
  /\ serial' = (serial /\ Quiet)
  /\ target' = [target EXCEPT ![a] = v]
  /\ prior' = [prior EXCEPT ![a] = live]
  /\ Goto(a, label)
  /\ UNCHANGED <<live, store, storage, unread, full>>

HandleApply(o, v) == Counted /\ Start(o, v, "apply")

HandleBundle(o, v) == Counted /\ Start(o, v, "locked")

\* A version that is in the history ...
HandleRollbackTo(o, v) == v \in bundles /\ Counted /\ Start(o, v, "locked")

\* ... or Previous(), when the request names none.
HandleRollback(o) ==
  /\ previous # <<>> /\ Head(previous) \in bundles
  /\ Counted /\ Start(o, Head(previous), "locked")

-----------------------------------------------------------------------------
(* FileStorage.Put, under the storage's mutex: the bundle's file, then the  *)
(* file "latest"; WriteFile cuts a file before it writes it.                *)
Write(from, to) ==
  /\ put = from /\ put' = to
  /\ putting' = IF to = "idle" THEN None ELSE putting
  /\ UNCHANGED <<live, store, unread, pc, target, prior, full, serial, calls>>

Put(v) ==
  /\ put = "idle" /\ put' = "bundle" /\ putting' = v
  /\ Counted
  /\ files' = [files EXCEPT ![v] = Cut]
  /\ UNCHANGED <<live, store, latest, unread, pc, target, prior, full, serial>>

PutBundle ==
  /\ Write("bundle", "cutLatest")
  /\ files' = [files EXCEPT ![putting] = "whole"]
  /\ UNCHANGED latest

CutLatest == Write("cutLatest", "latest") /\ latest' = Cut /\ UNCHANGED files

PutLatest == Write("latest", "idle") /\ latest' = putting /\ UNCHANGED files

\* A write fails, or the publisher dies.
PutStops == put # "idle" /\ Write(put, "idle") /\ UNCHANGED <<files, latest>>

-----------------------------------------------------------------------------
(* Puller.pullOnce asks the distributor, whose handleLatest calls Latest:   *)
(* the file "latest", then that bundle's file, without the mutex; if one of *)
(* them cannot be read, List and the newest bundle it has read.             *)
Pull(from, to, v) ==
  /\ pc[Puller] = from /\ Goto(Puller, to)
  /\ target' = [target EXCEPT ![Puller] = v]
  /\ UNCHANGED <<live, store, storage, prior, full, serial, calls>>

PullLatest ==
  /\ Pulling
  /\ IF latest \in Versions
     THEN Pull("idle", "get", latest) /\ UNCHANGED unread
     ELSE Pull("idle", "list", None) /\ unread' = Versions

\* Mutant of PullGet: a bundle that cannot be read is not found.
PullGetOnly ==
  /\ pc[Puller] = "get"
  /\ IF files[target[Puller]] = "whole"
     THEN Pull("get", "fetched", target[Puller])
     ELSE Pull("get", "idle", None)
  /\ UNCHANGED unread

PullGet ==
  /\ pc[Puller] = "get"
  /\ IF files[target[Puller]] = "whole"
     THEN Pull("get", "fetched", target[Puller]) /\ UNCHANGED unread
     ELSE Pull("get", "list", None) /\ unread' = Versions

\* The files are read one after another, in the order of their names.
PullList ==
  LET v == CHOOSE u \in unread : \A w \in unread : u <= w
      best == target[Puller]
  IN
  /\ unread # {} /\ unread' = unread \ {v}
  /\ Pull("list", "list", IF files[v] = "whole" /\ (best = None \/ v > best) THEN v ELSE best)

PullNewest ==
  LET v == target[Puller] IN
  /\ pc[Puller] = "list" /\ unread = {}
  /\ IF v # None /\ files[v] = "whole"
     THEN Pull("list", "fetched", v) ELSE Pull("list", "idle", None)
  /\ UNCHANGED unread

\* What came is left alone if its version is live.
PullCheck ==
  LET stale == target[Puller] # live.version IN
  /\ pc[Puller] = "fetched"
  /\ Goto(Puller, IF stale THEN "locked" ELSE "idle")
  /\ prior' = [prior EXCEPT ![Puller] = IF stale THEN live ELSE None]
  /\ target' = [target EXCEPT ![Puller] = IF stale THEN @ ELSE None]
  /\ serial' = (serial /\ ~stale)
  /\ UNCHANGED <<live, store, storage, unread, full, calls>>

-----------------------------------------------------------------------------
(* Installing.                                                              *)
End(a, label) ==
  /\ Goto(a, label)
  /\ prior' = [prior EXCEPT ![a] = None]
  /\ target' = [target EXCEPT ![a] = IF label = "record" THEN @ ELSE None]
  /\ UNCHANGED <<storage, unread, serial, calls>>

\* Who installed what is recorded next, unless it was the puller.
Installed(a) == IF a = Puller THEN "idle" ELSE "record"

\* Any error before the first Swap.
InstallFails(a) ==
  /\ pc[a] \in {"apply", "locked"}
  /\ End(a, "idle")
  /\ UNCHANGED <<live, store, full>>

Apply(a) ==
  /\ pc[a] = "apply"
  /\ live' = [version |-> target[a], locked |-> FALSE]
  /\ InFull(a, target[a])
  /\ End(a, "record")
  /\ UNCHANGED store

ApplyLocked(a) ==
  /\ pc[a] = "locked"
  /\ live' = [version |-> target[a], locked |-> TRUE]
  /\ Goto(a, "bake")
  /\ UNCHANGED <<store, storage, unread, target, prior, full, serial, calls>>

\* ctx.Done: the caller of the admin API is gone.
BakeCancelled(a) ==
  /\ pc[a] = "bake" /\ a # Puller
  /\ End(a, "idle")
  /\ UNCHANGED <<live, store, full>>

ApplyFull(a) ==
  /\ pc[a] = "bake"
  /\ live' = [version |-> target[a], locked |-> FALSE]
  /\ InFull(a, target[a])
  /\ End(a, Installed(a))
  /\ UNCHANGED store

\* Mutant of RolloutRollback: the version that was rolled back is recorded.
RolloutRollbackRecorded(a) ==
  /\ pc[a] = "bake"
  /\ live' = prior[a]
  /\ End(a, Installed(a))
  /\ UNCHANGED <<store, full>>

\* The gates or the last stage fail.
RolloutRollback(a) ==
  /\ pc[a] = "bake"
  /\ live' = prior[a]
  /\ End(a, "idle")
  /\ UNCHANGED <<store, full>>

-----------------------------------------------------------------------------
(* admin.Store.Record                                                       *)
NewHistory == IF current = None THEN previous ELSE <<current>> \o previous

\* Mutant of Record: the same version again is one more entry.
RecordSame(a) ==
  /\ pc[a] = "record"
  /\ previous' = IF Len(NewHistory) > HistoryLimit THEN SubSeq(NewHistory, 1, HistoryLimit) ELSE NewHistory
  /\ current' = target[a]
  /\ bundles' = bundles \cup {target[a]}
  /\ End(a, "idle")
  /\ UNCHANGED <<live, full>>

Record(a) ==
  /\ pc[a] = "record"
  /\ previous' = IF current = target[a] THEN previous
                 ELSE IF Len(NewHistory) > HistoryLimit THEN SubSeq(NewHistory, 1, HistoryLimit) ELSE NewHistory
  /\ current' = target[a]
  /\ bundles' = bundles \cup {target[a]}
  /\ End(a, "idle")
  /\ UNCHANGED <<live, full>>

-----------------------------------------------------------------------------
Call(o) ==
  \/ HandleRollback(o)
  \/ \E v \in Versions : HandleApply(o, v) \/ HandleBundle(o, v) \/ HandleRollbackTo(o, v)

Install(a) ==
  \/ InstallFails(a) \/ Apply(a) \/ ApplyLocked(a)
  \/ BakeCancelled(a) \/ ApplyFull(a) \/ RolloutRollback(a) \/ Record(a)

PutStep == PutBundle \/ CutLatest \/ PutLatest

PullOnce == PullLatest \/ PullGet \/ PullList \/ PullNewest \/ PullCheck

Next ==
  \/ \E o \in Operators : Call(o)
  \/ \E a \in Actors : Install(a)
  \/ PullOnce
  \/ PutStep \/ PutStops \/ \E v \in Versions : Put(v)

Spec == Init /\ [][Next]_vars

(* Every call runs to its end, the publisher goes on or dies, and the       *)
(* puller polls.                                                            *)
FairSpec ==
  /\ Spec
  /\ WF_vars(PutStep \/ PutStops) /\ WF_vars(PullOnce)
  /\ \A a \in Actors : WF_vars(Install(a))

-----------------------------------------------------------------------------
Snapshots == [version : Versions, locked : BOOLEAN]

\* Types.
TypeOK ==
  /\ live \in Snapshots
  /\ files \in [Versions -> {None, Cut, "whole"}] /\ latest \in Versions \cup {None, Cut}
  /\ put \in {"idle", "bundle", "cutLatest", "latest"} /\ putting \in Versions \cup {None}
  /\ unread \subseteq Versions
  /\ current \in Versions \cup {None} /\ previous \in Seq(Versions) /\ bundles \subseteq Versions
  /\ pc \in [Actors -> {"idle", "get", "list", "fetched", "apply", "locked", "bake", "record"}]
  /\ target \in [Actors -> Versions \cup {None}]
  /\ prior \in [Actors -> Snapshots \cup {None}]
  /\ full \in Seq(Versions) /\ serial \in BOOLEAN /\ calls \in 0..MaxCalls
  /\ Len(previous) <= HistoryLimit

\* Store.Record, Previous: whatever calls overlap, a rollback without a version
\* finds its bundle, and it is not the one recorded last.
PreviousUsable ==
  /\ \A i \in 1..Len(previous) : previous[i] \in bundles
  /\ previous # <<>> => Head(previous) # current

\* handleApply, handleBundle, handleRollback, Record: while calls do not
\* overlap and the puller installs nothing, the history is exactly what the calls
\* installed in full, newest first, as far back as the limit goes, and its head
\* is live unless a rollout was abandoned.
HistoryIsWhatWasInstalled ==
  Quiet /\ serial /\ full # <<>> =>
    /\ Len(previous) = IF Len(full) > HistoryLimit THEN HistoryLimit ELSE Len(full) - 1
    /\ \A i \in 0..Len(previous) :
         (<<current>> \o previous)[i + 1] = full[Len(full) - i]
    /\ live.locked \/ live.version = current

Whole == {v \in Versions : files[v] = "whole"}

\* What an undisturbed call of Latest returns.
Offered ==
  IF latest \in Whole THEN latest ELSE IF Whole # {} THEN CHOOSE v \in Whole : \A w \in Whole : w <= v ELSE None

\* Put, Latest, pullOnce: wherever a Put was interrupted and whatever calls and
\* failed rollouts came before, in the end what the storage offers is live, or
\* the puller tries to install it again and again.
OfferedIsPulled ==
  \A v \in Versions :
    <>[](Offered = v) => []<>(live.version = v \/ (pc[Puller] = "locked" /\ target[Puller] = v))

\* README.md, ApplyBundle: a staged rollout is completed or rolled back; its
\* locked snapshot does not stay.
RolloutEnds == live.locked ~> ~live.locked
=============================================================================
