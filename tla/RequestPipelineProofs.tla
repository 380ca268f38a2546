----------------------- MODULE RequestPipelineProofs -----------------------
(***************************************************************************)
(* Proofs about RequestPipeline for any sequence of filters and any number *)
(* of attempts: what is held is given back, the client gets one answer,    *)
(* the upstream comes last and is not contacted too often.                 *)
(***************************************************************************)
EXTENDS RequestPipeline, FiniteSetTheorems, TLAPS

\* Where a request can be before it has come to an upstream, in order.
Entering == {"arrive", "acquire", "limits", "match", "overload", "pool", "requestFilters"}
Forwarding == {"loop", "attempt", "sent", "judge", "backoff", "result",
               "responseFilters", "respond"}
BeforeUpstream == Entering \cup {"breaker", "cache", "forward"}

\* Each deferred call is on the stack once, and gives back something held.
Stacked ==
  /\ holds = Deferred
  /\ \A i, j \in 1..Len(defers) : defers[i] = defers[j] => i = j

\* What is taken at a label is not yet held there, and nothing is at the end.
NotYetTaken ==
  /\ pc = "acquire" => "snapshot" \notin holds
  /\ pc \in {"acquire", "limits", "match", "overload"} => "slot" \notin holds
  /\ pc \in {"acquire", "limits", "match", "overload", "pool"} => "context" \notin holds
  /\ pc \in Entering \cup {"breaker", "cache"} => "flight" \notin holds
  /\ pc = "end" => holds = {}

\* Nothing is written before the request is replied to, and a panic is going to
\* be recovered by a call that is still on the stack.
AnswerInv ==
  /\ panicking => pc = "unwind" /\ \E i \in 1..Len(defers) : defers[i] = "recover"
  /\ wrote \in {0, 1}
  /\ wrote = 0 => answer = "none"
  /\ pc \notin {"replied", "unwind", "end"} => wrote = 0
  /\ pc \in {"replied", "unwind", "end"} => wrote = 1 \/ ctxErr = "canceled" \/ panicking

AllConsented == \A i \in 1..Len(Filters) : Filters[i] = "failClose" => i \in consented

\* The filters behind the current one have consented if they had to; a request
\* beyond the filters without the consent of all has a context that has ended.
UpstreamInv ==
  /\ UpstreamComesLast
  /\ pc \in Entering =>
       \A i \in 1..Len(Filters) : i < next /\ Filters[i] = "failClose" => i \in consented
  /\ pc \in {"breaker", "cache", "forward"} \cup Forwarding => ctxErr # "nil" \/ AllConsented

\* How attempts, contacts and paid retries are related at each label of the loop.
LoopInv ==
  /\ pc \in BeforeUpstream => attempts = 0 /\ retries = 0
  /\ attempts <= Limit /\ contacts <= attempts /\ attempts <= retries + 1
  /\ pc \in {"loop", "backoff"} => attempts = retries
  /\ pc \in {"attempt", "sent", "judge"} => attempts = retries + 1
  /\ pc = "attempt" => contacts < attempts

\* The inductive invariant.
PipelineInv == TypeOK /\ Stacked /\ NotYetTaken /\ AnswerInv /\ UpstreamInv /\ LoopInv
-----------------------------------------------------------------------------
(* A stack without duplicates: what pushing and popping do, and its size.   *)

LEMMA PushDistinct ==
  ASSUME NEW S, NEW s \in Seq(S), NEW x \in S,
         \A i, j \in 1..Len(s) : s[i] = s[j] => i = j,
         \A i \in 1..Len(s) : s[i] # x
  PROVE  LET t == <<x>> \o s
         IN  /\ t \in Seq(S)
             /\ {t[i] : i \in 1..Len(t)} = {s[i] : i \in 1..Len(s)} \cup {x}
             /\ \A i, j \in 1..Len(t) : t[i] = t[j] => i = j
<1> DEFINE t == <<x>> \o s
<1>1. /\ t \in Seq(S) /\ Len(t) = Len(s) + 1 /\ t[1] = x
      /\ \A i \in 1..Len(s) : t[i + 1] = s[i]
  <2>1. <<x>> \in Seq(S) /\ Len(<<x>>) = 1 /\ <<x>>[1] = x
    OBVIOUS
  <2>2. t \in Seq(S) /\ Len(t) = Len(s) + 1
    BY <2>1
  <2>3. \A i \in 1..Len(s) + 1 : t[i] = IF i <= 1 THEN <<x>>[i] ELSE s[i - 1]
    BY <2>1
  <2> QED BY <2>1, <2>2, <2>3
<1> HIDE DEF t
<1>2. \A i \in 1..Len(t) : i = 1 \/ (i - 1 \in 1..Len(s) /\ t[i] = s[i - 1])
  <2> TAKE i \in 1..Len(t)
  <2>1. CASE i # 1
    <3>1. i - 1 \in 1..Len(s) /\ (i - 1) + 1 = i
      BY <1>1, <2>1
    <3> QED BY <1>1, <3>1
  <2> QED BY <2>1
<1>3. {t[i] : i \in 1..Len(t)} = {s[i] : i \in 1..Len(s)} \cup {x}
  <2>1. ASSUME NEW i \in 1..Len(t) PROVE t[i] \in {s[k] : k \in 1..Len(s)} \cup {x}
    <3>1. CASE i = 1
      BY <1>1, <3>1
    <3>2. CASE i - 1 \in 1..Len(s) /\ t[i] = s[i - 1]
      BY <3>2
    <3> QED BY <1>2, <3>1, <3>2
  <2>2. ASSUME NEW i \in 1..Len(s) PROVE s[i] \in {t[k] : k \in 1..Len(t)}
    <3>1. i + 1 \in 1..Len(t) /\ t[i + 1] = s[i]
      BY <1>1
    <3> QED BY <3>1
  <2>3. x \in {t[k] : k \in 1..Len(t)}
    <3>1. 1 \in 1..Len(t) /\ t[1] = x
      BY <1>1
    <3> QED BY <3>1
  <2>4. {t[i] : i \in 1..Len(t)} \subseteq {s[i] : i \in 1..Len(s)} \cup {x}
    BY <2>1
  <2>5. {s[i] : i \in 1..Len(s)} \subseteq {t[i] : i \in 1..Len(t)}
    BY <2>2
  <2> QED BY <2>3, <2>4, <2>5, Zenon
<1>4. \A i, j \in 1..Len(t) : t[i] = t[j] => i = j
  <2> TAKE i, j \in 1..Len(t)
  <2> HAVE t[i] = t[j]
  <2>1. CASE i = 1 /\ j # 1
    BY SMTT(30), <1>1, <1>2, <2>1
  <2>2. CASE i # 1 /\ j = 1
    BY <1>1, <1>2, <2>2
  <2>3. CASE i # 1 /\ j # 1
    <3>1. i - 1 = j - 1
      BY SMTT(30), <1>2, <2>3
    <3> QED BY <3>1
  <2> QED BY <2>1, <2>2, <2>3
<1> QED BY <1>1, <1>3, <1>4, Zenon DEF t

LEMMA PopDistinct ==
  ASSUME NEW S, NEW s \in Seq(S), s # <<>>,
         \A i, j \in 1..Len(s) : s[i] = s[j] => i = j
  PROVE  /\ Tail(s) \in Seq(S) /\ Head(s) \in S
         /\ {Tail(s)[i] : i \in 1..Len(Tail(s))} = {s[i] : i \in 1..Len(s)} \ {Head(s)}
         /\ \A i, j \in 1..Len(Tail(s)) : Tail(s)[i] = Tail(s)[j] => i = j
<1> DEFINE t == Tail(s)
<1>1. /\ t \in Seq(S) /\ Len(t) = Len(s) - 1 /\ Head(s) = s[1] /\ Head(s) \in S
      /\ Len(s) >= 1 /\ \A i \in 1..Len(t) : t[i] = s[i + 1]
  OBVIOUS
<1> HIDE DEF t
<1>2. {t[i] : i \in 1..Len(t)} = {s[i] : i \in 1..Len(s)} \ {Head(s)}
  <2>1. ASSUME NEW i \in 1..Len(t) PROVE t[i] \in {s[k] : k \in 1..Len(s)} \ {Head(s)}
    <3>1. i + 1 \in 1..Len(s) /\ 1 \in 1..Len(s) /\ i + 1 # 1 /\ t[i] = s[i + 1]
      BY <1>1
    <3> QED BY <1>1, <3>1, Zenon
  <2>2. ASSUME NEW i \in 1..Len(s), s[i] # Head(s) PROVE s[i] \in {t[k] : k \in 1..Len(t)}
    <3>1. i - 1 \in 1..Len(t) /\ t[i - 1] = s[i]
      BY <1>1, <2>2
    <3> QED BY <3>1
  <2> QED BY <2>1, <2>2
<1>3. \A i, j \in 1..Len(t) : t[i] = t[j] => i = j
  <2> TAKE i, j \in 1..Len(t)
  <2> HAVE t[i] = t[j]
  <2>1. i + 1 \in 1..Len(s) /\ j + 1 \in 1..Len(s) /\ s[i + 1] = s[j + 1]
    BY <1>1
  <2>2. i + 1 = j + 1
    BY <2>1
  <2> QED BY <2>2
<1> QED BY <1>1, <1>2, <1>3, Zenon DEF t

LEMMA CountDistinct ==
  ASSUME NEW S, NEW s \in Seq(S), \A i, j \in 1..Len(s) : s[i] = s[j] => i = j
  PROVE  /\ IsFiniteSet({s[i] : i \in 1..Len(s)})
         /\ Cardinality({s[i] : i \in 1..Len(s)}) = Len(s)
<1> DEFINE T == {s[i] : i \in 1..Len(s)}
<1>1. Len(s) \in Nat /\ s \in [1..Len(s) -> T]
  OBVIOUS
<1>2. IsFiniteSet(1..Len(s)) /\ Cardinality(1..Len(s)) = Len(s)
  <2> DEFINE n == Len(s)
  <2>1. n \in Int /\ 1 \in Int /\ n >= 0
    BY <1>1
  <2> HIDE DEF n
  <2>2. IsFiniteSet(1..n) /\ Cardinality(1..n) = IF 1 > n THEN 0 ELSE n - 1 + 1
    BY <2>1, FS_Interval
  <2>3. Cardinality(1..n) = n
    BY <2>1, <2>2
  <2> QED BY <2>2, <2>3 DEF n
<1>3. s \in Bijection(1..Len(s), T)
  BY <1>1 DEF Bijection, Injection, Surjection, IsInjective
<1>4. ExistsBijection(1..Len(s), T)
  BY <1>3 DEF ExistsBijection
<1> QED BY <1>2, <1>4, FS_Bijection
-----------------------------------------------------------------------------
(* Types, part by part; most steps leave most parts alone.                  *)

Answers ==
  EarlyErrors \cup UpstreamErrors \cup FilterErrors
    \cup {"none", "plugin", "cached", "response", "panic"}

LifeOK ==
  /\ holds \subseteq Resources /\ defers \in Seq(Resources \cup {"recover"})
  /\ panicking \in BOOLEAN

ReplyOK == wrote \in Nat /\ answer \in Answers /\ cut \in BOOLEAN

ClocksOK == late \in BOOLEAN /\ ctxErr \in {"nil", "deadline", "canceled"} /\ spent \in BOOLEAN

PluginsOK == next \in 1..(Len(Filters) + 1) /\ consented \subseteq 1..Len(Filters)

LoopOK ==
  /\ attempts \in Nat /\ contacts \in Nat /\ retries \in Nat
  /\ attemptCtx \in {"none", "live", "cancelled"} /\ resp \in {"none", "final", "retryable"}
  /\ err \in AttemptErrors \cup {"none", "transport", "noUpstream", "deadline", "canceled"}
  /\ cause \in {"none", "requestDeadline", "retryBudget"}

LEMMA TypeParts ==
  TypeOK <=> /\ pc \in Labels /\ route \in [allowRetry : BOOLEAN, cacheEligible : BOOLEAN]
             /\ LifeOK /\ ReplyOK /\ ClocksOK /\ PluginsOK /\ LoopOK
  BY Zenon DEF TypeOK, LifeOK, ReplyOK, ClocksOK, PluginsOK, LoopOK, Answers

LEMMA AnswerSet ==
  /\ LimitErrors \subseteq Answers /\ FilterErrors \subseteq Answers
  /\ UpstreamErrors \subseteq Answers /\ "bad_gateway" \in UpstreamErrors
  /\ {"not_found", "no_route", "mtls_required", "overloaded", "circuit_open",
      "none", "plugin", "cached", "response", "panic"} \subseteq Answers
  BY DEF Answers, EarlyErrors, UpstreamErrors

LEMMA LoopStep == ASSUME LoopOK, ClocksOK, Next PROVE LoopOK'
<1> USE DEF LoopOK, AttemptErrors
<1>1. CASE UNCHANGED loop
  BY <1>1, Zenon DEF loop
<1>2. CASE RoundTripWithRetry
  BY <1>2 DEF RoundTripWithRetry, GiveUp, loop
<1>3. CASE ExecuteLoop
  BY <1>3 DEF ExecuteLoop, GiveUp
<1>4. CASE Pick
  BY <1>4 DEF Pick, ClocksOK
<1>5. CASE RoundTripUpstream
  BY <1>5 DEF RoundTripUpstream
<1>6. CASE RoundTripEnded
  BY <1>6 DEF RoundTripEnded, ClocksOK
<1>7. CASE JudgeResponse
  BY <1>7 DEF JudgeResponse
<1>8. CASE JudgeError
  BY <1>8 DEF JudgeError, GiveUp, ClocksOK
<1>9. CASE SleepWithBackoff
  BY <1>9 DEF SleepWithBackoff, GiveUp, ClocksOK
<1> HIDE DEF LoopOK
<1> QED
  BY <1>1, <1>2, <1>3, <1>4, <1>5, <1>6, <1>7, <1>8, <1>9, Zenon
  DEF Next, ServeHTTP, ArriveAdmin, Arrive, Acquire, EnforceRequestLimits, Match, Overload,
      PoolLookup, ApplyRequestPlugins, BreakerAllow, CacheLookup, Result,
      ApplyResponsePlugins, WriteUpstreamResponse, ReadUpstreamBody, Return, RunDeferred,
      Recover, Finish, Panic, DeadlinePasses, ContextExpires, ClientGone, RetryTimePasses

LEMMA ClocksStep == ASSUME ClocksOK, Next PROVE ClocksOK'
<1>1. CASE UNCHANGED clocks
  BY <1>1, Zenon DEF clocks, ClocksOK
<1>2. CASE DeadlinePasses \/ ContextExpires \/ ClientGone \/ RetryTimePasses
  BY <1>2, Zenon DEF ClocksOK, DeadlinePasses, ContextExpires, ClientGone, RetryTimePasses
<1> QED
  BY <1>1, <1>2, Zenon
  DEF Next, ServeHTTP, ArriveAdmin, Arrive, Acquire, EnforceRequestLimits, Match, Overload,
      PoolLookup, ApplyRequestPlugins, BreakerAllow, CacheLookup, RoundTripWithRetry,
      ExecuteLoop, Pick, RoundTripUpstream, RoundTripEnded, JudgeResponse, JudgeError,
      SleepWithBackoff, Result, ApplyResponsePlugins, WriteUpstreamResponse,
      ReadUpstreamBody, Return, RunDeferred, Recover, Finish, Panic

LEMMA PluginsStep == ASSUME PluginsOK, Next PROVE PluginsOK'
<1>1. CASE UNCHANGED plugins
  BY <1>1, Zenon DEF plugins, PluginsOK
<1>2. Len(Filters) \in Nat
  BY PipelineAssumption
<1>3. ASSUME next <= Len(Filters), FilterFails \/ FilterContinues PROVE PluginsOK'
  <2>1. next + 1 \in 1..(Len(Filters) + 1) /\ next \in 1..Len(Filters)
    BY <1>2, <1>3 DEF PluginsOK
  <2>2. CASE FilterFails
    BY <2>1, <2>2 DEF PluginsOK, FilterFails
  <2>3. CASE FilterContinues
    BY <2>1, <2>3 DEF PluginsOK, FilterContinues
  <2> QED BY <1>3, <2>2, <2>3
<1>4. ASSUME NEW label, FiltersEnd(label) PROVE PluginsOK'
  BY <1>2, <1>4 DEF PluginsOK, FiltersEnd
<1>5. CASE ApplyRequestPlugins
  BY <1>1, <1>3, <1>4, <1>5 DEF ApplyRequestPlugins
<1>6. CASE ApplyResponsePlugins
  BY <1>3, <1>4, <1>6 DEF ApplyResponsePlugins
<1> QED
  BY <1>1, <1>5, <1>6, Zenon
  DEF Next, ServeHTTP, ArriveAdmin, Arrive, Acquire, EnforceRequestLimits, Match, Overload,
      PoolLookup, BreakerAllow, CacheLookup, RoundTripWithRetry, ExecuteLoop, Pick,
      RoundTripUpstream, RoundTripEnded, JudgeResponse, JudgeError, SleepWithBackoff, Result,
      WriteUpstreamResponse, ReadUpstreamBody, Return, RunDeferred, Recover, Finish, Panic,
      DeadlinePasses, ContextExpires, ClientGone, RetryTimePasses

LEMMA ReplyStep == ASSUME ReplyOK, Next PROVE ReplyOK'
<1>1. ASSUME UNCHANGED reply PROVE ReplyOK'
  BY <1>1, Zenon DEF reply, ReplyOK
<1>2. ASSUME NEW what \in Answers, Write(what), UNCHANGED cut PROVE ReplyOK'
  BY <1>2 DEF ReplyOK, Write
<1>3. ASSUME NEW what \in Answers, Refuse(what) PROVE ReplyOK'
  BY <1>2, <1>3 DEF Refuse
<1>4. ASSUME NEW label, Goto(label) PROVE ReplyOK'
  BY <1>1, <1>4 DEF Goto
<1>5. ASSUME NEW what, NEW label, Take(what, label) PROVE ReplyOK'
  BY <1>1, <1>5 DEF Take
<1>6. CASE ArriveAdmin \/ Arrive
  BY <1>1, <1>2, <1>6, AnswerSet DEF ArriveAdmin, Arrive
<1>7. CASE Acquire \/ EnforceRequestLimits \/ Match \/ Overload \/ PoolLookup
  BY <1>3, <1>4, <1>5, <1>7, AnswerSet, Zenon
  DEF Acquire, EnforceRequestLimits, Match, Overload, PoolLookup
<1>8. CASE ApplyRequestPlugins \/ BreakerAllow \/ CacheLookup
  BY <1>3, <1>4, <1>5, <1>8, AnswerSet, Zenon
  DEF ApplyRequestPlugins, FiltersEnd, FilterFails, FilterContinues, BreakerAllow, CacheLookup
<1>9. CASE RoundTripWithRetry \/ ExecuteLoop \/ Pick \/ RoundTripUpstream \/ RoundTripEnded
  BY <1>4, <1>9, Zenon
  DEF RoundTripWithRetry, ExecuteLoop, Pick, RoundTripUpstream, RoundTripEnded, GiveUp
<1>10. CASE JudgeResponse \/ JudgeError \/ SleepWithBackoff
  BY <1>4, <1>10 DEF JudgeResponse, JudgeError, SleepWithBackoff, GiveUp
<1>11. CASE Result
  <2>1. ErrorCategory \in UpstreamErrors
    BY Zenon DEF ErrorCategory, UpstreamErrors
  <2> QED BY <1>3, <1>4, <1>11, <2>1, AnswerSet DEF Result
<1>12. CASE ApplyResponsePlugins \/ ReadUpstreamBody
  BY <1>3, <1>4, <1>12, AnswerSet
  DEF ApplyResponsePlugins, FiltersEnd, FilterFails, FilterContinues, ReadUpstreamBody
<1>13. CASE WriteUpstreamResponse
  <2>1. cut' \in BOOLEAN
    BY <1>13, Zenon DEF WriteUpstreamResponse
  <2> QED BY <1>13, <2>1, AnswerSet DEF WriteUpstreamResponse, Write, ReplyOK
<1>14. CASE Recover
  BY <1>14, AnswerSet DEF Recover, Write, ReplyOK
<1>15. CASE Return \/ RunDeferred \/ Finish \/ Panic
  BY <1>1, <1>4, <1>15 DEF Return, RunDeferred, Finish, Panic
<1>16. CASE DeadlinePasses \/ ContextExpires \/ ClientGone \/ RetryTimePasses
  BY <1>1, <1>16, Zenon DEF DeadlinePasses, ContextExpires, ClientGone, RetryTimePasses
<1> QED
  BY <1>6, <1>7, <1>8, <1>9, <1>10, <1>11, <1>12, <1>13, <1>14, <1>15, <1>16, Zenon
  DEF Next, ServeHTTP

LEMMA LabelStep == ASSUME pc \in Labels, Next PROVE pc' \in Labels
<1> USE DEF Goto, Refuse
<1>1. CASE ArriveAdmin \/ Arrive \/ Acquire \/ EnforceRequestLimits \/ Match
  BY <1>1, Zenon DEF ArriveAdmin, Arrive, Acquire, EnforceRequestLimits, Match, Take, Labels
<1>2. CASE Overload \/ PoolLookup \/ BreakerAllow \/ CacheLookup
  BY <1>2, Zenon DEF Overload, PoolLookup, BreakerAllow, CacheLookup, Take, Labels
<1>3. CASE ApplyRequestPlugins \/ ApplyResponsePlugins
  BY <1>3, Zenon DEF ApplyRequestPlugins, ApplyResponsePlugins, FiltersEnd, FilterFails,
              FilterContinues, Labels
<1>4. CASE RoundTripWithRetry \/ ExecuteLoop \/ Pick \/ RoundTripUpstream \/ RoundTripEnded
  BY <1>4, Zenon
  DEF RoundTripWithRetry, ExecuteLoop, Pick, RoundTripUpstream, RoundTripEnded, GiveUp, Labels
<1>5. CASE JudgeResponse \/ JudgeError \/ SleepWithBackoff \/ Result
  BY <1>5, Zenon DEF JudgeResponse, JudgeError, SleepWithBackoff, Result, GiveUp, Labels
<1>6. CASE WriteUpstreamResponse \/ ReadUpstreamBody \/ Return
  BY <1>6 DEF WriteUpstreamResponse, ReadUpstreamBody, Return, Labels
<1>7. CASE RunDeferred \/ Recover \/ Finish \/ Panic
  BY <1>7, Zenon DEF RunDeferred, Recover, Finish, Panic, Labels
<1>8. CASE DeadlinePasses \/ ContextExpires \/ ClientGone \/ RetryTimePasses
  BY <1>8 DEF DeadlinePasses, ContextExpires, ClientGone, RetryTimePasses
<1> QED
  BY <1>1, <1>2, <1>3, <1>4, <1>5, <1>6, <1>7, <1>8 DEF Next, ServeHTTP
-----------------------------------------------------------------------------
(* The invariant is inductive, part by part.                                *)

LEMMA TakeStacked ==
  ASSUME LifeOK, Stacked, NEW what \in Resources, NEW label,
         what \notin holds, Take(what, label)
  PROVE  LifeOK' /\ Stacked'
<1> DEFINE calls == Resources \cup {"recover"}
<1>1. defers \in Seq(calls) /\ what \in calls /\ what # "recover"
  BY DEF LifeOK, Resources
<1>2. \A i \in 1..Len(defers) : defers[i] # what
  BY <1>1 DEF Stacked, Deferred
<1>3. /\ defers' = <<what>> \o defers /\ holds' = holds \cup {what}
      /\ panicking' = panicking
  BY DEF Take
<1>4. /\ defers' \in Seq(calls)
      /\ {defers'[i] : i \in 1..Len(defers')} = {defers[i] : i \in 1..Len(defers)} \cup {what}
      /\ \A i, j \in 1..Len(defers') : defers'[i] = defers'[j] => i = j
  <2>1. \A i, j \in 1..Len(defers) : defers[i] = defers[j] => i = j
    BY Zenon DEF Stacked
  <2> QED BY <1>1, <1>2, <1>3, <2>1, PushDistinct
<1>5. holds' = Deferred'
  BY <1>1, <1>3, <1>4, Zenon DEF Stacked, Deferred
<1> QED BY <1>3, <1>4, <1>5, Zenon DEF LifeOK, Stacked

LEMMA StackedStep == ASSUME LifeOK, Stacked, NotYetTaken, Next PROVE LifeOK' /\ Stacked'
<1>1. ASSUME UNCHANGED <<holds, defers>>, panicking' \in BOOLEAN PROVE LifeOK' /\ Stacked'
  BY <1>1, Zenon DEF LifeOK, Stacked, Deferred
<1>2. ASSUME NEW label, Goto(label) PROVE LifeOK' /\ Stacked'
  BY <1>1, <1>2 DEF Goto, life, LifeOK
<1>3. ASSUME NEW what, Refuse(what) PROVE LifeOK' /\ Stacked'
  BY <1>1, <1>3, Zenon DEF Refuse, life, LifeOK
<1>4. CASE ArriveAdmin
  BY <1>4 DEF ArriveAdmin, LifeOK, Stacked, Deferred, Resources
<1>5. CASE Arrive
  BY <1>5 DEF Arrive, LifeOK, Stacked, Deferred, Resources
<1>6. CASE Acquire
  BY <1>3, <1>6, TakeStacked DEF Acquire, NotYetTaken, Resources
<1>7. CASE EnforceRequestLimits \/ Match \/ BreakerAllow
  BY <1>2, <1>3, <1>7, Zenon DEF EnforceRequestLimits, Match, BreakerAllow
<1>8. CASE Overload
  BY <1>2, <1>3, <1>8, TakeStacked, Zenon DEF Overload, NotYetTaken, Resources
<1>9. CASE PoolLookup
  BY <1>3, <1>9, TakeStacked, Zenon DEF PoolLookup, NotYetTaken, Resources
<1>10. CASE ApplyRequestPlugins \/ ApplyResponsePlugins
  BY <1>2, <1>3, <1>10, Zenon
  DEF ApplyRequestPlugins, ApplyResponsePlugins, FiltersEnd, FilterFails, FilterContinues
<1>11. CASE CacheLookup
  BY <1>2, <1>3, <1>11, TakeStacked, Zenon DEF CacheLookup, NotYetTaken, Resources
<1>12. CASE RoundTripWithRetry \/ ExecuteLoop \/ Pick \/ RoundTripUpstream \/ RoundTripEnded
  BY <1>2, <1>12, Zenon
  DEF RoundTripWithRetry, ExecuteLoop, Pick, RoundTripUpstream, RoundTripEnded, GiveUp
<1>13. CASE JudgeResponse \/ JudgeError \/ SleepWithBackoff
  BY <1>2, <1>13, Zenon DEF JudgeResponse, JudgeError, SleepWithBackoff, GiveUp
<1>14. CASE Result \/ ReadUpstreamBody \/ Return \/ Finish
  BY <1>2, <1>3, <1>14, Zenon DEF Result, ReadUpstreamBody, Return, Finish
<1>15. CASE WriteUpstreamResponse \/ Panic
  BY <1>1, <1>15, Zenon DEF WriteUpstreamResponse, Panic, life, LifeOK
<1>16. CASE RunDeferred \/ Recover
  <2> DEFINE calls == Resources \cup {"recover"}
  <2>1. /\ defers \in Seq(calls) /\ defers # <<>> /\ defers' = Tail(defers)
        /\ panicking' \in BOOLEAN
    BY <1>16, Zenon DEF RunDeferred, Recover, LifeOK
  <2>2. /\ defers' \in Seq(calls)
        /\ {defers'[i] : i \in 1..Len(defers')} = {defers[i] : i \in 1..Len(defers)} \ {Head(defers)}
        /\ \A i, j \in 1..Len(defers') : defers'[i] = defers'[j] => i = j
    BY <2>1, PopDistinct DEF Stacked
  <2>3. Deferred' = Deferred \ {Head(defers)}
    BY <2>2, Zenon DEF Deferred
  <2>4. holds' = Deferred' /\ holds' \subseteq Resources
    <3>1. CASE RunDeferred
      BY <2>3, <3>1, Zenon DEF RunDeferred, Stacked, LifeOK
    <3>2. CASE Recover
      <4>1. "recover" \notin Deferred
        BY Zenon DEF Deferred
      <4>2. Deferred' = Deferred
        BY <2>3, <3>2, <4>1, Zenon DEF Recover
      <4> QED BY <3>2, <4>2, Zenon DEF Recover, Stacked, LifeOK
    <3> QED BY <1>16, <3>1, <3>2
  <2> QED BY <2>1, <2>2, <2>4, Zenon DEF LifeOK, Stacked
<1>17. CASE DeadlinePasses \/ ContextExpires \/ ClientGone \/ RetryTimePasses
  BY <1>1, <1>17, Zenon DEF DeadlinePasses, ContextExpires, ClientGone, RetryTimePasses, life, LifeOK
<1> QED
  BY <1>4, <1>5, <1>6, <1>7, <1>8, <1>9, <1>10, <1>11, <1>12, <1>13, <1>14, <1>15, <1>16, <1>17, Zenon
  DEF Next, ServeHTTP
LEMMA NotYetStep == ASSUME Stacked, NotYetTaken, Next PROVE NotYetTaken'
<1> USE DEF NotYetTaken, Entering, life
<1>1. CASE pc' \in {"replied", "unwind", "forward", "loop", "attempt", "sent", "judge",
                  "backoff", "result", "responseFilters", "respond"}
  BY <1>1, Zenon
<1>2. CASE ArriveAdmin \/ Arrive
  BY <1>2, Zenon DEF ArriveAdmin, Arrive
<1>3. CASE Acquire
  BY <1>1, <1>3, Zenon DEF Acquire, Take, Refuse
<1>4. CASE EnforceRequestLimits \/ Match
  BY <1>1, <1>4, Zenon DEF EnforceRequestLimits, Match, Goto, Refuse
<1>5. CASE Overload
  BY <1>1, <1>5, Zenon DEF Overload, Goto, Take, Refuse
<1>6. CASE PoolLookup
  BY <1>1, <1>6, Zenon DEF PoolLookup, Take, Refuse
<1>7. CASE ApplyRequestPlugins
  BY <1>1, <1>7, Zenon DEF ApplyRequestPlugins, FiltersEnd, FilterFails, FilterContinues, Goto, Refuse
<1>8. CASE BreakerAllow
  BY <1>1, <1>8, Zenon DEF BreakerAllow, Goto, Refuse
<1>9. CASE CacheLookup
  BY <1>1, <1>9, Zenon DEF CacheLookup, Goto, Take, Refuse
<1>10. CASE RoundTripWithRetry \/ ExecuteLoop \/ Pick \/ RoundTripUpstream \/ RoundTripEnded
  BY <1>1, <1>10, Zenon
  DEF RoundTripWithRetry, ExecuteLoop, Pick, RoundTripUpstream, RoundTripEnded, GiveUp, Goto
<1>11. CASE JudgeResponse \/ JudgeError \/ SleepWithBackoff
  BY <1>1, <1>11, Zenon DEF JudgeResponse, JudgeError, SleepWithBackoff, GiveUp, Goto
<1>12. CASE Result \/ WriteUpstreamResponse \/ ReadUpstreamBody \/ Return \/ Panic
  BY <1>1, <1>12, Zenon DEF Result, WriteUpstreamResponse, ReadUpstreamBody, Return, Panic, Goto, Refuse
<1>13. CASE ApplyResponsePlugins
  BY <1>1, <1>13, Zenon DEF ApplyResponsePlugins, FiltersEnd, FilterFails, FilterContinues, Goto, Refuse
<1>14. CASE RunDeferred \/ Recover
  BY <1>1, <1>14, Zenon DEF RunDeferred, Recover
<1>15. CASE Finish
  BY <1>15 DEF Finish, Goto, Stacked, Deferred
<1>16. CASE DeadlinePasses \/ ContextExpires \/ ClientGone \/ RetryTimePasses
  BY <1>16, Zenon DEF DeadlinePasses, ContextExpires, ClientGone, RetryTimePasses
<1> QED
  BY <1>2, <1>3, <1>4, <1>5, <1>6, <1>7, <1>8, <1>9, <1>10, <1>11, <1>12, <1>13, <1>14,
     <1>15, <1>16, Zenon
  DEF Next, ServeHTTP

LEMMA AnswerStep == ASSUME LifeOK, AnswerInv, Next PROVE AnswerInv'
<1>1. ASSUME pc \notin {"replied", "unwind", "end"}, NEW label, Goto(label),
             label \notin {"replied", "unwind", "end"}, UNCHANGED ctxErr
      PROVE  AnswerInv'
  BY <1>1, Zenon DEF AnswerInv, Goto, life, reply
<1>2. ASSUME pc \notin {"replied", "unwind", "end"}, NEW what, Refuse(what), UNCHANGED ctxErr
      PROVE  AnswerInv'
  BY <1>2 DEF AnswerInv, Refuse, Write, life
<1>3. ASSUME pc \notin {"replied", "unwind", "end"}, NEW what, NEW label, Take(what, label),
             label \notin {"replied", "unwind", "end"}, UNCHANGED ctxErr
      PROVE  AnswerInv'
  BY <1>3, Zenon DEF AnswerInv, Take, reply
<1>4. CASE ArriveAdmin \/ Arrive
  BY <1>4 DEF ArriveAdmin, Arrive, Write, AnswerInv, reply, clocks
<1>5. CASE Acquire \/ EnforceRequestLimits \/ Match \/ Overload \/ PoolLookup
  BY <1>1, <1>2, <1>3, <1>5, Zenon
  DEF Acquire, EnforceRequestLimits, Match, Overload, PoolLookup, clocks
<1>6. CASE ApplyRequestPlugins \/ ApplyResponsePlugins
  BY <1>1, <1>2, <1>6, Zenon
  DEF ApplyRequestPlugins, ApplyResponsePlugins, FiltersEnd, FilterFails, FilterContinues, clocks
<1>7. CASE BreakerAllow \/ CacheLookup
  BY <1>1, <1>2, <1>3, <1>7, Zenon DEF BreakerAllow, CacheLookup, clocks
<1>8. CASE RoundTripWithRetry \/ ExecuteLoop \/ Pick \/ RoundTripUpstream \/ RoundTripEnded
  BY <1>1, <1>8, Zenon
  DEF RoundTripWithRetry, ExecuteLoop, Pick, RoundTripUpstream, RoundTripEnded, GiveUp, clocks
<1>9. CASE JudgeResponse \/ JudgeError \/ SleepWithBackoff
  BY <1>1, <1>9, Zenon DEF JudgeResponse, JudgeError, SleepWithBackoff, GiveUp, clocks
<1>10. CASE Result
  <2>1. CASE resp # "none" \/ ~Unanswered
    BY <1>1, <1>2, <1>10, <2>1, Zenon DEF Result, clocks
  <2>2. CASE Unanswered /\ Goto("replied")
    BY <1>10, <2>2, Zenon DEF Result, Unanswered, Goto, AnswerInv, life, reply, clocks
  <2> QED BY <1>10, <2>1, <2>2, Zenon DEF Result
<1>11. CASE WriteUpstreamResponse
  BY <1>11 DEF WriteUpstreamResponse, Write, AnswerInv, life, clocks
<1>12. CASE ReadUpstreamBody
  BY <1>2, <1>12, Zenon DEF ReadUpstreamBody, clocks
<1>13. CASE Return
  BY <1>13, Zenon DEF Return, Goto, AnswerInv, life, reply, clocks
<1>14. CASE RunDeferred
  <2>1. ASSUME NEW i \in 1..Len(defers), defers[i] = "recover"
        PROVE  \E j \in 1..Len(defers') : defers'[j] = "recover"
    <3>1. /\ defers \in Seq(Resources \cup {"recover"}) /\ defers # <<>>
          /\ defers[1] # "recover" /\ defers' = Tail(defers)
      BY <1>14 DEF RunDeferred, LifeOK
    <3>2. i - 1 \in 1..Len(defers') /\ defers'[i - 1] = defers[i]
      BY <2>1, <3>1
    <3> QED BY <2>1, <3>2, Zenon
  <2>2. UNCHANGED <<pc, panicking, wrote, answer, ctxErr>>
    BY <1>14, Zenon DEF RunDeferred, reply, clocks
  <2> QED BY <2>1, <2>2, Zenon DEF AnswerInv
<1>15. CASE Recover
  BY <1>15 DEF Recover, Write, AnswerInv, clocks
<1>16. CASE Finish
  BY <1>16 DEF Finish, Goto, AnswerInv, life, reply, clocks
<1>17. CASE Panic
  BY <1>17, Zenon DEF Panic, AnswerInv, reply, clocks
<1>18. CASE DeadlinePasses \/ ContextExpires \/ ClientGone \/ RetryTimePasses
  BY <1>18
  DEF DeadlinePasses, ContextExpires, ClientGone, RetryTimePasses, AnswerInv, life, reply
<1> QED
  BY <1>4, <1>5, <1>6, <1>7, <1>8, <1>9, <1>10, <1>11, <1>12, <1>13, <1>14, <1>15, <1>16,
     <1>17, <1>18, Zenon
  DEF Next, ServeHTTP
\* Past the filters, without having been answered.
Beyond == {"breaker", "cache", "forward"} \cup Forwarding

\* A request passes the filters once, at the end of their loop.
LEMMA FlowStep ==
  ASSUME Next
  PROVE  /\ pc' \in Entering => pc \in Entering
         /\ pc' \in Beyond => pc \in Beyond \/ (ApplyRequestPlugins /\ FiltersEnd("breaker"))
<1> USE DEF Entering, Beyond, Forwarding, Goto, Refuse
<1>1. CASE ArriveAdmin \/ Arrive \/ Acquire \/ EnforceRequestLimits \/ Match
  BY <1>1, Zenon DEF ArriveAdmin, Arrive, Acquire, EnforceRequestLimits, Match, Take
<1>2. CASE Overload \/ PoolLookup \/ BreakerAllow \/ CacheLookup
  BY <1>2, Zenon DEF Overload, PoolLookup, BreakerAllow, CacheLookup, Take
<1>3. CASE ApplyRequestPlugins
  BY <1>3, Zenon DEF ApplyRequestPlugins, FilterFails, FilterContinues
<1>4. CASE ApplyResponsePlugins
  BY <1>4, Zenon DEF ApplyResponsePlugins, FiltersEnd, FilterFails, FilterContinues
<1>5. CASE RoundTripWithRetry \/ ExecuteLoop \/ Pick \/ RoundTripUpstream \/ RoundTripEnded
  BY <1>5, Zenon DEF RoundTripWithRetry, ExecuteLoop, Pick, RoundTripUpstream, RoundTripEnded, GiveUp
<1>6. CASE JudgeResponse \/ JudgeError \/ SleepWithBackoff \/ Result
  BY <1>6, Zenon DEF JudgeResponse, JudgeError, SleepWithBackoff, Result, GiveUp
<1>7. CASE WriteUpstreamResponse \/ ReadUpstreamBody \/ Return \/ Panic
  BY <1>7, Zenon DEF WriteUpstreamResponse, ReadUpstreamBody, Return, Panic
<1>8. CASE RunDeferred \/ Recover \/ Finish
  BY <1>8, Zenon DEF RunDeferred, Recover, Finish
<1>9. CASE DeadlinePasses \/ ContextExpires \/ ClientGone \/ RetryTimePasses
  BY <1>9, Zenon DEF DeadlinePasses, ContextExpires, ClientGone, RetryTimePasses
<1> QED
  BY <1>1, <1>2, <1>3, <1>4, <1>5, <1>6, <1>7, <1>8, <1>9, Zenon DEF Next, ServeHTTP

\* What is written after the request was forwarded is none of the early answers.
LEMMA AnswerChanges ==
  ASSUME Next
  PROVE  \/ answer' = answer \/ pc \in BeforeUpstream
         \/ answer' \in UpstreamErrors \cup FilterErrors \cup {"response", "panic"}
<1> USE DEF BeforeUpstream, Entering, Goto, Refuse, Write, reply
<1>1. CASE ArriveAdmin \/ Arrive \/ Acquire \/ EnforceRequestLimits \/ Match
  BY <1>1, Zenon DEF ArriveAdmin, Arrive, Acquire, EnforceRequestLimits, Match
<1>2. CASE Overload \/ PoolLookup \/ BreakerAllow \/ CacheLookup
  BY <1>2, Zenon DEF Overload, PoolLookup, BreakerAllow, CacheLookup
<1>3. CASE ApplyRequestPlugins
  BY <1>3 DEF ApplyRequestPlugins
<1>4. CASE ApplyResponsePlugins
  BY <1>4, Zenon DEF ApplyResponsePlugins, FiltersEnd, FilterFails, FilterContinues
<1>5. CASE RoundTripWithRetry \/ ExecuteLoop \/ Pick \/ RoundTripUpstream \/ RoundTripEnded
  BY <1>5, Zenon
  DEF RoundTripWithRetry, ExecuteLoop, Pick, RoundTripUpstream, RoundTripEnded, GiveUp
<1>6. CASE JudgeResponse \/ JudgeError \/ SleepWithBackoff
  BY <1>6, Zenon DEF JudgeResponse, JudgeError, SleepWithBackoff, GiveUp
<1>7. CASE Result
  <2>1. ErrorCategory \in UpstreamErrors
    BY DEF ErrorCategory, UpstreamErrors
  <2> QED BY <1>7, <2>1, Zenon DEF Result
<1>8. CASE WriteUpstreamResponse \/ ReadUpstreamBody
  BY <1>8, AnswerSet, Zenon DEF WriteUpstreamResponse, ReadUpstreamBody
<1>9. CASE Return \/ RunDeferred \/ Recover \/ Finish \/ Panic
  BY <1>9, Zenon DEF Return, RunDeferred, Recover, Finish, Panic
<1>10. CASE DeadlinePasses \/ ContextExpires \/ ClientGone \/ RetryTimePasses
  BY <1>10, Zenon DEF DeadlinePasses, ContextExpires, ClientGone, RetryTimePasses
<1> QED
  BY <1>1, <1>2, <1>3, <1>4, <1>5, <1>6, <1>7, <1>8, <1>9, <1>10, Zenon DEF Next, ServeHTTP

LEMMA ContactChanges == ASSUME Next PROVE contacts' = contacts \/ Pick
<1>1. UNCHANGED loop \/ contacts' = contacts \/ Pick
  BY Zenon DEF Next, ServeHTTP, ApplyRequestPlugins, ApplyResponsePlugins,
      ArriveAdmin, Arrive, Acquire, EnforceRequestLimits, Match, Overload,
      PoolLookup, BreakerAllow, CacheLookup, RoundTripWithRetry, ExecuteLoop,
      RoundTripUpstream, RoundTripEnded, JudgeResponse, JudgeError, SleepWithBackoff, Result,
      WriteUpstreamResponse, ReadUpstreamBody, Return, RunDeferred, Recover, Finish, Panic,
      DeadlinePasses, ContextExpires, ClientGone, RetryTimePasses
<1> QED BY <1>1 DEF loop

LEMMA ConsentChanges ==
  ASSUME Next
  PROVE  /\ UNCHANGED <<next, consented>> \/ ApplyRequestPlugins \/ ApplyResponsePlugins
         /\ ctxErr # "nil" => ctxErr' # "nil"
<1>1. UNCHANGED plugins \/ ApplyRequestPlugins \/ ApplyResponsePlugins
  BY Zenon DEF Next, ServeHTTP, ArriveAdmin, Arrive, Acquire, EnforceRequestLimits, Match, Overload,
      PoolLookup, BreakerAllow, CacheLookup, RoundTripWithRetry, ExecuteLoop, Pick,
      RoundTripUpstream, RoundTripEnded, JudgeResponse, JudgeError, SleepWithBackoff, Result,
      WriteUpstreamResponse, ReadUpstreamBody, Return, RunDeferred, Recover, Finish, Panic,
      DeadlinePasses, ContextExpires, ClientGone, RetryTimePasses
<1>2. UNCHANGED clocks \/ (ctxErr # "nil" => ctxErr' # "nil")
  BY Zenon DEF Next, ServeHTTP, ApplyRequestPlugins, ApplyResponsePlugins,
      ArriveAdmin, Arrive, Acquire, EnforceRequestLimits, Match, Overload,
      PoolLookup, BreakerAllow, CacheLookup, RoundTripWithRetry, ExecuteLoop, Pick,
      RoundTripUpstream, RoundTripEnded, JudgeResponse, JudgeError, SleepWithBackoff, Result,
      WriteUpstreamResponse, ReadUpstreamBody, Return, RunDeferred, Recover, Finish, Panic,
      DeadlinePasses, ContextExpires, ClientGone, RetryTimePasses
<1> QED BY <1>1, <1>2 DEF plugins, clocks

LEMMA UpstreamStep ==
  ASSUME TypeOK, AnswerInv, UpstreamInv, LoopInv, Next
  PROVE  UpstreamInv'
<1>1. contacts \in Nat /\ next \in Nat /\ Len(Filters) \in Nat
  BY PipelineAssumption DEF TypeOK
<1>2. contacts = 0 \/ pc \notin BeforeUpstream
  BY <1>1, TypeParts DEF LoopInv, LoopOK
<1>3. pc = "attempt" => answer = "none"
  BY Zenon DEF AnswerInv
<1>4. consented \subseteq consented'
  BY ConsentChanges, Zenon DEF ApplyRequestPlugins, ApplyResponsePlugins, FiltersEnd, FilterFails,
                        FilterContinues, plugins
<1>5. ctxErr = "nil" /\ pc \in Beyond => AllConsented
  BY DEF UpstreamInv, Beyond
<1>6. (answer \in EarlyErrors \cup {"plugin", "cached"} => contacts = 0)'
  <2>1. CASE Pick
    BY <1>3, <2>1, Zenon DEF Pick, Goto, reply, EarlyErrors, LimitErrors
  <2>2. CASE contacts' = contacts
    <3>1. (UpstreamErrors \cup FilterErrors \cup {"response", "panic"})
            \cap (EarlyErrors \cup {"plugin", "cached"}) = {}
      BY Zenon DEF UpstreamErrors, FilterErrors, EarlyErrors, LimitErrors
    <3> QED BY <1>2, <2>2, <3>1, AnswerChanges, Zenon DEF UpstreamInv, UpstreamComesLast
  <2> QED BY <2>1, <2>2, ContactChanges
<1>7. (contacts > 0 => AllConsented)'
  <2>1. CASE Pick /\ contacts' # contacts
    <3>1. AllConsented
      BY <1>5, <2>1, Zenon DEF Pick, Beyond, Forwarding
    <3> QED BY <1>4, <3>1, Zenon DEF AllConsented
  <2>2. CASE contacts' = contacts
    BY <1>4, <2>2, Zenon DEF UpstreamInv, UpstreamComesLast, AllConsented
  <2> QED BY <2>1, <2>2, ContactChanges
<1>8. (pc \in Entering =>
        \A i \in 1..Len(Filters) : i < next /\ Filters[i] = "failClose" => i \in consented)'
  <2> SUFFICES ASSUME pc' \in Entering, NEW i \in 1..Len(Filters), i < next',
                      Filters[i] = "failClose"
               PROVE  i \in consented'
    BY Zenon
  <2>1. pc \in Entering
    BY FlowStep
  <2>2. i < next => i \in consented
    BY <2>1, Zenon DEF UpstreamInv
  <2>3. CASE ApplyRequestPlugins
    <3>1. CASE FiltersEnd("breaker")
      BY <3>1 DEF FiltersEnd
    <3>2. CASE FilterFails
      BY <1>1, <1>4, <2>2, <3>2 DEF FilterFails
    <3>3. CASE FilterContinues
      BY <1>1, <2>2, <2>3, <3>3 DEF FilterContinues, ApplyRequestPlugins
    <3>4. CASE UNCHANGED plugins
      BY <2>2, <3>4, Zenon DEF plugins
    <3> QED BY <2>3, <3>1, <3>2, <3>3, <3>4, Zenon DEF ApplyRequestPlugins
  <2>4. CASE ApplyResponsePlugins
    BY <2>1, <2>4, Zenon DEF ApplyResponsePlugins, Entering
  <2>5. CASE UNCHANGED <<next, consented>>
    BY <2>2, <2>5, Zenon
  <2> QED BY <2>3, <2>4, <2>5, ConsentChanges, Zenon
<1>9. (pc \in Beyond => ctxErr # "nil" \/ AllConsented)'
  <2> SUFFICES ASSUME pc' \in Beyond, ctxErr' = "nil" PROVE AllConsented'
    BY Zenon
  <2>1. ctxErr = "nil"
    BY ConsentChanges
  <2>2. CASE pc \in Beyond
    BY <1>4, <1>5, <2>1, <2>2 DEF AllConsented
  <2>3. CASE ApplyRequestPlugins /\ FiltersEnd("breaker")
    <3>1. next > Len(Filters) /\ pc = "requestFilters"
      BY <2>1, <2>3, Zenon DEF FiltersEnd, ApplyRequestPlugins
    <3>2. AllConsented
      BY <1>1, <3>1 DEF UpstreamInv, Entering, AllConsented
    <3> QED BY <1>4, <3>2, Zenon DEF AllConsented
  <2> QED BY <2>2, <2>3, FlowStep, Zenon
<1> QED BY <1>6, <1>7, <1>8, <1>9, Zenon DEF UpstreamInv, UpstreamComesLast, AllConsented, Beyond
LEMMA LoopInvStep == ASSUME TypeOK, LoopInv, Next PROVE LoopInv'
<1>1. attempts \in Nat /\ contacts \in Nat /\ retries \in Nat
  BY Zenon DEF TypeOK
<1>2. Limit \in Nat \ {0} /\ Limit' = Limit
  <2>1. UNCHANGED route
    BY Zenon DEF Next, ServeHTTP, ApplyRequestPlugins, ApplyResponsePlugins, ArriveAdmin, Arrive,
      Acquire, EnforceRequestLimits, Match, Overload, PoolLookup, BreakerAllow, CacheLookup,
      RoundTripWithRetry, ExecuteLoop, Pick, RoundTripUpstream, RoundTripEnded, JudgeResponse,
      JudgeError, SleepWithBackoff, Result, WriteUpstreamResponse, ReadUpstreamBody, Return,
      RunDeferred, Recover, Finish, Panic, DeadlinePasses, ContextExpires, ClientGone,
      RetryTimePasses
  <2> QED BY <2>1, PipelineAssumption DEF Limit
<1> USE DEF LoopInv, BeforeUpstream, Entering
<1>3. ASSUME UNCHANGED <<attempts, contacts, retries>>,
             pc' = pc \/ pc' \notin {"loop", "attempt", "sent", "judge", "backoff"},
             pc' \in BeforeUpstream => pc \in BeforeUpstream
      PROVE  LoopInv'
  BY <1>1, <1>2, <1>3, Zenon
<1>4. CASE ArriveAdmin \/ Arrive \/ Acquire \/ EnforceRequestLimits \/ Match
  BY <1>3, <1>4, Zenon DEF ArriveAdmin, Arrive, Acquire, EnforceRequestLimits, Match, Take, Goto, Refuse, loop
<1>5. CASE Overload \/ PoolLookup \/ BreakerAllow \/ CacheLookup
  BY <1>3, <1>5, Zenon DEF Overload, PoolLookup, BreakerAllow, CacheLookup, Take, Goto, Refuse, loop
<1>6. CASE ApplyRequestPlugins
  BY <1>3, <1>6, Zenon
  DEF ApplyRequestPlugins, FiltersEnd, FilterFails, FilterContinues, Goto, Refuse, loop
<1>7. CASE RoundTripWithRetry
  BY <1>1, <1>2, <1>7, Zenon DEF RoundTripWithRetry, GiveUp, Goto, loop
<1>8. CASE ExecuteLoop
  BY <1>1, <1>2, <1>8 DEF ExecuteLoop, GiveUp, Goto
<1>9. CASE Pick
  BY <1>1, <1>2, <1>9 DEF Pick, Goto
<1>10. CASE RoundTripUpstream \/ RoundTripEnded
  BY <1>1, <1>2, <1>10, Zenon DEF RoundTripUpstream, RoundTripEnded, Goto
<1>11. CASE JudgeResponse
  BY <1>1, <1>2, <1>11 DEF JudgeResponse, Goto
<1>12. CASE JudgeError
  BY <1>1, <1>2, <1>12 DEF JudgeError, GiveUp, Goto
<1>13. CASE SleepWithBackoff
  BY <1>1, <1>2, <1>13, Zenon DEF SleepWithBackoff, GiveUp, Goto
<1>14. CASE Result \/ WriteUpstreamResponse \/ ReadUpstreamBody \/ Return
  BY <1>3, <1>14, Zenon DEF Result, WriteUpstreamResponse, ReadUpstreamBody, Return, Goto, Refuse, loop
<1>15. CASE ApplyResponsePlugins
  BY <1>3, <1>15, Zenon
  DEF ApplyResponsePlugins, FiltersEnd, FilterFails, FilterContinues, Goto, Refuse, loop
<1>16. CASE RunDeferred \/ Recover \/ Finish \/ Panic
  BY <1>3, <1>16, Zenon DEF RunDeferred, Recover, Finish, Panic, Goto, loop
<1>17. CASE DeadlinePasses \/ ContextExpires \/ ClientGone \/ RetryTimePasses
  BY <1>3, <1>17, Zenon DEF DeadlinePasses, ContextExpires, ClientGone, RetryTimePasses, loop
<1> HIDE DEF LoopInv, BeforeUpstream, Entering
<1> QED
  BY <1>4, <1>5, <1>6, <1>7, <1>8, <1>9, <1>10, <1>11, <1>12, <1>13, <1>14, <1>15, <1>16, <1>17, Zenon
  DEF Next, ServeHTTP

LEMMA TypeStep == ASSUME TypeOK, Stacked, NotYetTaken, Next PROVE TypeOK'
<1>1. UNCHANGED route
  BY Zenon DEF Next, ServeHTTP, ApplyRequestPlugins, ApplyResponsePlugins, ArriveAdmin, Arrive,
    Acquire, EnforceRequestLimits, Match, Overload, PoolLookup, BreakerAllow, CacheLookup,
    RoundTripWithRetry, ExecuteLoop, Pick, RoundTripUpstream, RoundTripEnded, JudgeResponse,
    JudgeError, SleepWithBackoff, Result, WriteUpstreamResponse, ReadUpstreamBody, Return,
    RunDeferred, Recover, Finish, Panic, DeadlinePasses, ContextExpires, ClientGone,
    RetryTimePasses
<1>2. /\ pc \in Labels /\ route \in [allowRetry : BOOLEAN, cacheEligible : BOOLEAN]
      /\ LifeOK /\ ReplyOK /\ ClocksOK /\ PluginsOK /\ LoopOK
  BY TypeParts
<1>3. /\ pc' \in Labels /\ LifeOK' /\ ReplyOK' /\ ClocksOK' /\ PluginsOK' /\ LoopOK'
  BY <1>2, LabelStep, StackedStep, ReplyStep, ClocksStep, PluginsStep, LoopStep, Zenon
<1>4. TypeOK' <=> /\ pc' \in Labels /\ route' \in [allowRetry : BOOLEAN, cacheEligible : BOOLEAN]
                  /\ LifeOK' /\ ReplyOK' /\ ClocksOK' /\ PluginsOK' /\ LoopOK'
  BY Zenon DEF TypeOK, LifeOK, ReplyOK, ClocksOK, PluginsOK, LoopOK, Answers
<1> QED BY <1>1, <1>2, <1>3, <1>4, Zenon

LEMMA InitInv == Init => PipelineInv
<1> SUFFICES ASSUME Init PROVE PipelineInv
  BY Zenon
<1> USE PipelineAssumption DEF Init
<1>1. TypeOK
  <2>1. LifeOK /\ ClocksOK
    <3>1. <<>> \in Seq(Resources \cup {"recover"})
      OBVIOUS
    <3>2. LifeOK
      BY <3>1, Zenon DEF LifeOK
    <3>3. ClocksOK
      BY Zenon DEF ClocksOK
    <3> QED BY <3>2, <3>3, Zenon
  <2>2. ReplyOK
    BY AnswerSet, Zenon DEF ReplyOK
  <2>3. PluginsOK
    BY DEF PluginsOK
  <2>4. LoopOK
    BY Zenon DEF LoopOK
  <2>5. pc \in Labels
    BY Zenon DEF Labels
  <2> QED BY <2>1, <2>2, <2>3, <2>4, <2>5, TypeParts, Zenon
<1>2. Stacked /\ NotYetTaken
  BY DEF Stacked, NotYetTaken, Deferred
<1>3. AnswerInv
  BY Zenon DEF AnswerInv
<1>4. UpstreamInv
  BY DEF UpstreamInv, UpstreamComesLast, Entering, Forwarding, EarlyErrors, LimitErrors
<1>5. LoopInv
  BY DEF LoopInv, Limit
<1> QED BY <1>1, <1>2, <1>3, <1>4, <1>5 DEF PipelineInv

LEMMA NextInv == PipelineInv /\ [Next]_vars => PipelineInv'
<1> SUFFICES ASSUME PipelineInv, [Next]_vars PROVE PipelineInv'
  OBVIOUS
<1>1. CASE Next
  <2>1. LifeOK
    BY TypeParts, Zenon DEF PipelineInv
  <2> QED
    BY <1>1, <2>1, TypeStep, StackedStep, NotYetStep, AnswerStep, UpstreamStep, LoopInvStep, Zenon
    DEF PipelineInv
<1>2. CASE UNCHANGED vars
  <2> USE <1>2 DEF vars, life, reply, clocks, plugins, loop
  <2>1. TypeOK'
    BY DEF PipelineInv, TypeOK
  <2>2. Stacked' /\ NotYetTaken'
    <3>1. Stacked'
      BY Zenon DEF PipelineInv, Stacked, Deferred
    <3>2. NotYetTaken'
      BY Zenon DEF PipelineInv, NotYetTaken
    <3> QED BY <3>1, <3>2, Zenon
  <2>3. AnswerInv'
    BY Zenon DEF PipelineInv, AnswerInv
  <2>4. UpstreamInv'
    BY Zenon DEF PipelineInv, UpstreamInv, UpstreamComesLast, AllConsented
  <2>5. LoopInv'
    BY Zenon DEF PipelineInv, LoopInv, Limit
  <2> QED BY <2>1, <2>2, <2>3, <2>4, <2>5, Zenon DEF PipelineInv
<1> QED BY <1>1, <1>2

LEMMA InvImplies == PipelineInv => HeldIsDeferred /\ OneAnswer /\ UpstreamComesLast /\ AttemptsBounded
<1> SUFFICES ASSUME PipelineInv
             PROVE  HeldIsDeferred /\ OneAnswer /\ UpstreamComesLast /\ AttemptsBounded
  BY Zenon
<1>1. HeldIsDeferred
  <2> DEFINE calls == {defers[i] : i \in 1..Len(defers)}
  <2>1. defers \in Seq(Resources \cup {"recover"}) /\ Len(defers) \in Nat
    BY DEF PipelineInv, TypeOK
  <2>2. IsFiniteSet(calls) /\ Cardinality(calls) = Len(defers)
    BY <2>1, CountDistinct, Zenon DEF PipelineInv, Stacked
  <2> HIDE DEF calls
  <2>3. ASSUME NEW c PROVE Cardinality(calls \ {c}) >= Len(defers) - 1
    <3>1. Cardinality(calls \ {c}) = IF c \in calls THEN Cardinality(calls) - 1 ELSE Cardinality(calls)
      BY <2>2, FS_RemoveElement, Zenon
    <3> QED BY <2>1, <2>2, <3>1
  <2>4. Deferred = calls \ {"recover"}
    BY Zenon DEF Deferred, calls
  <2> QED BY <2>3, <2>4, Zenon DEF PipelineInv, Stacked, NotYetTaken, HeldIsDeferred
<1>2. OneAnswer
  BY DEF PipelineInv, AnswerInv, OneAnswer
<1>3. UpstreamComesLast
  BY Zenon DEF PipelineInv, UpstreamInv
<1>4. AttemptsBounded
  <2>1. attempts \in Nat /\ contacts \in Nat /\ retries \in Nat /\ Limit \in Nat
    BY PipelineAssumption, Zenon DEF PipelineInv, TypeOK, Limit
  <2> QED BY <2>1 DEF PipelineInv, LoopInv, AttemptsBounded, Limit
<1> QED BY <1>1, <1>2, <1>3, <1>4

\* ServeHTTP, whatever the filters and the number of attempts, and wherever
\* panics, timeouts and cancellations strike: what the request holds is what its
\* deferred calls give back, each once; the client gets one answer, and none only
\* if it is gone; no upstream is contacted before the filters that must have
\* consented, nor more often than the policy and the paid retries allow.
THEOREM PipelineCorrect ==
  Spec => [](TypeOK /\ HeldIsDeferred /\ OneAnswer /\ UpstreamComesLast /\ AttemptsBounded)
<1>1. Spec => []PipelineInv
  BY InitInv, NextInv, PTL DEF Spec
<1>2. PipelineInv => TypeOK
  BY Zenon DEF PipelineInv
<1> QED BY <1>1, <1>2, InvImplies, PTL

\* OneAnswer: no path through ServeHTTP, its recover included, writes a second
\* answer, and none is missing while the client waits.
THEOREM AnsweredOnce == Spec => []OneAnswer
BY PipelineCorrect, PTL

\* UpstreamComesLast: no attempt starts before every fail-closed filter has
\* let the request go on, and none for a request that was answered without one.
THEOREM FiltersConsent == Spec => []UpstreamComesLast
BY PipelineCorrect, PTL

\* AttemptsBounded: the retry loop makes no attempt that MaxAttempts and the
\* retries paid for do not cover.
THEOREM AttemptsAreCovered == Spec => []AttemptsBounded
BY PipelineCorrect, PTL
=============================================================================
