------------------------------ MODULE ModelCalls ------------------------------
(***************************************************************************)
(* The language calls of one workflow stage: DeepSeekClient's bounded      *)
(* repair of an invalid answer, the waves in which a stage sends its       *)
(* batches, and the recovery of citation batches, which replays a failed   *)
(* batch once, splits it once, and stops at a shared budget of calls and   *)
(* of time.                                                                *)
(*                                                                         *)
(* A step is what happens between two awaits: the provider answers one     *)
(* call, the cancellation marker is read, or a stage reacts and sends.     *)
(***************************************************************************)
EXTENDS FiniteSets, Naturals, Sequences, SequencesExt, FiniteSetsExt

CONSTANTS
  Modes,            \* subset of Mode to run
  Batches,          \* the stage's tasks, in batches
  Models,           \* model identifiers the provider may report
  MaxTokens,        \* max_tokens of each mode
  RetryMaxTokens,   \* _STRUCTURED_TRUNCATION_RETRY_MAX_TOKENS
  BatchAttempts,    \* LANGUAGE_BATCH_SCHEMA_ATTEMPTS
  Concurrency,      \* LANGUAGE_BATCH_CONCURRENCY
  MaxRecoveryCalls  \* CITATION_RECOVERY_MAX_CALLS

\* "single" is _call with repair, "repaired" the planner's second call, whose
\* own repair is off; the others are the stages that work in batches.
Mode == {"single", "repaired", "evidence", "citation"}
Batched == {"evidence", "citation"}

ASSUME ModelCallsAssumption ==
  /\ Modes \subseteq Mode
  /\ Len(Batches) \in Nat \ {0} /\ DOMAIN Batches = 1..Len(Batches)
  /\ \A b \in DOMAIN Batches : Batches[b] # {} /\ Cardinality(Batches[b]) <= 2
  /\ Models # {}
  /\ MaxTokens \in [Mode -> Nat \ {0}]
  /\ RetryMaxTokens \in Nat
  /\ BatchAttempts \in 1..3 /\ Concurrency \in 1..2
  /\ MaxRecoveryCalls \in Nat

VARIABLES
  mode,
  slots,      \* the calls in flight
  pc,         \* where the stage is
  wave,       \* the first batch of the current wave
  answered,   \* responses: per batch, the tasks and the requests of its answer
  failures,   \* collected failures, per batch
  current,    \* the batch being recovered
  half,       \* its split: the halves sent and answered so far
  recovery,   \* recovery_call_count
  lost,       \* requests and failures of calls that ended in an error
  result,     \* what the stage ends with
  cancelled,  \* the run's cancellation marker
  late,       \* time.monotonic() >= deadline
  sent, bad,  \* history: requests sent, answers that were not accepted
  after       \* history: calls begun since the cancellation was requested

stageVars == <<mode, pc, wave, answered, failures, current, half, recovery, lost, result>>
envVars   == <<cancelled, late>>
history   == <<sent, bad, after>>
vars == <<stageVars, slots, envVars, history>>

Slot == 1..Concurrency
Batch == DOMAIN Batches
None == 0

------------------------------------------------------------------------------
(* generate_structured: one call, at most `limit` requests *)

Free == [state |-> "free", tasks |-> {}, limit |-> 0, attempt |-> 0, truncated |-> 0,
         used |-> FALSE, repairs |-> 0, tokens |-> 0, bad |-> 0, error |-> "none",
         model |-> None]

\* The first request of a call: no repair instruction, the caller's cap.
NewCall(tasks, limit) ==
  [Free EXCEPT !.state = "waiting", !.tasks = tasks, !.limit = limit,
               !.attempt = 1, !.tokens = MaxTokens[mode]]

\* The retry of a truncated answer has twice the room and no repair
\* instruction; it is the last attempt of its call.
IsTruncationRetry(c) == c.attempt = c.truncated
TruncationRetryMaxTokens == Min({MaxTokens[mode] * 2, RetryMaxTokens})

ShouldRetryTruncated(c, kind) ==
  kind = "truncated" /\ ~c.used /\ MaxTokens[mode] < RetryMaxTokens

Terminal(c) == IsTruncationRetry(c) \/ c.attempt = c.limit

NextAttempt(c, retryTruncated) ==
  [c EXCEPT !.attempt = @ + 1, !.bad = @ + 1,
            !.truncated = IF retryTruncated THEN c.attempt + 1 ELSE @,
            !.used = @ \/ retryTruncated,
            !.repairs = IF retryTruncated THEN @ ELSE @ + 1,
            !.tokens = IF retryTruncated THEN TruncationRetryMaxTokens
                                         ELSE MaxTokens[mode]]

\* PROVIDER_BODY_PARSE_EXHAUSTED and STRUCTURED_SCHEMA_REPAIR_EXHAUSTED
ErrorCode(kind) == IF kind = "schema" THEN "schema" ELSE "body"
Exhausted(c, kind) ==
  [c EXCEPT !.state = "failed", !.bad = @ + 1, !.error = ErrorCode(kind)]

\* An answer that does not parse, was cut off, or does not fit the schema.
Invalid(c, kind) ==
  IF Terminal(c) THEN Exhausted(c, kind)
  ELSE NextAttempt(c, ShouldRetryTruncated(c, kind))

\* A timeout, a transport error or a status of 400 and above is not repaired.
HttpError(c, kind) == [c EXCEPT !.state = "failed", !.error = kind]
Accepted(c, m) == [c EXCEPT !.state = "answered", !.model = m]

InvalidKind == {"unparsable", "truncated", "schema"}
HttpKind == {"transient", "rejected"}
Retryable(error) == error = "transient"
ProviderBodyParseFailure(error) == error = "body"

Answer(i) ==
  /\ slots[i].state = "waiting"
  /\ \E c \in {Accepted(slots[i], m) : m \in Models}
              \union {Invalid(slots[i], k) : k \in InvalidKind}
              \union {HttpError(slots[i], k) : k \in HttpKind} :
       /\ slots' = [slots EXCEPT ![i] = c]
       /\ sent' = IF c.state = "waiting" THEN sent + 1 ELSE sent
       /\ bad' = bad + c.bad - slots[i].bad
  /\ UNCHANGED <<stageVars, envVars, after>>

------------------------------------------------------------------------------
(* What a stage sends, and how it ends *)

NoAnswer == [tasks |-> {}, requests |-> 0, bad |-> 0, model |-> None]
AnswerOf(c) == [tasks |-> c.tasks, requests |-> c.attempt, bad |-> c.bad, model |-> c.model]
NoHalf == [next |-> {}, tasks |-> {}, requests |-> 0, bad |-> 0, models |-> {}]
NoResult == [outcome |-> "none", retryable |-> FALSE, requests |-> 0, bad |-> 0]

Init ==
  /\ mode \in Modes
  /\ slots = [i \in Slot |-> Free]
  /\ pc = IF mode \in Batched THEN "wave" ELSE "call"
  /\ wave = 1
  /\ answered = [b \in Batch |-> NoAnswer]
  /\ failures = [b \in Batch |-> "none"]
  /\ current = None
  /\ half = NoHalf
  /\ recovery = 0
  /\ lost = [requests |-> 0, bad |-> 0]
  /\ result = NoResult
  /\ cancelled = FALSE /\ late = FALSE
  /\ sent = 0 /\ bad = 0 /\ after = 0

Send(calls) ==
  LET n == Cardinality({i \in Slot : calls[i] # Free}) IN
  /\ slots' = calls
  /\ sent' = sent + n
  /\ after' = IF cancelled THEN after + n ELSE after
  /\ UNCHANGED bad
SendOne(tasks, limit) ==
  Send([i \in Slot |-> IF i = 1 THEN NewCall(tasks, limit) ELSE Free])

\* Mutant: the stage waits until every call has succeeded.
AllAnswered == \A i \in Slot : slots[i].state \in {"free", "answered"}
Over == \A i \in Slot : slots[i].state # "waiting"
Ended(r) == pc' = "ended" /\ result' = r
End(outcome) == Ended([NoResult EXCEPT !.outcome = outcome])

\* _call: the stage's only call, and its failure.
Call ==
  /\ pc = "call"
  /\ pc' = "called"
  /\ SendOne({}, IF mode = "repaired" THEN 1 ELSE 3)
  /\ UNCHANGED <<mode, wave, answered, failures, current, half, recovery, lost, result, envVars>>
CallEnds ==
  LET c == slots[1] IN
  /\ pc = "called" /\ Over
  /\ Ended([outcome |-> IF c.state = "answered" THEN "done" ELSE "failed",
            retryable |-> Retryable(c.error), requests |-> c.attempt, bad |-> c.bad])
  /\ UNCHANGED <<mode, wave, answered, failures, current, half, recovery, lost, slots,
                 envVars, history>>

------------------------------------------------------------------------------
(* _execute_language_batches: waves of concurrent calls *)

\* Mutant: the marker is read once, before the first wave.
CheckFirstWave ==
  /\ pc = "wave"
  /\ IF cancelled /\ wave = 1 THEN End("cancelled") ELSE pc' = "send" /\ UNCHANGED result
  /\ UNCHANGED <<mode, wave, answered, failures, current, half, recovery, lost, slots,
                 envVars, history>>

\* The marker is read before a wave; the calls begin after that.
CheckWave ==
  /\ pc = "wave"
  /\ IF cancelled THEN End("cancelled") ELSE pc' = "send" /\ UNCHANGED result
  /\ UNCHANGED <<mode, wave, answered, failures, current, half, recovery, lost, slots,
                 envVars, history>>

InWave == {b \in Batch : wave <= b /\ b < wave + Concurrency}

SendWave ==
  /\ pc = "send"
  /\ pc' = "gather"
  /\ Send([i \in Slot |-> IF wave + i - 1 \in InWave
                          THEN NewCall(Batches[wave + i - 1], BatchAttempts) ELSE Free])
  /\ UNCHANGED <<mode, wave, answered, failures, current, half, recovery, lost, result, envVars>>

CallOf(b) == slots[b - wave + 1]
Failing(f) == {b \in Batch : f[b] # "none"}

\* gather returns when every call of the wave is over.  Evidence
\* classification stops at a wave with a failure, the audit goes on.
GoOn(f) == wave + Concurrency <= Len(Batches) /\ (mode = "citation" \/ Failing(f) = {})

Gather ==
  LET got == [b \in Batch |-> IF b \in InWave /\ CallOf(b).state = "answered"
                              THEN AnswerOf(CallOf(b)) ELSE answered[b]]
      err == [b \in Batch |-> IF b \in InWave THEN CallOf(b).error ELSE failures[b]]
      failed == {i \in Slot : slots[i].state = "failed"}
  IN
  /\ pc = "gather" /\ Over
  /\ answered' = got
  /\ failures' = err
  /\ lost' = [requests |-> lost.requests + SumFunction([i \in failed |-> slots[i].attempt]),
              bad |-> lost.bad + SumFunction([i \in failed |-> slots[i].bad])]
  /\ slots' = [i \in Slot |-> Free]
  /\ IF GoOn(err) THEN wave' = wave + Concurrency /\ pc' = "wave"
     ELSE UNCHANGED wave /\ pc' = "waves over"
  /\ UNCHANGED <<mode, current, half, recovery, result, envVars, history>>

------------------------------------------------------------------------------
(* The result of the batches *)

\* _fail_language_batch; the details of an exhausted recovery count every
\* request of the stage.
Fail(error, exhausted, requests) ==
  Ended([outcome |-> IF exhausted THEN "exhausted" ELSE "failed",
         retryable |-> Retryable(error) /\ ~exhausted,
         requests |-> requests, bad |-> 0])

First(f) == Min(Failing(f))
Requests(got) == SumFunction([b \in Batch |-> got[b].requests])
BadAnswers(got) == SumFunction([b \in Batch |-> got[b].bad])

\* recovery_details: the accepted answers, the halves and the failed calls.
RequestsSoFar == Requests(answered) + half.requests + lost.requests

\* aggregate_call_metadata refuses calls whose answers name different models.
SameModel(got) == Cardinality({got[b].model : b \in Batch}) = 1

Finish(got) ==
  IF SameModel(got)
  THEN Ended([outcome |-> "done", retryable |-> FALSE,
              requests |-> Requests(got) + lost.requests,
              bad |-> BadAnswers(got) + lost.bad])
  ELSE End("raised")

\* Only citation batches that all failed on the provider's body are recovered.
Recoverable ==
  /\ mode = "citation"
  /\ \A b \in Failing(failures) : ProviderBodyParseFailure(failures[b])

WavesOver ==
  /\ pc = "waves over"
  /\ IF Failing(failures) = {}
     THEN Finish(answered) /\ UNCHANGED current
     ELSE IF Recoverable
     THEN pc' = "before pause" /\ current' = First(failures) /\ UNCHANGED result
     ELSE Fail(failures[First(failures)], FALSE, 0) /\ UNCHANGED current
  /\ UNCHANGED <<mode, wave, answered, failures, half, recovery, lost, slots, envVars, history>>

------------------------------------------------------------------------------
(* _run_citation_batches_with_recovery: one batch after the other *)

\* recovery_boundary awaits the marker and then looks at the budget; what
\* follows the look comes without an await.
AfterBoundary == [p \in {"before pause", "after pause", "before half"} |->
                    CASE p = "before pause" -> "pause"
                      [] p = "after pause"  -> "replay"
                      [] p = "before half"  -> "half"]

Boundary ==
  /\ pc \in DOMAIN AfterBoundary
  /\ IF cancelled THEN End("cancelled") ELSE pc' = AfterBoundary[pc] /\ UNCHANGED result
  /\ UNCHANGED <<mode, wave, answered, failures, current, half, recovery, lost, slots,
                 envVars, history>>

WithinBudget == recovery < MaxRecoveryCalls /\ ~late
GiveUp == Fail(failures[current], TRUE, RequestsSoFar)
Keep == UNCHANGED <<mode, wave, answered, failures, current, envVars>>

\* The pause before a replay may not fit before the deadline either.
Pause ==
  /\ pc = "pause"
  /\ \/ WithinBudget /\ pc' = "after pause" /\ UNCHANGED result
     \/ GiveUp
  /\ UNCHANGED <<half, recovery, lost, slots, history>> /\ Keep

RecoveryCall(tasks, next) ==
  \/ /\ WithinBudget
     /\ recovery' = recovery + 1
     /\ SendOne(tasks, BatchAttempts)
     /\ pc' = next /\ UNCHANGED result
  \/ /\ ~WithinBudget
     /\ GiveUp
     /\ UNCHANGED <<recovery, slots, history>>

Replay ==
  /\ pc = "replay"
  /\ RecoveryCall(Batches[current], "replaying")
  /\ UNCHANGED <<half, lost>> /\ Keep

\* The next failed batch, or the end.
Resume(got) ==
  LET rest == {b \in Failing(failures) : b > current} IN
  IF rest = {} THEN Finish(got) /\ UNCHANGED current
  ELSE current' = Min(rest) /\ pc' = "before pause" /\ UNCHANGED result

\* Mutant: a failed call counts as one request.
LoseOne(c) == lost' = [requests |-> lost.requests + 1, bad |-> lost.bad + c.bad]
Lose(c) == lost' = [requests |-> lost.requests + c.attempt, bad |-> lost.bad + c.bad]

Recovered(a) ==
  /\ answered' = [answered EXCEPT ![current] = a]
  /\ Resume(answered')

\* record_failure comes before the details of the failure are put together.
GiveUpWith(c) == Fail(c.error, TRUE, RequestsSoFar + c.attempt)

MaySplit(c) == ProviderBodyParseFailure(c.error) /\ Cardinality(c.tasks) > 1

ReplayEnds ==
  LET c == slots[1] IN
  /\ pc = "replaying" /\ Over
  /\ slots' = [i \in Slot |-> Free]
  /\ \/ /\ c.state = "answered"
        /\ Recovered(AnswerOf(c))
        /\ UNCHANGED <<failures, half, lost>>
     \/ /\ c.state = "failed"
        /\ Lose(c)
        /\ failures' = [failures EXCEPT ![current] = c.error]
        /\ IF MaySplit(c)
           THEN /\ half' = [NoHalf EXCEPT !.next = Batches[current]]
                /\ pc' = "before half" /\ UNCHANGED result
           ELSE GiveUpWith(c) /\ UNCHANGED half
        /\ UNCHANGED <<answered, current>>
  /\ UNCHANGED <<mode, wave, recovery, envVars, history>>

\* split_citation_audit_batch: one call for each task.
Half ==
  /\ pc = "half"
  /\ \E t \in half.next :
       /\ RecoveryCall({t}, "halving")
       /\ half' = IF pc' = "halving" THEN [half EXCEPT !.next = @ \ {t}] ELSE half
  /\ UNCHANGED lost /\ Keep

\* Mutant: the second half replaces the first.
KeepLastHalf(c) ==
  [half EXCEPT !.tasks = c.tasks, !.requests = @ + c.attempt,
               !.bad = @ + c.bad, !.models = @ \union {c.model}]
AddHalf(c) ==
  [half EXCEPT !.tasks = @ \union c.tasks, !.requests = @ + c.attempt,
               !.bad = @ + c.bad, !.models = @ \union {c.model}]
Merged(h) == [tasks |-> h.tasks, requests |-> h.requests, bad |-> h.bad,
              model |-> CHOOSE m \in h.models : TRUE]

HalfEnds ==
  LET c == slots[1]
      h == AddHalf(c) IN
  /\ pc = "halving" /\ Over
  /\ slots' = [i \in Slot |-> Free]
  /\ \/ /\ c.state = "answered" /\ h.next # {}
        /\ half' = h
        /\ pc' = "before half"
        /\ UNCHANGED <<answered, current, lost, result>>
     \/ /\ c.state = "answered" /\ h.next = {}
        /\ half' = NoHalf
        /\ IF Cardinality(h.models) = 1 THEN Recovered(Merged(h))
           ELSE End("raised") /\ UNCHANGED <<answered, current>>
        /\ UNCHANGED lost
     \/ /\ c.state = "failed"
        /\ Lose(c) /\ GiveUpWith(c)
        /\ UNCHANGED <<half, answered, current>>
  /\ UNCHANGED <<mode, wave, failures, recovery, envVars, history>>

------------------------------------------------------------------------------
(* The owner cancels, and time passes. *)
RequestCancellation ==
  /\ ~cancelled /\ pc # "ended"
  /\ cancelled' = TRUE
  /\ UNCHANGED <<stageVars, slots, late, history>>

DeadlinePasses ==
  /\ ~late /\ mode = "citation" /\ pc # "ended"
  /\ late' = TRUE
  /\ UNCHANGED <<stageVars, slots, cancelled, history>>

Stage ==
  \/ Call \/ CallEnds
  \/ CheckWave \/ SendWave \/ Gather \/ WavesOver
  \/ Boundary \/ Pause \/ Replay \/ ReplayEnds \/ Half \/ HalfEnds
Next ==
  \/ Stage
  \/ \E i \in Slot : Answer(i)
  \/ RequestCancellation \/ DeadlinePasses

Spec == Init /\ [][Next]_vars

\* The stage's coroutine goes on, and a request of httpx ends by its timeout.
FairSpec == Spec /\ WF_vars(Stage) /\ \A i \in Slot : WF_vars(Answer(i))

------------------------------------------------------------------------------
(* Properties *)

\* Calls, batches and accounts of a stage keep their types and their bounds.
TypeOK ==
  /\ mode \in Modes
  /\ \A i \in Slot : slots[i].attempt \in 0..slots[i].limit /\ slots[i].limit \in 0..3
  /\ wave \in 1..Len(Batches)
  /\ current \in Batch \union {None}
  /\ recovery \in 0..MaxRecoveryCalls
  /\ half.tasks \union half.next \subseteq UNION {Batches[b] : b \in Batch}
  /\ result.outcome \in {"none", "done", "failed", "exhausted", "cancelled", "raised"}

\* A stage that ends well has, for every batch, an answer to exactly the tasks
\* of that batch: in one piece or put together from its two halves.
EveryTaskIsAnswered ==
  result.outcome = "done" /\ mode \in Batched =>
    \A b \in Batch : answered[b].tasks = Batches[b]

\* What a stage reports of its cost is what it has spent: each request once,
\* those of failed calls, replays and halves included, whether it ends well
\* or gives up its recovery; and each answer that was not accepted.
AccountsAreExact ==
  /\ result.outcome \in {"done", "exhausted"} => result.requests = sent
  /\ result.outcome = "done" => result.bad = bad

\* Once the owner has cancelled, at most the calls of one wave still begin.
CancelBoundsSpending == after <= Concurrency

\* Whatever the provider answers, the stage ends.
EventuallyEnds == <>(pc = "ended")

==============================================================================
