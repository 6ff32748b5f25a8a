# Elara: verification runs in TLA+

Elara takes a claim, a URL or a document, researches it in a fixed sequence of
stages and publishes a report whose every sentence is backed by an audited
citation. This directory models how a verification *run* lives: the API that
creates it, the Celery worker that executes it, the PostgreSQL row and event
log that everybody trusts, the Redis lock that keeps workers apart, the
reviewer who decides on sensitive reports, and the page that watches; what the
stages of the workflow do, from the search plan to the audited citations; the
calls of the language model; and the uploads, exports and snapshots that are
kept in two stores. Beside them it models the Lite demo, which answers in one request. TLC checks the models on small instances; TLAPS proves the
central theorems for every value of the constants.

Paths below are relative to `src/apps/`.

## The system

| component | state it keeps | operations | what makes it correct |
|---|---|---|---|
| run lifecycle (`api/app/services/run_lifecycle.py`) | `verification_runs.status`, `cancellation_requested_at`, `publication_state`; the sequence of `agent_events` | `persist_progress`, `persist_completed_run`, each one transaction under the row lock | statuses move forward, a terminal one is final but for an approval, an event per change, cancellation beats completion, an allegation needs a reviewer |
| verification task (`worker/elara_worker/tasks/verification.py`) | one Celery request: retries, result, exception in flight | `verify_run`, `prepare_run`, `_record`, the exception handlers | one worker per run, no event twice, bounded retries, every run ends |
| workflow graph (`worker/graph/{workflow,runtime,state,transitions}.py`) | `VerificationState` in memory, its artifacts in PostgreSQL | thirteen stages and `citation_revision`; `_begin`, `_finish`, `_failure`, `save` | stops before the next stage when cancelled, resumes after the stages it can reload, revises within a budget |
| run lock and broker (`api/app/redis_client.py`, `celery_app.py`, `config.py`) | lock key with a TTL, unacknowledged messages with a visibility timeout | acquire, release, deliver, restore, kill at the hard limit | no task outlives its lock; nothing is delivered twice while its task lives |
| admission (`api/app/routes/verifications.py`, `services/{verifications,queueing,rate_limits}.py`) | rate counters, active runs, upload claims | create, cancel, retry, enqueue, reject | a rejected run never runs on; limits hold |
| governance (`api/app/services/governance.py`) | publication state, shares, feedback | `decide_publication`, share and revoke | only a held report is decided, approval requires the audit |
| progress stream (`publish_progress_event`, `stream_verification_events`, `web/hooks/use-run-events.ts`) | Redis stream per run, reader cursor | mirror, backfill, read, reconnect | readers see the events in order and learn the end |
| uploads, report actions and retention (`routes/uploads.py`, `services/{report_actions,retention}.py`) | objects in storage, rows that name them | upload, claim, export, delete, clean up | a row that offers an object has it, a row that says it is gone is right |
| citation and language batches (`workflow.py:366-858`) | batches still to answer, call budget | replay, split, give up | bounded calls, every sentence answered once |
| model client (`worker/agents/deepseek_client.py`) | attempts, token budget | request, repair, map errors | attempts bounded, deterministic errors not retried |
| research (`worker/research/`, `worker/extraction/`) | plan, query executions, candidates, authority gaps, snapshots | plan, preflight, two search phases, selection, fetch, extraction, redelivery | nothing answered is asked again, required paths are searched, the submitted article survives, authorities are read or told as gaps |
| provenance and scoring (`worker/{provenance,scoring}/`, `api/app/services/source_graph.py`) | edges, clusters, scores (pure) | dependencies, union-find, multipliers, formulas, labels; the source graph | order independent, an origin keeps a voice, rejected evidence has none, the graph shows the stored clusters |
| report stages (`workflow.py`, `worker/agents/{validation,citation_audit}.py`) | evidence, draft, audit, revisions; `evidence_items`, `report_citations` | classify, score, draft, audit, penalise, revise | what a reader is shown is supported and final, and says that the evidence is contradicted |
| numerical audit (`worker/auditing/`) | none (pure) | decimal calculations | exact |
| users and sessions (`services/users.py`, `auth/`) | users | get or create | one row per identity |
| Lite answers (`web/lib/lite/`, `web/app/api/lite/`, `web/components/lite/lite-workspace.tsx`) | the page's submission, its sequence number and controller; the handler's stages; `lite_runs`, `lite_run_citations` | submit, cancel, clear, retry; classify, plan, retrieve, judge, synthesise, audit, store | the page follows its last submission, a shown answer is stored with every citation, a submission settles |
| read side (`reports`, `history`, `source_graph`, `demo_runs`), UI, deployment | none of their own | projections | - |

How they interact: the API commits a run with its first event, then sends a
message that names it; a worker takes the message, takes the Redis lock of the
run, and from then on talks to PostgreSQL only, one transaction at a time, each
event being mirrored to a Redis stream afterwards. The owner's cancellation and
the reviewer's decision are transactions of other API processes on the same
row. Celery acknowledges the message when the task has ended, so a lost worker
means a second execution of the same run.

What is hard: two workers for one run (redelivery, a lapsed lock), a worker
lost between two transactions, a cancellation that races the completion, an
enqueue whose answer is lost, a Redis failure when the lock is released after
the work is done, and checks (`_has_durable_event`, the status read) that are
made in other transactions than the write they guard. `PROJECT.json` lists these
hazards at the lines where they bite, with the properties that watch them.

## Modules

| module | models | role |
|---|---|---|
| `RunStatus` | the status enumeration, `RUN_STATUS_ORDER`, `_validate_transition` | shared operators |
| `RunContract` | what a run promises to those who read its row and its log | abstract specification |
| `VerificationTask` | API request, owner, reviewer, broker, lock, workers, the frame of every stage | detailed specification |
| `RunLease` | lock TTL, hard limit, visibility timeout on one clock | justifies the assumption `TimelyTasks` |
| `ProgressStream` | the writers of the event log, and the Redis stream that mirrors it | detailed specification |
| `RunEvents` | the SSE handler and the web client's hook, over `ProgressStream` | composition |
| `Research` | planning, discovery, retrieval and extraction over deliveries | detailed specification |
| `Provenance` | dependencies, clusters, multipliers, the source graph | pure operators |
| `Scoring` | formulas, gates and labels, over `Provenance` | pure operators |
| `ReportStages` | provenance to revision, over `Scoring` | composition |
| `ModelCalls` | one structured call, waves of batches, recovery of citation batches | detailed specification |
| `ReportStore` | uploads, limits, exports, deletion, retention over rows and objects | detailed specification |
| `LiteAnswer` | the Lite page, its requests and the handler that answers them | detailed specification |
| `MC*` | values of the constants, symmetry sets | instances |
| `VerificationTaskProofs` | types, the row, one owner and what follows from it, the refinement | theorems |
| `RunLeaseProofs` | exclusive lease and delivery | theorems |
| `ProgressStreamProofs` | over `RunEvents`: types, what may overtake what, when the stream has no hole, what a page shows | theorems |
| `ResearchProofs` | the article, the answers, the authorities, their gaps and the rounds of search over deliveries | theorems |
| `ModelCallsProofs` | answers, accounts and cancellation of a stage of calls | theorems |
| `ReportStoreProofs` | uploads, exports, deletion and the limit of active runs | theorems |
| `ReportStagesProofs` | the report a reader is shown; clusters, origins and the source graph | theorems |
| `LiteAnswerProofs` | what the Lite page may rely on | theorems |

The modules meet at the stages: `VerificationTask` has the frame of a stage
(`_begin`, the stage, its save, `_finish` or `_failure`) and abstracts what it
does to success or failure; `Research` and `ReportStages` are what the stages do
from intake to the revision, and `ModelCalls` is a language stage from its first
call to its last. A *delivery* in `Research` and `ReportStages` is one
execution of `VerificationTask`: it begins with what earlier ones have saved.

In a module, a definition whose comment begins with "Faulty variant of" or "Mutant of" is
not part of the model: it is a plausible mistake in the definition that follows,
kept to show that a property would notice it (`mutants` of `PROJECT.json`).

### VerificationTask

A step is one transaction, one Redis operation or one broker operation. The
worker's program counter `pc[w]` names the place in `verify_run`:

| `pc` | code |
|---|---|
| `acquire` | `acquired_lock(run_lock(...))`, `verification.py:324` |
| `prepare`, `validate` | `prepare_run`, up to and after `run.validating` |
| `precheck` | the checks of `verify_run` before the workflow, `:331-339` |
| `execute` | `execute_verification_workflow`: early returns, reload of the durable stages |
| `stage`, `body`, `finish`, `advance` | `_begin`, the stage and its save (or `_failure`), `_finish`, the graph's edge |
| `failed` | a result with recoverable errors, `:380-409` |
| `complete` | `persist_completed_run` |
| `commit` | the second half of `_record`: `persist_progress` |
| `release` | leaving the `with` block |
| `handle`, `ack` | the exception handlers; the end of the task |

`_record` is two steps, because the code looks for the event and at the status
in transactions of their own: `Record` decides, `CommitRecord` commits and
applies the transition rule again under the row lock. Between the two another
worker, the API or the reviewer may move. What becomes of an exception of the
commit depends on the caller, so a call in progress carries `refused`:
`"raise"` in the `try` block, `"ignore"` in `_mark_failure_safely` and in the
handler of `TerminalRunTransitionError`.

`log` is the sequence of events, each with its `stage` and its type; a type is
a pair such as `<<"synthesis", "completed">>` for
`workflow.synthesis.completed`. `citations` stands for the rows of
`report_citations`: `passed` when there are some and each is `passed` or
`partial`, the statuses the completion gate accepts. `resumable` holds the
stages whose outputs a second execution reloads; the others are executed again.

The data a stage computes is abstracted to its outcome: it succeeds, it fails
with a typed error that is retryable or permanent, or it raises something else.
`Raises` may strike anywhere in the locked region, as the soft time limit and a
database error may.

`Crash` is a lost worker. Its message comes back (`task_reject_on_worker_lost`,
or the visibility timeout when the host died) or is gone (Celery acknowledges a
task it kills at the hard limit); its lock stays behind as `Abandoned` until
`LockExpires`. `Redeliver` and the expiry of a live owner's lock are possible
only without `TimelyTasks`.

### RunContract

The row and the `stage` column of the log, and eight actions. `Progress` is
allowed only forward and only until a report is held; `Cancel` only on request;
`Complete` only without a request and without an allegation; `Decide` only on an
held run, whatever its status: `decide_publication` looks at the publication
state only (`governance.py:44`), so an approval completes a run that was failed, cancelled or
asked to be cancelled while it was held. It is the one exception to what the contract says of
endings, that a terminal status is final and that nothing completes after a request to
cancel. `VerificationTask` instantiates it with
`stages <- [i \in DOMAIN log |-> log[i].stage]`, the other variables keep their
names.

### RunLease

One clock, the key with its expiry, the messages with their visibility and what
each worker runs. The assumption `LockOutlivesHardLimit` is the validator of
`config.py:257-263`; `KillLag` covers the time between the delivery and the
start of the limit and the delay of the kill, and the 60 seconds the settings add
(`Slack`) must exceed it.

### ProgressStream

`VerificationTask` decides *which* events a run may have; `ProgressStream` asks what
becomes of them on their way to a reader. Its writers are a weaker form of those of
`VerificationTask`: any worker may report any status the transition rule lets pass,
two workers may be at work at once, and each of them may begin a backfill at any
time. Whatever holds here holds for the stricter writers.

* An event is its place in `log`, as in the code, where the sequence number is the
  stream id (`redis_client.py:101-111`).
* `stream` and `top` are the Redis key. `XADD` refuses an id that is not above
  `top`, and `publish_progress_event` takes that refusal for success. The stream is
  capped at 1000 entries (100 at least), more than a run has event types, so it is never trimmed.
  The key's TTL of a day is renewed by each mirror: `Expire` needs that no mirror is
  busy.
* `job[p]` is the loop of a process over the events it still has to mirror: the whole
  log for a worker (`_backfill_progress`), one event for the API. One step mirrors
  one event, and any of them may fail (`MirrorFails`), which ends the loop.
* `stamp[p]` is the time `persist_progress` takes before it waits for the row. Only
  the order of times matters: the k-th event, when it is stamped under the row lock,
  has time 3k; a time taken earlier lies between two such values, and of two of
  them either may be the earlier one.
* An event's `kind` says who mirrors it: `own` events (creation, rejection,
  cancellation) are mirrored by the API request that committed them, alone.

### RunEvents

`reader` is the handler of one connection: `check` before the first answer, `read` at
`XREAD`, `recheck` after its timeout. `view` is the row as the handler has loaded it;
it is reloaded at a timeout only (`verifications.py:345`), so between two timeouts the
handler decides on a stale row. `Read` hands over one entry; a batch of the code is
several such steps with nothing between them, an interleaving the model also has.
The hook opens a new `EventSource` for each connection, which has no last event id, so
each one replays the stream from its beginning.

`client` is the hook: `mode` is the connection, `attempts` the failures in a row,
`fallback` the polling flag, which the code never clears, `latest` the event the page
shows, `known` the status and `held` the hold that the last refetch returned.
`AfterEnd` follows what happens to an `EventSource` whose server ends the response:
`onerror` fires, and the hook reconnects unless the last event was terminal.

### Research

`pc` is the stage, within discovery the place in `RetrievalPipeline.discover`. A
delivery works on `exec` (what each query was answered in this delivery), `auth`
and `gap` (the preflight of each profile), `cands` (the candidates by URL) and
`snap`; `saved` and `attached` are the rows of `_persist_search_execution` and
`_persist_sources`. `Redeliver` may strike in every stage; `Retry` is the typed
transient failure. The preflight sends one query for each record holder, at most `PerClaim`
for a claim and `PreflightBudget` in all, in the order of the claims: a profile the
budget does not reach is `unsearched`. What the queries of a profile give together is one of
`PreflightOutcomes`, and a verified one yields any of its registered URLs, or none: a
result that is not safe is counted as verified and left out (`pipeline.py:1147-1150`). A claim in `Ambiguous` has
no profile and a gap from the start. The plan is any member of `Drafts`, accepted if it is `Valid`
(`validate_research_plan`), repaired at most once. A search answers with any set
of `Answers`, fails for the moment or for good; a fetch ends at any URL the
chosen `Webs` allow. Which candidates a selection keeps among equals is any choice
that `select_diverse` could make for some scores: `Diverse` states what all of
them have in common, the cap on a domain and the one place for each title and snippet included.
`rounds` counts evaluations of the gate and stops counting at `MaxRounds`; it guards nothing, so the
model repeats the search of the reserve as often as the code does.

### Provenance and Scoring

Pure operators. What two texts have in common is given per pair in a
`features` record; the edges, the forest of `cluster_sources`, representatives and
multipliers follow. `Groups(order)` takes the links in a given order, as the code
does, and `ShownClusters` is what `build_source_graph` rebuilds from stored edges
and representatives. Scores are in tenths of a percent; `Multiplier` and
`Cluster` of `Scoring` are those of `Provenance`. Only claims in `Checkable` count towards an
article's accuracy and coverage (`service.py:381, 408`); in `Report` one of two is.

### ReportStages

`mem` is the `VerificationState` of a delivery and `rows` the stored report. A
draft is two sentences with the passages each cites; an answer of the classifier is any
member of `JudgmentsOf(t)`, an audit any verdict on each pair of a sentence and a cited
passage. `_persist_scoring` and `_persist_citation_audit` are parts of `Score` and
`Audit`, as they are of the stages' saves. A revision goes through the audit
twice, once inside `citation_revision` (`"reaudit"`) and once more as the next
node of the graph, where `AlreadyAudited` finds it done. `StartOver` is a new
delivery: the memory is fresh, the rows are those of the earlier one.

`features` is what the run's documents have in common. The first stage is reached
with every member of `Inputs`; the run goes on for `Features` alone, which is a bound:
the scores of one set of findings are followed to the report, the clusters
and multipliers of all of them are checked.

### ModelCalls

A step is what happens between two awaits. `slots` are the calls in flight, each a
`generate_structured` with its attempts, its one truncation retry and its token cap;
`pc` is the stage, from the first wave to the recovery (`before pause`, `pause`,
`replay`, `before half`, `half`). `mode` chooses the kind of stage: a single call with
repair, the planner's second call, evidence batches and citation batches; only
the last have a recovery. `sent`, `bad` and `after` are history variables, by which the
accounts of the code are measured.

### ReportStore

`req[p]` is the request or the retention task a process is in the middle of; each step is one
transaction or one call of the object storage, and between any two of them the
process may die, the call may fail with or without its effect, the commit may fail,
or its reply may be lost (`SaveExport`). The compensation of the code is a step of
its own (`Undo`) and may fail too. Ids are random: `InUse` says that none is drawn while
somebody holds it. `unanswered` and `late` are history variables that name the two
exceptions of `ExportsReadable` and `DeletionIsThorough`.

### LiteAnswer

`page` is the state of `LiteWorkspace` with its two refs; the sequence number that
`runLiteRequest` draws is the name of a request, and `request[r]` is both the fetch that
waits for it and the handler that works on it. `at` is the handler's next await, so a step is
what happens between two awaits. An abort marks a request and nothing more: its
fetch rejects later (`FetchRejects`), and its handler goes on until one of its calls fails.
`Settle` is what the `try`, the `catch` and the `finally` have in common, guarded
by the sequence number; `Clear` raises that number as a submission does.

A call of the model, of Supabase or of the route's own checks is its outcome: it
fails, or it returns any value its schema allows. A draft may number two sentences alike and cite
chunks it was not given. The two inserts of `persistLiteRunIfConfigured` are steps of
their own, each of which may be refused or be carried out without a reply; `Dies` is
a function that the platform stops.

## Runs

| run | instance | what it shows | distinct states |
|---|---|---|---|
| `Crash` | 2 workers, intake and audit, an allegation and a reviewer, 1 retry, 1 revision, 1 lost worker, the API may die | `TypeOK`, `EventsRecordedOnce`, `RowMatchesLog`, `SingleOwner`, `CompletedStaysAudited`, `ImplementsContract` | 1 189 182 |
| `Live` | 1 worker, 3 stages, 2 retries, 2 revisions, 1 Redis failure at any lock operation, fair | `CancellationWins`, `CancelStopsBeforeNextStage`, `EventuallySettled` | 832 244 |
| `Clocks` | 2 workers, 2 messages, limit 3, lag 1, slack 2, TTL 5, clock to 14, 2 losses | `OneHolder`, `NoEarlyRedelivery` | 196 338 |
| `Watch` | 1 worker, the owner, a reviewer, one client, 4 events, fair | `OnlyOwnEventsOvertake`, `DisplayMovesForward`, `PageCatchesUp` | 529 031 |
| `Discovery` | a primary and a contradiction path, plans of 2 to 4 queries with 1 in reserve, 6 URLs on 4 domains with redirects, 3 profiles with 3, 1 and 2 holders, a preflight budget of 3, 1 ambiguous claim, 2 deliveries | `SubmittedUrlSurvives`, `AnsweredOnce`, `AuthorityIsReadAndRegistered`, `GapsAreTold`, `BoundedUnlessGivenUp` | 1 109 920 |
| `Rounds` | as `Discovery` | `SecondPhaseIsBounded` is violated | |
| `Report` | 5 184 sets of findings about 4 documents; 2 claims, 2 passages, 3 classifications, every draft and audit, 1 revision, 2 deliveries | `ClustersAreComponents`, `OriginIsHeard`, `GraphShowsTheClusters`, `RejectedEvidenceIsMute`, `SentencesAreSupported`, `RowsAreOfTheFinalReport`, `ContradictionHasItsSentence`, `PenaltyOnce` | 100 148 |
| `Recovery` | 3 batches of 2 tasks, waves of 2, 2 models, the code's own budget of 6 recovery calls and attempts, fair | `EveryTaskIsAnswered`, `AccountsAreExact`, `CancelBoundsSpending`, `EventuallyEnds` | 411 932 |
| `Requests` | 2 requests and the retention job, 2 runs, limit 1, 1 upload, 1 export, 2 snapshot rows, 1 failure | `ActiveRunsBounded`, `UploadSingleUse`, `DeletedUploadsAreGone`, `ExportsReadable`, `DeletionIsThorough` | 2 285 426 |
| `Lite` | 2 submissions, 1 clearing, 1 chunk and 1 invented one, drafts of 2 sentences with 2 numbers, fair | `PageFollowsItsSubmission`, `AnswersAreStored`, `EverySubmissionSettles` | 75 988 |
| `Stranded` | as `Crash`, requeued messages only | `NeverStranded` is violated | |
| `Snapshots` | 1 request and the retention job, 2 runs, 1 content, no failure | `CompletedSnapshotsKept` is violated | |

Bounds. Every property about interference on a run involves at most two executions of
it, so two workers and one loss or one Redis failure are enough to reach each kind of
interleaving; several losses in a row only start the next execution from another
`resumable` set, which the short pipelines already vary. `TinyPipeline` keeps one
stage that is reloaded and the audit; `ShortPipeline` adds a stage that is executed
again. That the thirteen stages of `FullPipeline` never send a status
backwards is the assumption `StagesAdvance` of `MCVerificationTask`, which TLC
evaluates. The clock of `Clocks` covers two full leases. In `Watch`
four events are the first one, a stage, the end or the hold, and one more that
follows or overtakes it; a hole needs two events, and a page that goes back needs
two and a replay. `Watch` has one worker: one writer at a time, which is what
`TimelyTasks` gives the run. Its backfill meets the owner's cancellation,
failures at every event and the expiry of the key; an enqueue that raises does so before the
broker has a message (`refuse`). Backfills of several workers at once, and an enqueue that
raises although a worker will have the message (`reject`), are left to the theorem
`OnlyOwnOvertake`, which covers any number of workers and all requests.

In `Discovery` one reserve query, a gate that wants more candidates and
domains than one answer has, and a depth limit below the number of URLs make each branch of
discovery reachable; two deliveries are one redelivery at any point. Two results with one title and
snippet make the selection drop one for it. Of the six holders' queries the limit per claim drops
one and the budget two, so the third profile is not searched. `MaxRounds` is one more
than phase one and the reserve allow, which is where the two properties of the rounds look. In `Report` the
findings give each pair of three documents one thing in common, with a fourth as a
possible copy and a fifth that was cited and not read: chains and cycles of
dependencies, equal dates, pages dated only by a change and pages without
dates. The judgments make every passage approved or not, contradicted or not,
and the claims supported, refuted, mixed or without evidence. `Recovery` uses the
constants of the code; three batches make two waves, a second failed batch after a first, and
one that finds the budget spent. In `Requests` one failure is enough for each
compensation; two failures of one request are its compensation failing too, which
the theorems cover. `Lite` needs two submissions for one to settle under the other, a clearing for a
sequence number without a request, an invented chunk beside a real one, and two sentences that may
share a number. The theorems remove all these bounds for the properties they cover.

`CHECK_DEADLOCK FALSE` is set everywhere: a settled run, a finished report or stage and a
store at its bounds have nothing left to do, and the clock of `RunLease` is bounded.

Fairness (`FairSpec`). In `VerificationTask` a request handler that started goes on, a
ready message is delivered to some idle worker, a worker executes what it took, and a
Redis key with a TTL disappears: obligations of uvicorn, of Celery and of Redis. Nobody
is obliged to cancel, to decide, to fail or to succeed. `Live` excludes lost workers
because `Stranded` shows that the code does not settle those runs, and a dying API
because nothing takes a run from `QUEUED` then. In `RunEvents` the server answers what it was
asked or the connection drops, the reconnection timer fires, and the refetch is made that
the fallback's interval or the end of the stream calls for; nothing is assumed of Redis,
of the writers or of the mirror: `PageCatchesUp` holds although the event may never
enter the stream, because the handler reloads the row when it has nothing to
read. In `ModelCalls` the coroutine of the stage goes on and a request ends,
by its answer or by the timeout of the HTTP client. In `LiteAnswer` each await of a handler ends or its function
is stopped, and the answer, the end or the abort reaches the page: obligations of the runtime
and the platform, because the code's own timeouts are off for the model's calls and the inserts
(`options.signal ?? controller.signal`, `supabase.ts:413`, `deepseek.ts:328`).

## What the violated runs show

* `Stranded`: a worker process is lost inside the locked region, its message is
  requeued at once, the next worker finds the lock of the dead owner, returns
  (`verification.py:327-329`) and is acknowledged. Nobody carries the run on.
  With `REDIS_LOCK_TTL_SECONDS=3600` of `.env.example:94` the same happens to the
  task of a lost host, which is restored long before its lock expires; the settings
  bound that TTL from below only.
* `Snapshots`: the key of a snapshot's object is the hash of its content. A run that is
  executed twice leaves its first `source_snapshots` row behind; when that orphan is swept,
  its object goes (`retention.py:48-49`), and it is the object of the row the completed
  report points to.
* `Rounds`: the first delivery passes the gate with what phase one found, marks its reserve query
  `not_needed`, selects the candidates that fit the depth limit, the cap per domain and the titles, and
  saves these with the executions. The worker dies. The next delivery has nothing to
  search in phase one, and the gate, which sees only the candidates that were kept, fails. The reserve query has
  neither been executed nor sent, so `select_reserve_batch` hands it out
  (`pipeline.py:167-178`); `_execute_query_batch` passes over it, as it is
  `not_needed` (`pipeline.py:507`); the gate fails again, and the loop of `discover`
  (`pipeline.py:166-203`) has no other way out: it waits for nothing and goes on until the
  time limit ends the task. The case study calls the second phase "bounded"
  (`Elara_Portfolio_Case_Study.md:324`). `BoundedUnlessGivenUp` says that it is, in every delivery that
  has no such query to pass over.

## Proofs

All theorems are about a module's specification without its fairness, for every value of its
constants: any workers, pipelines that end in the audit, requests, sources, batches,
plans, webs and bounds. The named assumptions are `VerificationTaskAssumption`, `RunLeaseAssumption`,
`LockOutlivesHardLimit`, `ProgressStreamAssumption`, `LiteAnswerAssumption`, `ReportStoreAssumption`,
`ModelCallsAssumption`, the `PolicyAssumption` and `InputAssumption` of `Research`, the assumptions of
`Scoring` and `Provenance` and `StagesAssumption`, and `NoneAssumption`; they give the constants their
types and the code's bounds, and TLC evaluates each of them in a run. What a theorem supposes beyond them
is in the table.

| theorem | statement | module |
|---|---|---|
| `TypeCorrect` | `Spec => []TypeOK` | `VerificationTaskProofs` |
| `LogAgreesWithRow` | `Spec => []RowMatchesLog` | `VerificationTaskProofs` |
| `CancelBeatsCompletion` | `Spec => []CancellationWins` | `VerificationTaskProofs` |
| `ApprovalIsNeeded` | `Spec => []AllegationNeedsApproval` | `VerificationTaskProofs` |
| `OneOwner` | `TimelyTasks` implies `Spec => []SingleOwner` | `VerificationTaskProofs` |
| `EventsOnce` | `TimelyTasks` implies `Spec => []EventsRecordedOnce` | `VerificationTaskProofs` |
| `AuditIsKept` | `TimelyTasks` implies `Spec => []CompletedStaysAudited` | `VerificationTaskProofs` |
| `CancelStops` | `TimelyTasks` implies `Spec => []CancelStopsBeforeNextStage` | `VerificationTaskProofs` |
| `Refinement` | `TimelyTasks \/ ~Allegation` implies `Spec => ImplementsContract`, the contract with its exception for approvals | `VerificationTaskProofs` |
| `LeaseIsExclusive` | `Spec => []OneHolder` | `RunLeaseProofs` |
| `DeliveryIsExclusive` | `Spec => []NoEarlyRedelivery` | `RunLeaseProofs` |
| `MirrorTypeCorrect` | `Spec => []TypeOK` | `ProgressStreamProofs` |
| `OnlyOwnOvertake` | `Spec => []OnlyOwnEventsOvertake` | `ProgressStreamProofs` |
| `BackfillKeepsNoHole` | without cancellation and rejection, `Spec => []NoPermanentHole` | `ProgressStreamProofs` |
| `WatchTypeCorrect` | `RunEventsSpec => []RunEventsTypeOK` | `ProgressStreamProofs` |
| `DisplayForward` | `RunEventsSpec /\ []OneWriter => DisplayMovesForward` | `ProgressStreamProofs` |
| `TypeCorrect` | `Spec => []TypeOK` | `ResearchProofs` |
| `ArticleSurvives` | `Spec => []SubmittedUrlSurvives` | `ResearchProofs` |
| `NoAnswerIsLost` | `Spec => []AnsweredOnce` | `ResearchProofs` |
| `AuthorityIsEarned` | `Spec => []AuthorityIsReadAndRegistered` | `ResearchProofs` |
| `GapsRecorded` | `Spec => []GapsAreTold` | `ResearchProofs` |
| `ReserveBoundsTheRounds` | `Spec => []BoundedUnlessGivenUp` | `ResearchProofs` |
| `TypeCorrect` | `Spec => []TypeOK` | `ModelCallsProofs` |
| `TasksAnswered` | `Spec => []EveryTaskIsAnswered` | `ModelCallsProofs` |
| `AccountsKept` | `Spec => []AccountsAreExact` | `ModelCallsProofs` |
| `SpendingStops` | `Spec => []CancelBoundsSpending` | `ModelCallsProofs` |
| `DeletedUploads` | `Spec => []DeletedUploadsAreGone` | `ReportStoreProofs` |
| `SingleUse` | `Spec => []UploadSingleUse` | `ReportStoreProofs` |
| `Readable` | `Spec => []ExportsReadable` | `ReportStoreProofs` |
| `Thorough` | `Spec => []DeletionIsThorough` | `ReportStoreProofs` |
| `LimitBounded` | `Spec => []ActiveRunsBounded` | `ReportStoreProofs` |
| `Supported` | `Spec => []SentencesAreSupported` | `ReportStagesProofs` |
| `FinalRows` | `Spec => []RowsAreOfTheFinalReport` | `ReportStagesProofs` |
| `ContradictionAddressed` | `Spec => []ContradictionHasItsSentence` | `ReportStagesProofs` |
| `PenaltyTakenOnce` | `Spec => []PenaltyOnce` | `ReportStagesProofs` |
| `RejectedIsMute` | `Spec => []RejectedEvidenceIsMute` | `ReportStagesProofs` |
| `AuditOfThisDraft` | `Spec => []AuditIsOfThisDraft` | `ReportStagesProofs` |
| `ComponentsFound` | `Spec => []ClustersAreComponents` | `ReportStagesProofs` |
| `OriginHeard` | `Spec => []OriginIsHeard` | `ReportStagesProofs` |
| `GraphIsTrue` | `Spec => []GraphShowsTheClusters` | `ReportStagesProofs` |
| `LiteTypeCorrect` | `Spec => []LiteTypeOK` | `LiteAnswerProofs` |
| `PageFollows` | `Spec => []PageFollowsItsSubmission` | `LiteAnswerProofs` |
| `AnswersStored` | `Spec => []AnswersAreStored` | `LiteAnswerProofs` |

Two hypotheses of the table need a reason. `TimelyTasks` says that no
task outlives its lock or its message's visibility; `RunLease` derives it from the order of the settings.
`OneWriter` says that no two workers wait for the row of the run with a time in hand: it is what
`SingleOwner` becomes in `ProgressStream`, whose workers know no lock.

*One owner.* `SingleOwner` is not inductive: nothing in it connects a worker's
place to the lock. `LockInv` says that a worker in the locked region is the lock's
owner, and that a call in progress outside it leads to the acknowledgement. A
lost worker leaves the region and the lock becomes `Abandoned`; only then may it
expire, which is where `TimelyTasks` is used. `RunLease` justifies that
assumption: `LeaseIsExclusive` derives it from the order of the TTL, the hard
limit and the lag.

*What one owner makes of the run.* `OwnerInv` adds to `LockInv` and `IInv` three parts. `BusyInv`
speaks of the calls of `_record` in progress: each reports an ending, which the transition rule lets
happen once, or is made under the lock and its event is still missing; and a worker past the check of
the row finds no decision on its report. `ToldInv`: the events that are not reports under
the lock (creation, cancellation, rejection, decision) have left their mark on the row, so none of
their writers acts twice. `CancelInv`: the one stage that may still begin after a cancellation
has passed its check already. `SingleOwner` keeps all of it from one worker's step to the
other's: between the look at the log and the commit nobody else reports. Without
`TimelyTasks` it is not inductive, as the check and the commit of `_record` are two transactions.

*The row.* `IInv` joins the types with three parts. `RowInv` relates the columns
of the row (a published or held report is an audited one, a cancelled run was
requested to be). `LogInv` relates the log to the row: the last event carries
the status, the first event of the audit implies that the run has reached
`AUDITING`. `WorkerInv` says what a worker may have in hand: a call that cancels
has seen the request, and a worker at or past the audit has the row in `AUDITING`
or beyond. The last part is what makes the literal `AUDITING` of the held event
right (`run_lifecycle.py:209`), and it is needed for `RowMatchesLog` and for the
refinement. None of it mentions the lock, so these theorems hold even when
locks lapse and messages are delivered twice.

*Refinement.* Each step of `VerificationTask` either leaves the row and the log
alone or is one of the transactions collected in `RowStep`; under `IInv` each of
them is an action of `RunContract`. With an allegation one step is missing from this: a
late worker may report a stage while the report is held, which the contract forbids. `BusyInv`
rules it out, so the refinement holds for every run while tasks are timely, and without an allegation
even when they are not.

*The stream.* `OnlyOwnEventsOvertake` speaks of the stream alone; `Overtaking` adds that
`top` is the newest event of the stream, and the loops that are under way: each one
stands at most one event beyond `top`, or at a single `own` event. `Prefix` is the
stronger invariant of a system in which no API request mirrors anything but the first
event: the stream is `1..top`, and no loop stands beyond `top + 1`. The difference between
the two theorems is the first of the observations below.

*The page.* A page goes back only if an event is shown that is earlier in the log than the one it has,
and the hook compares times (`isNewerProgress`), not places. `LogInv` says which times can be in the log:
an event is terminal, or later than all before it (`Newest`), or that of a worker that waited while a request's
event was committed (`Late`), which is earlier than its predecessor; after a hold there is none of the last
kind. `TimeInv` ties a worker's time in hand to the log it will be appended to, and needs
`OneWriter`: of two workers with times in hand the second commits an earlier time than the
first's. `HoldInv` relates the held event to the publication state. `PageInv` is about the
reader: the page shows the end, or a `Newest` event, and no event the connection has read is later.
A late event is then never shown: `OnlyOwnEventsOvertake` puts its predecessor into the stream before it, and
the connection has read that one. An answer ends with a terminal or held event, neither of which is late.
`WatchTypeCorrect` needs nothing of this but that the last event carries the status: so each status a
handler can load has an event.

*The store.* `Shape` gives the types and, with `Kinds`, what goes with an operation: which
process may be in it and what it holds. Three invariants rest on it. `UploadInv`:
whatever the sweep has done or is to do concerns saved uploads, and what it has done is out of
the storage; as an upload's object is put before its row is saved and never after, a row marked
by the commit tells the truth, however many sweeps stopped at an error before it. `ClaimInv`: an
upload attached to a run, or inherited by a retry that is still to be inserted, is
claimed; so `Claimable` fails for the second creation. `ExportInv` is the
longest: an export is held by one process only (`HeldOnce`, for which ids must be
drawn afresh), the one that is storing it has no row and is in nobody's list, a
compensation is about an export without a row or with an unanswered commit, and a deletion's
list covers all exports of its report but the late ones. None of this is visible in the
rows alone, and neither `ExportsReadable` nor `DeletionIsThorough` is inductive without
it. `ActiveRunsBounded` is a counting argument: when a request counts the active runs, the runs
admitted since are those of requests that are still between their count and their end, and one
such request is the one that counts.

*The report.* `Shape` says that `mem` and `rows` are records of their fields. `StageInv` ties
the stage to what must be in memory there: evidence from some answers, no audit before
the draft, the scores of that evidence until an audit has passed, a draft that is grounded and
has its sentence on the contradiction (`DraftPassed`) from the audit on. `AuditStored` holds
whenever an audit is in memory: it is of this draft, and citations, statuses and scores in the
rows are those of this audit. A revision clears the audit and keeps the scores, which an
audit that demanded a revision had left alone: hence the penalty is taken once. `RejectedIsMute`
rests on a lemma about the operators: no formula of `Scores` sees a
rejected item.

*The clusters.* `Clusters` takes the links in an arbitrary order, as the code's set of edges
has no other. A forest is a function from sources to sources that never leads upwards, so each tree has a
root, its least member; path halving changes no root (`ShorterPath`), and a union merges two trees and
leaves the others alone. The invariant over the links taken so far is that linked sources have one root
(`Joined`) and that sources with one root are in one closed set of those links (`Within`). The groups are then the minimal
closed sets of the dependencies, whatever the order. A cyclic dependency cannot silence a cluster,
because its first known member depends on none that is known earlier; and the graph shows the
stored edges of a cluster, whose ends have one root. Induction over the number of
links is not available to the provers; its place is taken by a smallest counterexample, which exists
because strict inclusion of finite sets is well founded (`FS_StrictSubsetOrderingWellFounded`,
`WFMin`).

*Research.* `PlanInv` gives the types and what is planned, answered or given up in each stage; in memory no
query is asked whose answer is saved. `CandInv` with `ShelfInv` says where a candidate may come from: an
authority record belongs to a claim and is on its holder's domain until it is fetched, a submitted
candidate is the article or the page it leads to. `SeedInv` keeps the article on
both shelves from the preflight on, `SizeInv` bounds a selection (the lemmas on `Diverse`: the
article is never cut, and a place is left for a broad result). `RoundInv` counts the rounds: each beyond the
first has tried a query of the reserve, unless some query was given up. `GapInv` says of a claim without a
recorded gap that the preflight verified a record for it; after the fetch, that it did or that some candidate
serves the claim, which is what extraction looks at. The URL of a
record that two profiles share belongs to the last of them (`LastClaim`), and to a claim of
the run in any case (`AuthorityIsOfAClaim`).

*The calls.* `SlotInv` says in which places calls are in flight, `WaveInv` what is known of the batches
of earlier and later waves, `RecoveryInv` that of the batch in recovery and its halves: those before it are
answered, those after it as the waves left them. `EveryTaskIsAnswered` follows at the end. `CancelInv` gives the last
place at which a cancellation is looked for before calls are sent. `AccountInv` puts each request
into exactly one account: that of an answer, of the halves, of a failed call, or of a call in flight;
every action moves requests from one account to another and loses none. Its sums are
folds over sets; that their order is of no consequence is proved once, by the smallest counterexample again.

*The Lite page.* `PageFollowsItsSubmission` needs that the page's controller is that of its
last submission (`PageInv`): then clearing or submitting gives up the one request that was
still going, and a fetch that settles is the current one or changes nothing.
`AnswersAreStored` says nothing of an answer on its way; `QueryInv` does: what a handler is about
to store cites only chunks of its own context (`Grounded`, from `AuditGrounds`: the
audit drops every sentence with an unknown citation, whatever the model says), a handler at
its citations has its run row, and what it has answered is stored. Rows are never taken away
(`StoreGrows`).

## Only model-checked

Liveness under fairness, which is out of the prover's reach: `EventuallySettled`, `PageCatchesUp`,
`EventuallyEnds`, `EverySubmissionSettles`. Every other property of a passing run is a theorem as well.

`DisplayMovesForward` is checked by `Watch` with one worker and proved under `OneWriter`; with two workers
that both hold a time it is false (see Observations). The pure operators of `Provenance` and `Scoring` are
proved about as far as the properties need; the values of the score formulas are what the
code's are, and nothing is claimed of them but `RejectedIsMute` and `PenaltyTakenOnce`.

## Observations

Seen while modelling. None of them contradicts a line of the repository clearly enough for
a run of its own, or the code they are in is not modelled.

* The stream. A worker's event has committed and is not mirrored yet; the owner cancels, and
  the request mirrors its own, later event (`verifications.py:473`). From then on `XADD`
  refuses the older one: a permanent hole, which `OnlyOwnEventsOvertake` allows. An event
  committed after another may carry an earlier time (`run_lifecycle.py:116`) and is
  then not shown until the next. On a held report each connection ends with a durable event that
  resets the count of failures: the hook reconnects every second, without an end
  (`use-run-events.ts:158`). The event of a publication decision is not mirrored
  (`governance.py:50`). If two workers took their times before either commits, which only a lapsed lock
  allows, the held event may carry the time of the event before it or an earlier one; it is shown through the
  answer of a connection, and after a decision other than an approval the replay shows the earlier event
  again: the page goes back.
* A run's ending. `decide_publication` (`governance.py:44`) completes a held run that was
  failed or cancelled meanwhile, although `run_lifecycle.py:98` treats a terminal status as
  final: `Decide` of `RunContract` allows it. A rejected run stays `AUDITING` and counts as
  active. `execute_verification_workflow` returns `None` without text or URL
  (`runtime.py:896-898`): a run with an upload alone stays `VALIDATING`; `Live` has text
  input. An API that dies between commit and enqueue leaves `QUEUED`; a failure
  handler whose own commit fails, or a task killed at the hard limit, leaves the last status. A second audit has
  the event type of the first and is not reported. An audit without citations passes the stage and is
  refused at completion; no draft of the code's schema has none. A retried run inherits
  `normalized_target`.
* Requests. The active-run limit is exceeded by concurrent requests, by one each at most
  (`ActiveRunsBounded`). `api/README.md:34` says that missing keys impose no limit;
  `services/verifications.py:55-56` takes 3. An upload claimed while the sweep is under way loses its object; the
  objects of claimed uploads are never removed. An export that is committed while its report is
  being deleted stays behind. The counter of a rate limit loses its expiry when the second of its two
  Redis commands fails (`rate_limits.py:44`); two first requests of one user both insert
  the row.
* The report. The case study says that a report "must include credible contradiction"
  (`Elara_Portfolio_Case_Study.md:85`). The code asks for a sentence of kind contradiction with
  a citation (`workflow.py:1433-1447, 1670-1683`) and does not ask that it cite the contradicting passage: a draft may
  cite another passage there, if the audit finds that it bears the sentence out.
  `ContradictionHasItsSentence` promises as much and no more.
* Research. Candidates cut by the selection are not among those a later delivery starts with, and a broad
  result that led to the submitted article gives its place to it (`pipeline.py:1279`), so the evidence that passed
  the gate is kept only in part (`Rounds` shows what follows). A failed provider call of the preflight is saved as one that found nothing, so a later
  delivery says `NO_SEARCH_RESULTS`. A reserve query that failed for the moment is not repeated by
  a later delivery, one of phase one is. Two candidates redirected to one page share a row of
  `run_sources`, and the passages of one of them find no row (`runtime.py:454`): the run fails. A profile whose
  verified candidate was left out by the selection has neither a gap nor a document. The fetch
  lock counts as taken when Redis fails (`research/cache.py:80`).
* Scores. `or Decimal("100")` takes an average of zero for a missing one (`service.py:442`): an article
  all of whose claims lost their context is shown with full context. The label is not worked
  out again after the citation penalty. A cluster may hold two sources of full weight. The graph works
  the multipliers out again with `sources.source_type`, which the first run that met the source has
  set (`source_graph.py:94`, `runtime.py:324`). The rules for the representative and for the
  direction of an edge disagree on a page dated only by a change.
* Calls. Of several failed batches the one of the smallest index decides whether the task may be
  retried (`workflow.py:619`), although another may be permanent. Batches answered by differing models end
  the stage after all were paid (`deepseek_client.py:282`).
* Lite. The request's signal replaces the one of the timeout (`supabase.ts:413`, `deepseek.ts:328`), so a
  call of the route is not timed out by the code. A draft with one unknown citation skips the model's audit
  for its other sentences, which are then accepted; so is a sentence the model's audit does not
  mention (`pipeline.ts:259-273`). The branch for sentences without a citation is never taken, as the schema asks for
  one (`schemas.ts:173`), and a suggested revision is never used. A run row stays without
  citations when the second insert fails (`run-persistence.ts:49-50`); the retry makes another run.

## Not modelled

Everything marked `not_modelled` in `PROJECT.json`: rate limits, user provisioning, the numerical
audit, the read side, liveness probes and metrics, the ingestion of the Lite corpus and the printing of a Lite
report, the rest of the UI and deployment, each with its reason. In the modelled parts: the contents of claims, sources
and reports; timestamps, messages and payloads; metrics and tracing; a PostgreSQL that
fails inside the failure handlers; the Redis cancellation flag, which is set after the durable one and
read before it and so never says more than it. In `RunEvents`: resumption by `Last-Event-ID`,
which the hook never uses; the merge of streamed events into the fetched history; a database session that
FastAPI closes before the stream has ended (possible before 0.118, which `pyproject.toml` does
not exclude). In `Research`: the page cache and the fetch lock, scores of ranking,
parsing. In `Scoring`: explanations, calculation records, issues the instance has no use for. In `ReportStages`: the
numerical stage, gaps and wording of a report. In `ModelCalls`: prompts,
schemas and the HTTP exchange. In `LiteAnswer`: the rate limit's buckets, prompts and their budgets, retrieval scores and
the selection among chunks (it keeps all that retrieval hands over), the page's optimistic
progress, and a store that is not configured.

## What could follow

The parts that are not modelled, the rate limits first. Of the proofs: how far the page may fall behind when
two workers write, the monotony of the scores in the evidence, and a refinement of the worker's writes in
`VerificationTask` by those of `ProgressStream`, which would replace the hypothesis `OneWriter` by `TimelyTasks`.
