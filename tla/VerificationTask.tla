-------------------------- MODULE VerificationTask --------------------------
(***************************************************************************)
(* One verification run from the moment its row is committed until it is   *)
(* settled: the API request that creates and enqueues it, the owner who    *)
(* may cancel it, the Celery broker that delivers and redelivers its task, *)
(* the per-run Redis lock, the workers that execute verify_run, and the    *)
(* reviewer who decides on a held report.                                  *)
(*                                                                         *)
(* A step is one PostgreSQL transaction, one Redis operation or one broker *)
(* operation; everything a process does between two of them is local.      *)
(***************************************************************************)
EXTENDS RunStatus, FiniteSets, Sequences

CONSTANTS
  Worker,         \* worker processes
  Pipeline,       \* the workflow stages in graph order, ending in the audit
  Input,          \* "text" (or a URL) | "upload": what was submitted
  Allegation,     \* whether decomposition finds an allegation claim
  TimelyTasks,    \* whether no task outlives its lock and visibility timeout
  MaxRetries,     \* verify_run's max_retries
  RevisionLimit,  \* settings.citation_revision_limit
  ApiMayCrash,    \* whether the API may die between its commit and the dispatch
  Losses,         \* what becomes of a lost worker's message
  MaxCrashes,     \* bound: workers lost, or tasks outliving their limits
  MaxRedisErrors  \* bound: Redis errors met by the lock operations

WorkflowStage ==
  {"intake", "decomposition", "planner", "discovery_source_selection",
   "secure_retrieval", "extraction", "passage_segmentation_embedding",
   "provenance_dependency_analysis", "evidence_classification",
   "deterministic_scoring", "numerical_audit", "synthesis",
   "citation_audit", "citation_revision"}

\* Values of the run lock when no worker owns it: absent, or left by a dead owner.
Free == "free"
Abandoned == "abandoned"

ASSUME VerificationTaskAssumption ==
  /\ Worker \intersect {Free, Abandoned} = {}
  /\ Pipeline \in Seq(WorkflowStage \ {"citation_revision"})
  /\ Len(Pipeline) > 0
  /\ Pipeline[Len(Pipeline)] = "citation_audit"
  /\ Input \in {"text", "upload"}
  /\ Allegation \in BOOLEAN
  /\ TimelyTasks \in BOOLEAN
  /\ ApiMayCrash \in BOOLEAN
  /\ Losses \subseteq {"requeued", "acknowledged"}
  /\ MaxRetries \in Nat
  /\ RevisionLimit \in Nat
  /\ MaxCrashes \in Nat
  /\ MaxRedisErrors \in Nat

VARIABLES
  \* PostgreSQL: the verification_runs row, its events and its artifacts
  status, cancelRequested, publication,
  log,          \* agent_events in sequence order
  resumable,    \* stages whose output execute_verification_workflow reloads
  citations,    \* report_citations: "none" | "unsupported" | "passed"
  \* Redis
  lock,         \* owner of the run lock, Free or Abandoned
  queue,        \* ready task messages, counted by their retry number
  \* processes
  api,          \* the creating request: "enqueue" | "reject" | "done"
  pc,           \* what each worker does next
  retries,      \* request.retries of the delivery the worker holds
  at,           \* index of the workflow stage the worker is in
  audit,        \* the worker's own citation_audit result
  revisions,    \* citation_revision_count
  call,         \* arguments of the _record call in progress
  outcome,      \* how the locked region of verify_run was left
  \* bounds and history
  crashes, redisErrors,
  startedAfterCancel  \* stages begun although cancellation was durable

rowVars  == <<status, cancelRequested, publication, log>>
workVars == <<resumable, citations>>
taskVars == <<retries, at, audit, revisions, call, outcome>>
vars == <<rowVars, workVars, lock, queue, api, pc, taskVars, crashes,
          redisErrors, startedAfterCancel>>

------------------------------------------------------------------------------
(* Statuses and stages *)

\* _RUN_STATUSES: the run status each workflow stage reports.
StageStatus(stage) ==
  CASE stage = "intake" -> "VALIDATING"
    [] stage = "decomposition" -> "DECOMPOSING"
    [] stage \in {"planner", "discovery_source_selection", "secure_retrieval"}
         -> "RESEARCHING"
    [] stage \in {"extraction", "passage_segmentation_embedding"}
         -> "EXTRACTING"
    [] stage = "provenance_dependency_analysis" -> "ANALYZING_PROVENANCE"
    [] stage \in {"evidence_classification", "deterministic_scoring",
                  "numerical_audit"} -> "SCORING"
    [] stage = "synthesis" -> "SYNTHESIZING"
    [] OTHER -> "AUDITING"

AuditIndex    == Len(Pipeline)
RevisionIndex == Len(Pipeline) + 1
StageAt(i)    == IF i = RevisionIndex THEN "citation_revision" ELSE Pipeline[i]

\* Only these stages are reloaded from PostgreSQL on a second execution.
Reloaded == {"intake", "decomposition", "planner"}

EventType == (WorkflowStage \union {"run", "publication"}) \X
  {"queued", "validating", "validated", "failed", "cancelled",
   "cancellation_requested", "completed", "review_required", "rejected",
   "revision_required", "started", "recoverable_failure"}

Event == [stage : Status, type : EventType]

Recorded(type) == \E i \in DOMAIN log : log[i].type = type

NoCall == [stage |-> "QUEUED", type |-> <<"run", "queued">>,
           next |-> "idle", refused |-> "raise"]

------------------------------------------------------------------------------
(* The durable row *)

\* Faulty variant of Append1: the event keeps the status the row had.
AppendOldStatus(stage, type) ==
  log' = Append(log, [stage |-> status, type |-> type])

\* _next_sequence under the row lock: the event goes to the end of the log.
Append1(stage, type) == log' = Append(log, [stage |-> stage, type |-> type])

\* Faulty variant of PersistProgress: no transition rule.
PersistProgressUnchecked(stage, type) ==
  /\ status' = stage
  /\ cancelRequested' = (cancelRequested \/ stage = "CANCELLED")
  /\ Append1(stage, type)
  /\ UNCHANGED publication

\* persist_progress: the row and its next event commit together.
PersistProgress(stage, type) ==
  /\ MayMove(status, stage)
  /\ status' = stage
  /\ cancelRequested' = (cancelRequested \/ stage = "CANCELLED")
  /\ Append1(stage, type)
  /\ UNCHANGED publication

Init ==
  /\ status = "QUEUED"
  /\ cancelRequested = FALSE
  /\ publication = "unreviewed"
  /\ log = <<[stage |-> "QUEUED", type |-> <<"run", "queued">>]>>
  /\ resumable = {}
  /\ citations = "none"
  /\ lock = Free
  /\ queue = [r \in 0..MaxRetries |-> 0]
  /\ api = "enqueue"
  /\ pc = [w \in Worker |-> "idle"]
  /\ retries = [w \in Worker |-> 0]
  /\ at = [w \in Worker |-> 1]
  /\ audit = [w \in Worker |-> "none"]
  /\ revisions = [w \in Worker |-> 0]
  /\ call = [w \in Worker |-> NoCall]
  /\ outcome = [w \in Worker |-> "return"]
  /\ crashes = 0
  /\ redisErrors = 0
  /\ startedAfterCancel = 0

------------------------------------------------------------------------------
(* The API request that created the run, its owner, and the reviewer *)

apiFrame == <<workVars, lock, pc, taskVars, redisErrors, startedAfterCancel>>

Publish(r) == queue' = [queue EXCEPT ![r] = @ + 1]

\* dispatcher.enqueue succeeds.
Enqueue ==
  /\ api = "enqueue"
  /\ api' = "done"
  /\ Publish(0)
  /\ UNCHANGED <<rowVars, crashes, apiFrame>>

\* enqueue raises: no worker heartbeat, or the broker refused the message, or
\* the broker took the message and the reply was lost.
EnqueueRaises ==
  /\ api = "enqueue"
  /\ api' = "reject"
  /\ \/ UNCHANGED queue
     \/ Publish(0)
  /\ UNCHANGED <<rowVars, crashes, apiFrame>>

\* The handler fails the run; if the run is already terminal persist_progress
\* raises and the request ends with a server error.
RejectRun ==
  /\ api = "reject"
  /\ api' = "done"
  /\ \/ PersistProgress("FAILED", <<"run", "failed">>)
     \/ /\ status \in Terminal
        /\ UNCHANGED rowVars
  /\ UNCHANGED <<queue, crashes, apiFrame>>

\* The API process dies after it committed the run, before it is finished with
\* the request.
ApiCrash ==
  /\ ApiMayCrash
  /\ api # "done"
  /\ api' = "done"
  /\ UNCHANGED <<rowVars, queue, crashes, apiFrame>>

\* request_run_cancellation
RequestCancellation ==
  /\ status \notin Terminal
  /\ ~cancelRequested
  /\ cancelRequested' = TRUE
  /\ \/ /\ status = "QUEUED"
        /\ status' = "CANCELLED"
        /\ Append1("CANCELLED", <<"run", "cancelled">>)
     \/ /\ status # "QUEUED"
        /\ UNCHANGED status
        /\ Append1(status, <<"run", "cancellation_requested">>)
  /\ UNCHANGED <<publication, queue, api, crashes, apiFrame>>

Approves(decision) == decision = "approved"

\* decide_publication looks at publication_state and at the citations, not at
\* the run's status.
DecidePublication(decision) ==
  /\ publication = "review_required"
  /\ publication' = decision
  /\ \/ /\ Approves(decision)
        /\ citations = "passed"
        /\ status' = "COMPLETED"
        /\ Append1("COMPLETED", <<"run", "completed">>)
     \/ /\ ~Approves(decision)
        /\ UNCHANGED status
        /\ Append1(status, <<"publication", decision>>)
  /\ UNCHANGED <<cancelRequested, queue, api, crashes, apiFrame>>

------------------------------------------------------------------------------
(* One delivery of verify_run: taking the message and the lock *)

PC == {"idle", "acquire", "prepare", "validate", "precheck", "execute",
       "stage", "body", "finish", "advance", "failed", "complete", "commit",
       "release", "handle", "ack"}

Outcome == {"return", "retryable", "permanent", "terminal", "transient",
            "redis", "invalid", "error"}

\* The arguments of a _record call in progress, and where its return leads.
Call == [stage : Status, type : EventType, next : PC,
         refused : {"raise", "ignore"}]

Goto(w, l) == pc' = [pc EXCEPT ![w] = l]

\* The locked region is left by a return or by an exception.
Leave(w, how) ==
  /\ outcome' = [outcome EXCEPT ![w] = how]
  /\ Goto(w, "release")

infra == <<queue, api, crashes>>

\* The broker hands a ready message to an idle worker; it stays unacknowledged.
Deliver(w) ==
  \E r \in 0..MaxRetries :
    /\ pc[w] = "idle"
    /\ queue[r] > 0
    /\ queue' = [queue EXCEPT ![r] = @ - 1]
    /\ retries' = [retries EXCEPT ![w] = r]
    /\ Goto(w, "acquire")
    /\ UNCHANGED <<rowVars, workVars, lock, api, at, audit, revisions, call,
                   outcome, crashes, redisErrors, startedAfterCancel>>

\* lock.acquire: taken, or held by another owner, or Redis fails.
Acquire(w) ==
  /\ pc[w] = "acquire"
  /\ \/ /\ lock = Free
        /\ lock' = w
        /\ Goto(w, "prepare")
        /\ UNCHANGED <<outcome, redisErrors>>
     \/ /\ lock # Free
        /\ Goto(w, "ack")
        /\ UNCHANGED <<lock, outcome, redisErrors>>
     \/ /\ redisErrors < MaxRedisErrors
        /\ redisErrors' = redisErrors + 1
        /\ outcome' = [outcome EXCEPT ![w] = "redis"]
        /\ Goto(w, "handle")
        /\ UNCHANGED lock
  /\ UNCHANGED <<rowVars, workVars, retries, at, audit, revisions, call,
                 startedAfterCancel, infra>>

------------------------------------------------------------------------------
(* _record: look for the event and at the status, then commit *)

\* Faulty variant of Skips: only an earlier stage is left out.
SkipsEarlierOnly(stage, type) ==
  /\ stage \notin {"FAILED", "CANCELLED"}
  /\ Rank(stage) < Rank(status)

\* An event already durable, or one of an earlier stage, is not recorded again.
Skips(stage, type) ==
  \/ Recorded(type)
  \/ /\ stage \notin {"FAILED", "CANCELLED"}
     /\ Rank(stage) < Rank(status)

\* `refused' says what becomes of an exception of persist_progress: it is raised
\* to the caller, or logged and ignored.
Record(w, stage, type, next, refused) ==
  \/ /\ Skips(stage, type)
     /\ Goto(w, next)
     /\ UNCHANGED call
  \/ /\ ~Skips(stage, type)
     /\ Goto(w, "commit")
     /\ call' = [call EXCEPT ![w] = [stage |-> stage, type |-> type,
                                     next |-> next, refused |-> refused]]

\* The second half of _record: persist_progress under the row lock.
CommitRecord(w) ==
  LET c == call[w] IN
  /\ pc[w] = "commit"
  /\ call' = [call EXCEPT ![w] = NoCall]
  /\ \/ /\ PersistProgress(c.stage, c.type)
        /\ Goto(w, c.next)
        /\ startedAfterCancel' =
             startedAfterCancel
               + (IF c.next = "body" /\ cancelRequested THEN 1 ELSE 0)
        /\ UNCHANGED outcome
     \/ /\ ~MayMove(status, c.stage)
        /\ c.refused = "ignore"
        /\ Goto(w, c.next)
        /\ UNCHANGED <<rowVars, outcome, startedAfterCancel>>
     \/ /\ ~MayMove(status, c.stage)
        /\ c.refused = "raise"
        /\ Leave(w, IF status \in Terminal THEN "terminal" ELSE "invalid")
        /\ UNCHANGED <<rowVars, startedAfterCancel>>
  /\ UNCHANGED <<workVars, lock, retries, at, audit, revisions, redisErrors,
                 infra>>

\* _mark_failure_safely
MarkFailure(w, next) ==
  \/ /\ status \in Terminal
     /\ Goto(w, next)
     /\ UNCHANGED call
  \/ /\ status \notin Terminal
     /\ Record(w, "FAILED", <<"run", "failed">>, next, "ignore")

RecordCancelled(w, next, refused) ==
  Record(w, "CANCELLED", <<"run", "cancelled">>, next, refused)

\* _cancel_if_requested, in the cases where it returns True.
CancelIfRequested(w, next, refused) ==
  /\ cancelRequested
  /\ \/ /\ status \in Terminal
        /\ Goto(w, next)
        /\ UNCHANGED call
     \/ /\ status \notin Terminal
        /\ RecordCancelled(w, next, refused)

------------------------------------------------------------------------------
(* prepare_run and the checks before the workflow *)

rest == <<rowVars, workVars, lock, retries, redisErrors, infra>>

Prepare(w) ==
  /\ pc[w] = "prepare"
  /\ \/ /\ status \notin {"QUEUED", "VALIDATING"}
        /\ Goto(w, "precheck")
        /\ UNCHANGED call
     \/ /\ status \in {"QUEUED", "VALIDATING"}
        /\ CancelIfRequested(w, "precheck", "raise")
     \/ /\ status = "VALIDATING" /\ ~cancelRequested
        /\ Record(w, "VALIDATING", <<"run", "validated">>, "precheck", "raise")
     \/ /\ status = "QUEUED" /\ ~cancelRequested
        /\ Record(w, "VALIDATING", <<"run", "validating">>, "validate", "raise")
  /\ UNCHANGED <<rest, at, audit, revisions, outcome, startedAfterCancel>>

Validate(w) ==
  /\ pc[w] = "validate"
  /\ \/ CancelIfRequested(w, "precheck", "raise")
     \/ /\ ~cancelRequested
        /\ Record(w, "VALIDATING", <<"run", "validated">>, "precheck", "raise")
  /\ UNCHANGED <<rest, at, audit, revisions, outcome, startedAfterCancel>>

NothingToDo == status \in Terminal \/ publication \in Held \union {"approved"}

\* verify_run stops before the workflow for a cancelled, terminal, held or
\* approved run.
Precheck(w) ==
  /\ pc[w] = "precheck"
  /\ \/ CancelIfRequested(w, "release", "raise")
     \/ /\ ~cancelRequested
        /\ NothingToDo
        /\ Goto(w, "release")
        /\ UNCHANGED call
     \/ /\ ~cancelRequested
        /\ ~NothingToDo
        /\ Goto(w, "execute")
        /\ UNCHANGED call
  /\ UNCHANGED <<rest, at, audit, revisions, outcome, startedAfterCancel>>

------------------------------------------------------------------------------
(* execute_verification_workflow *)

\* The graph goes on after the longest prefix of stages that the reloaded state
\* holds as completed.
CompletedPrefix ==
  {i \in 1..AuditIndex : \A j \in 1..i : Pipeline[j] \in resumable}
FirstStage == 1 + Cardinality(CompletedPrefix)

\* A terminal or queued run, or one without text or URL, yields no result and
\* verify_run returns; otherwise the graph starts from the reloaded stages.
Execute(w) ==
  /\ pc[w] = "execute"
  /\ \/ /\ status \in Terminal \union {"QUEUED"} \/ Input # "text"
        /\ Goto(w, "release")
        /\ UNCHANGED <<at, audit, revisions>>
     \/ /\ status \notin Terminal \union {"QUEUED"}
        /\ Input = "text"
        /\ at' = [at EXCEPT ![w] = FirstStage]
        /\ audit' = [audit EXCEPT ![w] = "none"]
        /\ revisions' = [revisions EXCEPT ![w] = 0]
        /\ Goto(w, "stage")
  /\ UNCHANGED <<rest, call, outcome, startedAfterCancel>>

\* Faulty variant of BeginStage: no cancellation check.
BeginStageBlindly(w) ==
  LET stage == StageAt(at[w]) IN
  /\ pc[w] = "stage"
  /\ Record(w, StageStatus(stage), <<stage, "started">>, "body", "raise")
  /\ UNCHANGED <<rest, at, audit, revisions, outcome, startedAfterCancel>>

\* WorkflowNodes._begin
BeginStage(w) ==
  LET stage == StageAt(at[w]) IN
  /\ pc[w] = "stage"
  /\ \/ /\ cancelRequested
        /\ RecordCancelled(w, "release", "raise")
     \/ /\ ~cancelRequested
        /\ Record(w, StageStatus(stage), <<stage, "started">>, "body", "raise")
  /\ UNCHANGED <<rest, at, audit, revisions, outcome, startedAfterCancel>>

\* Faulty variant of MayRevise: one revision too many.
MayReviseOnceMore(w) == revisions[w] <= RevisionLimit

MayRevise(w) == revisions[w] < RevisionLimit

\* The stage succeeds and its output is saved (SqlWorkflowStateWriter.save
\* takes no lock and looks at no status).
StageSucceeds(w) ==
  LET stage == StageAt(at[w]) IN
  /\ pc[w] = "body"
  /\ resumable' = resumable \union ({stage} \intersect Reloaded)
  /\ \/ /\ stage = "citation_audit"
        /\ \E result \in {"passed", "unsupported"} :
             /\ citations' = result
             /\ audit' = [audit EXCEPT ![w] = result]
        /\ UNCHANGED revisions
     \/ /\ stage = "citation_revision"
        /\ MayRevise(w)
        /\ revisions' = [revisions EXCEPT ![w] = @ + 1]
        /\ audit' = [audit EXCEPT ![w] = "none"]
        /\ UNCHANGED citations
     \/ /\ stage \notin {"citation_audit", "citation_revision"}
        /\ UNCHANGED <<citations, audit, revisions>>
  /\ Goto(w, "finish")
  /\ UNCHANGED <<rowVars, lock, retries, redisErrors, infra, at, call,
                 outcome, startedAfterCancel>>

\* WorkflowNodes._failure: a typed recoverable error stops the graph; an
\* exhausted revision budget is one of them.
StageFails(w) ==
  LET stage == StageAt(at[w]) IN
  /\ pc[w] = "body"
  /\ \E kind \in {"retryable", "permanent"} :
       /\ (stage = "citation_revision" /\ ~MayRevise(w))
            => kind = "permanent"
       /\ outcome' = [outcome EXCEPT ![w] = kind]
  /\ Record(w, StageStatus(stage), <<stage, "recoverable_failure">>, "failed",
            "raise")
  /\ UNCHANGED <<rest, at, audit, revisions, startedAfterCancel>>

\* WorkflowNodes._finish publishes after the save.
FinishStage(w) ==
  LET stage == StageAt(at[w]) IN
  /\ pc[w] = "finish"
  /\ Record(w, StageStatus(stage), <<stage, "completed">>, "advance", "raise")
  /\ UNCHANGED <<rest, at, audit, revisions, outcome, startedAfterCancel>>

\* _citation_revision_route
NeedsRevision(w) == audit[w] = "unsupported"

\* The graph's edges: linear, then audit and revision alternate until the audit
\* needs no revision.
Advance(w) ==
  /\ pc[w] = "advance"
  /\ \/ /\ at[w] < AuditIndex
        /\ at' = [at EXCEPT ![w] = @ + 1]
        /\ Goto(w, "stage")
     \/ /\ at[w] = AuditIndex /\ NeedsRevision(w)
        /\ at' = [at EXCEPT ![w] = RevisionIndex]
        /\ Goto(w, "stage")
     \/ /\ at[w] = AuditIndex /\ ~NeedsRevision(w)
        /\ Goto(w, "complete")
        /\ UNCHANGED at
     \/ /\ at[w] = RevisionIndex
        /\ at' = [at EXCEPT ![w] = AuditIndex]
        /\ Goto(w, "stage")
  /\ UNCHANGED <<rest, audit, revisions, call, outcome, startedAfterCancel>>

------------------------------------------------------------------------------
(* What verify_run does with the result *)

\* The with-block of verify_run, from the acquired lock to its release.
InLockedRegion(w) ==
  \/ pc[w] \in {"prepare", "validate", "precheck", "execute", "stage", "body",
                "finish", "advance", "failed", "complete", "release"}
  \/ pc[w] = "commit" /\ call[w].next # "ack"

\* Anything else is raised there, and a transaction in progress is rolled back:
\* a contract violation, a database error, the soft time limit.
Raises(w) ==
  /\ InLockedRegion(w)
  /\ pc[w] # "release"
  /\ pc[w] = "commit" => call[w].refused = "raise"
  /\ call' = [call EXCEPT ![w] = NoCall]
  /\ Leave(w, "error")
  /\ UNCHANGED <<rest, at, audit, revisions, startedAfterCancel>>

\* A retryable error is raised for Celery; any other fails the run in place.
WorkflowFailed(w) ==
  /\ pc[w] = "failed"
  /\ \/ /\ outcome[w] = "retryable"
        /\ Leave(w, "transient")
        /\ UNCHANGED call
     \/ /\ outcome[w] = "permanent"
        /\ outcome' = [outcome EXCEPT ![w] = "return"]
        /\ MarkFailure(w, "release")
  /\ UNCHANGED <<rest, at, audit, revisions, startedAfterCancel>>

\* Faulty variant of CompletionBlocked: only the status is checked again.
CompletionBlockedIfTerminal == status \in Terminal

CompletionBlocked ==
  status \in Terminal \/ publication \in Held \/ cancelRequested

\* persist_completed_run: every check and the publication under one row lock.
PersistCompletedRun(w) ==
  /\ pc[w] = "complete"
  /\ \/ /\ CompletionBlocked
        /\ Leave(w, "terminal")
        /\ UNCHANGED rowVars
     \/ /\ ~CompletionBlocked
        /\ citations # "passed"
        /\ Leave(w, "invalid")
        /\ UNCHANGED rowVars
     \/ /\ ~CompletionBlocked
        /\ citations = "passed"
        /\ Allegation
        /\ publication' = "review_required"
        /\ Append1("AUDITING", <<"publication", "review_required">>)
        /\ Leave(w, "return")
        /\ UNCHANGED <<status, cancelRequested>>
     \/ /\ ~CompletionBlocked
        /\ citations = "passed"
        /\ ~Allegation
        /\ publication' = "published"
        /\ status' = "COMPLETED"
        /\ Append1("COMPLETED", <<"run", "completed">>)
        /\ Leave(w, "return")
        /\ UNCHANGED cancelRequested
  /\ UNCHANGED <<workVars, lock, retries, redisErrors, infra, at, audit,
                 revisions, call, startedAfterCancel>>

\* Leaving the with-block releases the lock this worker still owns; a lock that
\* lapsed is somebody else's. A Redis failure here replaces what was raised and
\* leaves the key behind.
Release(w) ==
  /\ pc[w] = "release"
  /\ Goto(w, "handle")
  /\ \/ /\ lock' = IF lock = w THEN Free ELSE lock
        /\ UNCHANGED <<outcome, redisErrors>>
     \/ /\ redisErrors < MaxRedisErrors
        /\ redisErrors' = redisErrors + 1
        /\ outcome' = [outcome EXCEPT ![w] = "redis"]
        /\ lock' = IF lock = w THEN Abandoned ELSE lock
  /\ UNCHANGED <<rowVars, workVars, retries, infra, at, audit, revisions,
                 call, startedAfterCancel>>

\* Faulty variant of Republish: the retry counter is not carried forward.
RepublishAsNew(w) == Publish(retries[w])

\* self.retry
Republish(w) == Publish(retries[w] + 1)

\* The exception handlers run after the lock is gone.
Handle(w) ==
  /\ pc[w] = "handle"
  /\ \/ /\ \/ outcome[w] = "return"
           \/ outcome[w] = "terminal" /\ ~cancelRequested
        /\ Goto(w, "ack")
        /\ UNCHANGED <<call, queue>>
     \/ /\ outcome[w] = "terminal"
        /\ CancelIfRequested(w, "ack", "ignore")
        /\ UNCHANGED queue
     \/ /\ outcome[w] = "transient" /\ retries[w] < MaxRetries
        /\ Republish(w)
        /\ Goto(w, "ack")
        /\ UNCHANGED call
     \/ /\ \/ outcome[w] \in {"redis", "invalid", "error"}
           \/ outcome[w] = "transient" /\ retries[w] >= MaxRetries
        /\ MarkFailure(w, "ack")
        /\ UNCHANGED queue
  /\ UNCHANGED <<rowVars, workVars, lock, retries, redisErrors, api, crashes,
                 at, audit, revisions, outcome, startedAfterCancel>>

\* The worker forgets the delivery.
Forget(w) ==
  /\ pc' = [pc EXCEPT ![w] = "idle"]
  /\ retries' = [retries EXCEPT ![w] = 0]
  /\ at' = [at EXCEPT ![w] = 1]
  /\ audit' = [audit EXCEPT ![w] = "none"]
  /\ revisions' = [revisions EXCEPT ![w] = 0]
  /\ call' = [call EXCEPT ![w] = NoCall]
  /\ outcome' = [outcome EXCEPT ![w] = "return"]

\* task_acks_late: the message is acknowledged once the task has ended.
Ack(w) ==
  /\ pc[w] = "ack"
  /\ Forget(w)
  /\ UNCHANGED <<rowVars, workVars, lock, redisErrors, infra, startedAfterCancel>>

------------------------------------------------------------------------------
(* Failures around the worker *)

\* The worker is lost and its lock stays behind until the TTL. Its message is
\* delivered again if the process died, and is gone if Celery killed the task at
\* its hard time limit and acknowledged it.
Crash(w) ==
  /\ pc[w] # "idle"
  /\ crashes < MaxCrashes
  /\ crashes' = crashes + 1
  /\ \/ "requeued" \in Losses /\ Publish(retries[w])
     \/ "acknowledged" \in Losses /\ UNCHANGED queue
  /\ lock' = IF lock = w THEN Abandoned ELSE lock
  /\ Forget(w)
  /\ UNCHANGED <<rowVars, workVars, api, redisErrors, startedAfterCancel>>

\* A task that outlives the visibility timeout is delivered a second time.
Redeliver(w) ==
  /\ ~TimelyTasks
  /\ pc[w] # "idle"
  /\ crashes < MaxCrashes
  /\ crashes' = crashes + 1
  /\ Publish(retries[w])
  /\ UNCHANGED <<rowVars, workVars, lock, api, pc, taskVars, redisErrors,
                 startedAfterCancel>>

\* Faulty variant of LockExpires: the TTL is shorter than the task.
LockExpiresEarly ==
  /\ lock # Free
  /\ lock' = Free
  /\ UNCHANGED <<rowVars, workVars, pc, taskVars, redisErrors,
                 startedAfterCancel, infra>>

\* The key expires: under a live owner only if its task outlives the lock TTL.
LockExpires ==
  /\ lock = Abandoned \/ (~TimelyTasks /\ lock \in Worker)
  /\ lock' = Free
  /\ UNCHANGED <<rowVars, workVars, pc, taskVars, redisErrors,
                 startedAfterCancel, infra>>

------------------------------------------------------------------------------
RunLocked(w) ==
  \/ Prepare(w) \/ Validate(w) \/ Precheck(w) \/ Execute(w)
  \/ BeginStage(w) \/ StageSucceeds(w) \/ StageFails(w) \/ Raises(w)
  \/ FinishStage(w) \/ Advance(w) \/ WorkflowFailed(w)
  \/ PersistCompletedRun(w) \/ Release(w)

WorkerStep(w) ==
  Acquire(w) \/ RunLocked(w) \/ CommitRecord(w) \/ Handle(w) \/ Ack(w)

Decisions == {"approved", "rejected", "revision_required"}

Next ==
  \/ Enqueue \/ EnqueueRaises \/ RejectRun \/ ApiCrash
  \/ RequestCancellation
  \/ \E d \in Decisions : DecidePublication(d)
  \/ \E w \in Worker : Deliver(w) \/ WorkerStep(w) \/ Crash(w) \/ Redeliver(w)
  \/ LockExpires

\* Nobody has to cancel, decide or crash; a handler that started goes on, a
\* worker keeps executing what it took, ready messages are delivered and a
\* Redis key with a TTL goes away.
Fairness ==
  /\ WF_vars(Enqueue \/ EnqueueRaises)
  /\ WF_vars(RejectRun)
  /\ WF_vars(\E w \in Worker : Deliver(w))
  /\ \A w \in Worker : WF_vars(WorkerStep(w))
  /\ WF_vars(LockExpires)

Spec == Init /\ [][Next]_vars
FairSpec == Spec /\ Fairness

------------------------------------------------------------------------------
(* Properties *)

\* Counters, places and log of verify_run keep their types: no step retries, revises
\* or loses a worker beyond its bound.
TypeOK ==
  /\ status \in Status
  /\ cancelRequested \in BOOLEAN
  /\ publication \in Publication
  /\ log \in Seq(Event)
  /\ resumable \subseteq Reloaded
  /\ citations \in {"none", "unsupported", "passed"}
  /\ lock \in Worker \union {Free, Abandoned}
  /\ queue \in [0..MaxRetries -> Nat]
  /\ api \in {"enqueue", "reject", "done"}
  /\ pc \in [Worker -> PC]
  /\ retries \in [Worker -> 0..MaxRetries]
  /\ at \in [Worker -> 1..RevisionIndex]
  /\ audit \in [Worker -> {"none", "unsupported", "passed"}]
  /\ revisions \in [Worker -> 0..RevisionLimit]
  /\ call \in [Worker -> Call]
  /\ outcome \in [Worker -> Outcome]
  /\ crashes \in 0..MaxCrashes
  /\ redisErrors \in 0..MaxRedisErrors
  /\ startedAfterCancel \in Nat

Contract == INSTANCE RunContract
              WITH stages <- [i \in DOMAIN log |-> log[i].stage]

\* Workers, redeliveries, the API and the reviewer together keep the contract
\* of the durable run: each change commits with its event, a run is cancelled
\* only on request, a report with an allegation completes only by approval, and
\* statuses move forward, stop at the first terminal one and do not complete
\* after a request to cancel, with one exception the contract grants because
\* decide_publication looks at the publication state alone (governance.py:44,
\* where run_lifecycle.py:97 would refuse): approving a held report completes
\* the run whatever became of it since, FAILED, CANCELLED or to be cancelled.
ImplementsContract == Contract!Spec

\* Cancellation wins the race with completion: once the request is durable, a
\* run that nobody holds for review cannot complete.
CancellationWins == status = "COMPLETED" /\ ~Allegation => ~cancelRequested

\* A completed report still has the audited citations it was completed with:
\* no worker saves another audit over a report that is already public.
CompletedStaysAudited == status = "COMPLETED" => citations = "passed"

\* A redelivered or retried task does not report the same event again, and two
\* writers never report two endings.
EventsRecordedOnce ==
  \A i, j \in DOMAIN log : log[i].type = log[j].type => i = j

\* The last event a reader sees carries the status the row has.
RowMatchesLog == log[Len(log)].stage = status

\* After a durable cancellation request at most one more stage begins: the one
\* whose cancellation check had already passed.
CancelStopsBeforeNextStage == startedAfterCancel <= 1

\* At most one worker is in the region verify_run guards with the run lock.
SingleOwner ==
  \A v, w \in Worker : InLockedRegion(v) /\ InLockedRegion(w) => v = w

Settled == status \in Terminal \/ publication \in Held
Pending ==
  \/ api # "done"
  \/ \E r \in 0..MaxRetries : queue[r] > 0
  \/ \E w \in Worker : pc[w] # "idle"

\* A run that is neither settled nor handed to governance still has somebody
\* who will carry it on: its creating request, a message or a worker.
NeverStranded == Settled \/ Pending

\* A report with an allegation is completed by an approval and nothing else.
AllegationNeedsApproval ==
  status = "COMPLETED" /\ Allegation => publication = "approved"

\* Every run is eventually settled or handed to governance.
EventuallySettled == <>Settled
==============================================================================
