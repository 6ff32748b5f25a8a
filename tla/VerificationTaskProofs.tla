----------------------- MODULE VerificationTaskProofs -----------------------
(***************************************************************************)
(* Proofs about VerificationTask for every set of workers, pipeline and    *)
(* bound: type correctness, what a step does to the workers, and the       *)
(* durable row under every writer; then the run lock and what it is for.   *)
(* While no task outlives its limits one worker owns the run, so no event  *)
(* is reported twice, a completed report keeps its audit, a cancellation   *)
(* stops the next stage but one, and the run keeps RunContract with an     *)
(* allegation as well as without.                                          *)
(***************************************************************************)
EXTENDS VerificationTask, FiniteSetTheorems, SequenceTheorems, TLAPS

------------------------------------------------------------------------------
(* Facts about the constants and the operators of the model *)

\* Every index of the workflow names a stage, and the audit is its last index.
LEMMA StageFacts ==
  /\ AuditIndex \in Nat \ {0}
  /\ RevisionIndex \in Nat
  /\ \A i \in 1..RevisionIndex : StageAt(i) \in WorkflowStage
  /\ Pipeline[AuditIndex] = "citation_audit"
<1>1. AuditIndex \in Nat \ {0} /\ Pipeline[AuditIndex] = "citation_audit"
  BY VerificationTaskAssumption DEF AuditIndex
<1>2. \A i \in 1..AuditIndex : Pipeline[i] \in WorkflowStage
  BY VerificationTaskAssumption DEF AuditIndex
<1> QED BY <1>1, <1>2 DEF RevisionIndex, StageAt, AuditIndex, WorkflowStage

\* A stage reports a status that is neither queued nor terminal.
LEMMA StageStatusFacts ==
  ASSUME NEW stage
  PROVE  StageStatus(stage) \in Status \ (Terminal \union {"QUEUED"})
BY DEF StageStatus, Status, Terminal

\* The audit is never reloaded, so a resumed workflow starts at a stage of the
\* pipeline.
LEMMA FirstStageInPipeline ==
  ASSUME resumable \subseteq Reloaded
  PROVE  FirstStage \in 1..AuditIndex
<1>1. CompletedPrefix \subseteq 1..(AuditIndex - 1)
  BY StageFacts DEF CompletedPrefix, Reloaded
<1>2. /\ IsFiniteSet(1..(AuditIndex - 1))
      /\ Cardinality(1..(AuditIndex - 1)) = AuditIndex - 1
  BY FS_Interval, StageFacts
<1>3. /\ Cardinality(CompletedPrefix) \in Nat
      /\ Cardinality(CompletedPrefix) <= AuditIndex - 1
  BY <1>1, <1>2, FS_Subset, FS_CardinalityType
<1> QED BY <1>3, StageFacts DEF FirstStage

------------------------------------------------------------------------------
(* Type correctness *)

\* The statuses and event types of the calls the model makes are in range.
LEMMA EventTypes ==
  /\ \A stage \in WorkflowStage :
       /\ <<stage, "started">> \in EventType
       /\ <<stage, "completed">> \in EventType
       /\ <<stage, "recoverable_failure">> \in EventType
  /\ \A e \in {"queued", "validating", "validated", "failed", "cancelled",
               "cancellation_requested", "completed"} :
       <<"run", e>> \in EventType
  /\ \A e \in Publication \ {"unreviewed", "published", "approved"} :
       <<"publication", e>> \in EventType
BY DEF EventType, Publication

\* Recording a well-typed event keeps the worker's program counter and call
\* well typed.
LEMMA RecordType ==
  ASSUME pc \in [Worker -> PC], call \in [Worker -> Call],
         NEW w \in Worker, NEW stage \in Status,
         NEW type \in EventType, NEW next \in PC, NEW refused \in {"raise", "ignore"},
         Record(w, stage, type, next, refused)
  PROVE  pc' \in [Worker -> PC] /\ call' \in [Worker -> Call]
<1>1. [stage |-> stage, type |-> type, next |-> next, refused |-> refused] \in Call
  BY Zenon DEF Call
<1>2. "commit" \in PC
  BY DEF PC
<1> QED BY <1>1, <1>2 DEF Record, Goto

LEMMA MarkFailureType ==
  ASSUME pc \in [Worker -> PC], call \in [Worker -> Call],
         NEW w \in Worker, NEW next \in PC, MarkFailure(w, next)
  PROVE  pc' \in [Worker -> PC] /\ call' \in [Worker -> Call]
<1>1. "FAILED" \in Status /\ <<"run", "failed">> \in EventType
  BY EventTypes DEF Status, Terminal
<1>2. CASE status \in Terminal
  BY <1>2 DEF MarkFailure, Goto
<1>3. CASE status \notin Terminal
  BY <1>1, <1>3, RecordType DEF MarkFailure
<1> QED BY <1>2, <1>3

LEMMA CancelIfRequestedType ==
  ASSUME pc \in [Worker -> PC], call \in [Worker -> Call],
         NEW w \in Worker, NEW next \in PC, NEW refused \in {"raise", "ignore"},
         CancelIfRequested(w, next, refused)
  PROVE  pc' \in [Worker -> PC] /\ call' \in [Worker -> Call]
<1>1. "CANCELLED" \in Status /\ <<"run", "cancelled">> \in EventType
  BY EventTypes DEF Status, Terminal
<1>2. CASE status \in Terminal
  BY <1>2 DEF CancelIfRequested, Goto
<1>3. CASE status \notin Terminal
  BY <1>1, <1>3, RecordType DEF CancelIfRequested, RecordCancelled
<1> QED BY <1>2, <1>3

\* Appending a well-typed event keeps the log well typed.
LEMMA AppendType ==
  ASSUME log \in Seq(Event),
         NEW stage \in Status, NEW type \in EventType, Append1(stage, type)
  PROVE  log' \in Seq(Event)
<1>1. [stage |-> stage, type |-> type] \in Event
  BY Zenon DEF Event
<1> QED BY <1>1 DEF Append1

LEMMA PersistProgressType ==
  ASSUME status \in Status, cancelRequested \in BOOLEAN,
         publication \in Publication, log \in Seq(Event),
         NEW stage \in Status, NEW type \in EventType,
         PersistProgress(stage, type)
  PROVE  /\ status' \in Status
         /\ cancelRequested' \in BOOLEAN
         /\ publication' \in Publication
         /\ log' \in Seq(Event)
BY AppendType DEF PersistProgress

LEMMA PublishType ==
  ASSUME queue \in [0..MaxRetries -> Nat], NEW r \in 0..MaxRetries, Publish(r)
  PROVE  queue' \in [0..MaxRetries -> Nat]
<1>1. queue[r] + 1 \in Nat
  OBVIOUS
<1> QED BY <1>1 DEF Publish

\* Initially every variable has its type.
LEMMA InitTypeOK == Init => TypeOK
<1> SUFFICES ASSUME Init PROVE TypeOK
  OBVIOUS
<1>1. "QUEUED" \in Status /\ <<"run", "queued">> \in EventType
  BY EventTypes DEF Status
<1>2. 1 \in 1..RevisionIndex
  BY StageFacts DEF RevisionIndex
<1>3. NoCall \in Call
  <2>1. "idle" \in PC
    BY DEF PC
  <2> QED BY <1>1, <2>1, Zenon DEF NoCall, Call
<1>4. [stage |-> "QUEUED", type |-> <<"run", "queued">>] \in Event
  BY <1>1, Zenon DEF Event
<1>5. log \in Seq(Event)
  BY <1>4 DEF Init
<1>6. status \in Status /\ publication \in Publication /\ resumable \subseteq Reloaded
  BY <1>1 DEF Init, Publication
<1>7. pc \in [Worker -> PC] /\ outcome \in [Worker -> Outcome]
  BY DEF Init, PC, Outcome
<1>8. call \in [Worker -> Call]
  BY <1>3 DEF Init
<1>9. /\ queue \in [0..MaxRetries -> Nat]
      /\ retries \in [Worker -> 0..MaxRetries]
      /\ at \in [Worker -> 1..RevisionIndex]
      /\ revisions \in [Worker -> 0..RevisionLimit]
      /\ crashes \in 0..MaxCrashes
      /\ redisErrors \in 0..MaxRedisErrors
      /\ startedAfterCancel \in Nat
  BY <1>2, VerificationTaskAssumption DEF Init
<1>10. /\ cancelRequested \in BOOLEAN
       /\ citations \in {"none", "unsupported", "passed"}
       /\ lock \in Worker \union {Free, Abandoned}
       /\ api \in {"enqueue", "reject", "done"}
       /\ audit \in [Worker -> {"none", "unsupported", "passed"}]
  BY DEF Init
<1> QED
  BY <1>5, <1>6, <1>7, <1>8, <1>9, <1>10 DEF TypeOK

\* Steps of the API, the owner and the reviewer.
LEMMA ApiTypeOK ==
  ASSUME TypeOK, Enqueue \/ EnqueueRaises \/ RejectRun \/ ApiCrash
                 \/ RequestCancellation
                 \/ (\E d \in Decisions : DecidePublication(d))
  PROVE  TypeOK'
<1> USE DEF apiFrame, rowVars, workVars, taskVars
<1>0. 0 \in 0..MaxRetries /\ queue \in [0..MaxRetries -> Nat]
  BY VerificationTaskAssumption DEF TypeOK
<1>1. CASE Enqueue
  <2>1. queue' \in [0..MaxRetries -> Nat]
    BY <1>0, <1>1, PublishType DEF Enqueue
  <2> QED BY <1>1, <2>1 DEF Enqueue, TypeOK
<1>2. CASE EnqueueRaises
  <2>1. queue' \in [0..MaxRetries -> Nat]
    BY <1>0, <1>2, PublishType DEF EnqueueRaises
  <2> QED BY <1>2, <2>1 DEF EnqueueRaises, TypeOK
<1>3. CASE RejectRun
  <2>1. "FAILED" \in Status /\ <<"run", "failed">> \in EventType
    BY EventTypes DEF Status, Terminal
  <2>2. /\ status' \in Status
        /\ cancelRequested' \in BOOLEAN
        /\ publication' \in Publication
        /\ log' \in Seq(Event)
    BY <1>3, <2>1, PersistProgressType DEF RejectRun, TypeOK
  <2> QED BY <1>3, <2>2 DEF RejectRun, TypeOK
<1>4. CASE ApiCrash
  BY <1>4 DEF ApiCrash, TypeOK
<1>5. CASE RequestCancellation
  <2>1. /\ "CANCELLED" \in Status
        /\ <<"run", "cancelled">> \in EventType
        /\ <<"run", "cancellation_requested">> \in EventType
    BY EventTypes DEF Status, Terminal
  <2>2. log' \in Seq(Event)
    BY <1>5, <2>1, AppendType DEF RequestCancellation, TypeOK
  <2> QED BY <1>5, <2>1, <2>2 DEF RequestCancellation, TypeOK
<1>6. CASE \E d \in Decisions : DecidePublication(d)
  <2>1. PICK d \in Decisions : DecidePublication(d)
    BY <1>6
  <2>2. /\ "COMPLETED" \in Status
        /\ <<"run", "completed">> \in EventType
        /\ d # "approved" => <<"publication", d>> \in EventType
        /\ d \in Publication
    BY EventTypes DEF Status, Terminal, Decisions, Publication
  <2>3. log' \in Seq(Event)
    BY <2>1, <2>2, AppendType DEF DecidePublication, Approves, TypeOK
  <2> QED BY <2>1, <2>2, <2>3 DEF DecidePublication, TypeOK
<1> QED BY <1>1, <1>2, <1>3, <1>4, <1>5, <1>6

\* Steps that change neither the row nor the artifacts but move one worker
\* through _record or a branch.
LEMMA BranchTypeOK ==
  ASSUME TypeOK, NEW w \in Worker,
         \/ Prepare(w) \/ Validate(w) \/ Precheck(w) \/ BeginStage(w)
         \/ FinishStage(w) \/ StageFails(w) \/ WorkflowFailed(w)
         \/ Handle(w)
  PROVE  TypeOK'
<1> DEFINE Moves == pc' \in [Worker -> PC] /\ call' \in [Worker -> Call]
<1>1. /\ pc \in [Worker -> PC]
      /\ call \in [Worker -> Call]
      /\ at[w] \in 1..RevisionIndex
  BY DEF TypeOK
<1>2. /\ {"precheck", "validate", "release", "execute", "ack", "body",
         "advance", "failed"} \subseteq PC
      /\ {"return", "transient", "retryable", "permanent"} \subseteq Outcome
  BY DEF PC, Outcome
<1>3. /\ "VALIDATING" \in Status
      /\ <<"run", "validated">> \in EventType
      /\ <<"run", "validating">> \in EventType
  BY EventTypes DEF Status
<1>4. /\ StageStatus(StageAt(at[w])) \in Status
      /\ <<StageAt(at[w]), "started">> \in EventType
      /\ <<StageAt(at[w]), "completed">> \in EventType
      /\ <<StageAt(at[w]), "recoverable_failure">> \in EventType
  BY <1>1, StageFacts, StageStatusFacts, EventTypes
<1>5. \A l \in PC : Goto(w, l) => pc' \in [Worker -> PC]
  BY <1>1 DEF Goto
<1>6. CASE Prepare(w)
  <2>1. Moves
    BY <1>1, <1>2, <1>3, <1>5, <1>6, RecordType, CancelIfRequestedType
    DEF Prepare
  <2> QED BY <1>6, <2>1 DEF Prepare, TypeOK, rest, rowVars, workVars, infra
<1>7. CASE Validate(w)
  <2>1. Moves
    BY <1>1, <1>2, <1>3, <1>7, RecordType, CancelIfRequestedType DEF Validate
  <2> QED BY <1>7, <2>1 DEF Validate, TypeOK, rest, rowVars, workVars, infra
<1>8. CASE Precheck(w)
  <2>1. Moves
    BY <1>1, <1>2, <1>5, <1>8, CancelIfRequestedType DEF Precheck
  <2> QED BY <1>8, <2>1 DEF Precheck, TypeOK, rest, rowVars, workVars, infra
<1>9. CASE BeginStage(w)
  <2>1. "CANCELLED" \in Status /\ <<"run", "cancelled">> \in EventType
    BY EventTypes DEF Status, Terminal
  <2>2. Moves
    BY <1>1, <1>2, <1>4, <1>9, <2>1, RecordType DEF BeginStage, RecordCancelled
  <2> QED BY <1>9, <2>2 DEF BeginStage, TypeOK, rest, rowVars, workVars, infra
<1>10. CASE FinishStage(w)
  <2>1. Moves
    BY <1>1, <1>2, <1>4, <1>10, RecordType DEF FinishStage
  <2> QED BY <1>10, <2>1 DEF FinishStage, TypeOK, rest, rowVars, workVars, infra
<1>11. CASE StageFails(w)
  <2>1. Moves
    BY <1>1, <1>2, <1>4, <1>11, RecordType DEF StageFails
  <2>2. outcome' \in [Worker -> Outcome]
    BY <1>2, <1>11 DEF StageFails, TypeOK
  <2> QED BY <1>11, <2>1, <2>2 DEF StageFails, TypeOK, rest, rowVars, workVars, infra
<1>12. CASE WorkflowFailed(w)
  <2>1. Moves
    BY <1>1, <1>2, <1>5, <1>12, MarkFailureType DEF WorkflowFailed, Leave
  <2>2. outcome' \in [Worker -> Outcome]
    BY <1>2, <1>12 DEF WorkflowFailed, Leave, TypeOK
  <2> QED
    BY <1>12, <2>1, <2>2 DEF WorkflowFailed, TypeOK, rest, rowVars, workVars, infra
<1>13. CASE Handle(w)
  <2>1. Moves
    BY <1>1, <1>2, <1>5, <1>13, MarkFailureType, CancelIfRequestedType DEF Handle
  <2>2. queue' \in [0..MaxRetries -> Nat]
    <3>1. queue \in [0..MaxRetries -> Nat] /\ retries[w] \in 0..MaxRetries
      BY DEF TypeOK
    <3>2. CASE UNCHANGED queue
      BY <3>1, <3>2
    <3>3. CASE retries[w] < MaxRetries /\ Publish(retries[w] + 1)
      <4>1. retries[w] + 1 \in 0..MaxRetries
        BY <3>1, <3>3, VerificationTaskAssumption
      <4> QED BY <3>1, <3>3, <4>1, PublishType
    <3> QED BY <1>13, <3>2, <3>3 DEF Handle, Republish
  <2> QED BY <1>13, <2>1, <2>2 DEF Handle, TypeOK, rowVars, workVars
<1> QED
  BY <1>6, <1>7, <1>8, <1>9, <1>10, <1>11, <1>12, <1>13

\* Steps of the broker and of the workflow.
LEMMA StepTypeOK ==
  ASSUME TypeOK, NEW w \in Worker,
         \/ Deliver(w) \/ Acquire(w) \/ CommitRecord(w) \/ Execute(w)
         \/ StageSucceeds(w) \/ Raises(w) \/ Advance(w)
         \/ PersistCompletedRun(w) \/ Release(w) \/ Ack(w) \/ Crash(w)
         \/ Redeliver(w)
  PROVE  TypeOK'
<1> USE DEF rest, rowVars, workVars, infra
<1>1. {"idle", "acquire", "prepare", "release", "ack", "handle", "stage",
       "finish", "complete"} \subseteq PC
  BY DEF PC
<1>2. {"redis", "return", "terminal", "invalid", "error"} \subseteq Outcome
  BY DEF Outcome
<1>3. /\ queue \in [0..MaxRetries -> Nat]
      /\ retries[w] \in 0..MaxRetries
      /\ 0 \in 0..MaxRetries
  BY VerificationTaskAssumption DEF TypeOK
<1>4. "QUEUED" \in Status /\ <<"run", "queued">> \in EventType
  BY EventTypes DEF Status
<1>5. NoCall \in Call
  BY <1>1, <1>4, Zenon DEF NoCall, Call
<1>20. \A l \in PC : Goto(w, l) => pc' \in [Worker -> PC]
  BY DEF Goto, TypeOK
<1>21. \A o \in Outcome : outcome' = [outcome EXCEPT ![w] = o]
                           => outcome' \in [Worker -> Outcome]
  BY DEF TypeOK
<1>22. \A how \in Outcome : Leave(w, how) => /\ pc' \in [Worker -> PC]
                                           /\ outcome' \in [Worker -> Outcome]
  BY <1>1, <1>20, <1>21 DEF Leave
<1>6. CASE Deliver(w)
  <2>1. PICK r \in 0..MaxRetries : /\ queue[r] > 0
                                   /\ queue' = [queue EXCEPT ![r] = @ - 1]
                                   /\ retries' = [retries EXCEPT ![w] = r]
    BY <1>6 DEF Deliver
  <2>2. queue[r] - 1 \in Nat
    BY <1>3, <2>1
  <2>3. queue' \in [0..MaxRetries -> Nat]
    BY <1>3, <2>1, <2>2
  <2> QED BY <1>1, <1>6, <2>1, <2>3 DEF Deliver, Goto, TypeOK
<1>7. CASE Acquire(w)
  <2>1. pc' \in [Worker -> PC]
    BY <1>1, <1>7, <1>20 DEF Acquire
  <2>2. outcome' \in [Worker -> Outcome]
    BY <1>2, <1>7 DEF Acquire, TypeOK
  <2>3. redisErrors' \in 0..MaxRedisErrors
    <3>1. redisErrors \in 0..MaxRedisErrors /\ MaxRedisErrors \in Nat
      BY VerificationTaskAssumption DEF TypeOK
    <3>2. \/ redisErrors' = redisErrors
          \/ redisErrors < MaxRedisErrors /\ redisErrors' = redisErrors + 1
      BY <1>7 DEF Acquire
    <3> QED BY <3>1, <3>2
  <2>4. lock' \in Worker \union {Free, Abandoned}
    BY <1>7 DEF Acquire, TypeOK
  <2> QED BY <1>7, <2>1, <2>2, <2>3, <2>4 DEF Acquire, TypeOK
<1>8. CASE CommitRecord(w)
  <2>1. /\ call[w].stage \in Status /\ call[w].type \in EventType
        /\ call[w].next \in PC
    BY DEF TypeOK, Call
  <2>2. call' \in [Worker -> Call]
    BY <1>5, <1>8 DEF CommitRecord, TypeOK
  <2>3. /\ status' \in Status
        /\ cancelRequested' \in BOOLEAN
        /\ publication' \in Publication
        /\ log' \in Seq(Event)
    BY <1>8, <2>1, PersistProgressType DEF CommitRecord, TypeOK
  <2>4. pc' \in [Worker -> PC] /\ outcome' \in [Worker -> Outcome]
    BY <1>2, <1>8, <1>20, <1>22, <2>1 DEF CommitRecord, TypeOK
  <2>5. startedAfterCancel' \in Nat
    BY <1>8 DEF CommitRecord, TypeOK
  <2>6. UNCHANGED <<resumable, citations, lock, retries, at, audit, revisions,
                    redisErrors, queue, api, crashes>>
    BY <1>8 DEF CommitRecord
  <2> QED BY <2>2, <2>3, <2>4, <2>5, <2>6 DEF TypeOK
<1>9. CASE Execute(w)
  <2>1. FirstStage \in 1..RevisionIndex /\ 0 \in 0..RevisionLimit
    BY FirstStageInPipeline, StageFacts, VerificationTaskAssumption
    DEF TypeOK, RevisionIndex, AuditIndex
  <2>2. pc' \in [Worker -> PC]
    BY <1>1, <1>9, <1>20 DEF Execute
  <2>3. /\ at' \in [Worker -> 1..RevisionIndex]
        /\ audit' \in [Worker -> {"none", "unsupported", "passed"}]
        /\ revisions' \in [Worker -> 0..RevisionLimit]
    <3>1. CASE UNCHANGED <<at, audit, revisions>>
      BY <3>1 DEF TypeOK
    <3>2. CASE /\ at' = [at EXCEPT ![w] = FirstStage]
               /\ audit' = [audit EXCEPT ![w] = "none"]
               /\ revisions' = [revisions EXCEPT ![w] = 0]
      BY <2>1, <3>2 DEF TypeOK
    <3> QED BY <1>9, <3>1, <3>2 DEF Execute
  <2> QED BY <1>9, <2>2, <2>3 DEF Execute, TypeOK
<1>10. CASE StageSucceeds(w)
  <2>1. /\ resumable' \subseteq Reloaded
        /\ pc' \in [Worker -> PC]
    BY <1>1, <1>10, <1>20 DEF StageSucceeds, TypeOK
  <2>2. /\ citations' \in {"none", "unsupported", "passed"}
        /\ audit' \in [Worker -> {"none", "unsupported", "passed"}]
    BY <1>10 DEF StageSucceeds, TypeOK
  <2>3. revisions' \in [Worker -> 0..RevisionLimit]
    <3>1. CASE UNCHANGED revisions
      BY <3>1 DEF TypeOK
    <3>2. CASE MayRevise(w) /\ revisions' = [revisions EXCEPT ![w] = @ + 1]
      <4>1. revisions[w] + 1 \in 0..RevisionLimit
        <5>1. revisions[w] \in 0..RevisionLimit /\ RevisionLimit \in Nat
          BY VerificationTaskAssumption DEF TypeOK
        <5> QED BY <3>2, <5>1 DEF MayRevise
      <4> QED BY <3>2, <4>1 DEF TypeOK
    <3> QED BY <1>10, <3>1, <3>2 DEF StageSucceeds
  <2> QED BY <1>10, <2>1, <2>2, <2>3 DEF StageSucceeds, TypeOK
<1>11. CASE Raises(w)
  <2>1. call' \in [Worker -> Call]
    BY <1>5, <1>11 DEF Raises, TypeOK
  <2>2. pc' \in [Worker -> PC] /\ outcome' \in [Worker -> Outcome]
    BY <1>2, <1>11, <1>22 DEF Raises
  <2> QED BY <1>11, <2>1, <2>2 DEF Raises, TypeOK
<1>12. CASE Advance(w)
  <2>1. at' \in [Worker -> 1..RevisionIndex]
    <3>1. PICK i \in 1..RevisionIndex : at' = [at EXCEPT ![w] = i]
      <4>1. /\ at \in [Worker -> 1..RevisionIndex]
            /\ at[w] < AuditIndex => at[w] + 1 \in 1..RevisionIndex
            /\ AuditIndex \in 1..RevisionIndex
            /\ RevisionIndex \in 1..RevisionIndex
        BY StageFacts DEF TypeOK, RevisionIndex, AuditIndex
      <4>2. UNCHANGED at => at' = [at EXCEPT ![w] = at[w]]
        BY <4>1
      <4> QED BY <1>12, <4>1, <4>2 DEF Advance
    <3> QED BY <3>1 DEF TypeOK
  <2>2. pc' \in [Worker -> PC]
    BY <1>1, <1>12, <1>20 DEF Advance
  <2> QED BY <1>12, <2>1, <2>2 DEF Advance, TypeOK
<1>13. CASE PersistCompletedRun(w)
  <2>1. /\ "AUDITING" \in Status /\ "COMPLETED" \in Status
        /\ <<"publication", "review_required">> \in EventType
        /\ <<"run", "completed">> \in EventType
        /\ "review_required" \in Publication /\ "published" \in Publication
    BY EventTypes DEF Status, Terminal, Publication
  <2>2. log' \in Seq(Event)
    BY <1>13, <2>1, AppendType DEF PersistCompletedRun, TypeOK
  <2>3. pc' \in [Worker -> PC] /\ outcome' \in [Worker -> Outcome]
    BY <1>1, <1>2, <1>13 DEF PersistCompletedRun, Leave, Goto, TypeOK
  <2>4. status' \in Status /\ publication' \in Publication
    BY <1>13, <2>1 DEF PersistCompletedRun, TypeOK
  <2> QED BY <1>13, <2>2, <2>3, <2>4 DEF PersistCompletedRun, TypeOK
<1>14. CASE Release(w)
  <2>1. pc' \in [Worker -> PC]
    BY <1>1, <1>14, <1>20 DEF Release
  <2>2. outcome' \in [Worker -> Outcome]
    BY <1>2, <1>14 DEF Release, TypeOK
  <2>3. redisErrors' \in 0..MaxRedisErrors
    <3>1. redisErrors \in 0..MaxRedisErrors /\ MaxRedisErrors \in Nat
      BY VerificationTaskAssumption DEF TypeOK
    <3>2. \/ redisErrors' = redisErrors
          \/ redisErrors < MaxRedisErrors /\ redisErrors' = redisErrors + 1
      BY <1>14 DEF Release
    <3> QED BY <3>1, <3>2
  <2>4. lock' \in Worker \union {Free, Abandoned}
    BY <1>14 DEF Release, TypeOK
  <2> QED BY <1>14, <2>1, <2>2, <2>3, <2>4 DEF Release, TypeOK
<1>15. ASSUME Forget(w)
       PROVE  /\ pc' \in [Worker -> PC]
              /\ retries' \in [Worker -> 0..MaxRetries]
              /\ at' \in [Worker -> 1..RevisionIndex]
              /\ audit' \in [Worker -> {"none", "unsupported", "passed"}]
              /\ revisions' \in [Worker -> 0..RevisionLimit]
              /\ call' \in [Worker -> Call]
              /\ outcome' \in [Worker -> Outcome]
  <2>1. 1 \in 1..RevisionIndex /\ 0 \in 0..RevisionLimit
    BY StageFacts, VerificationTaskAssumption DEF RevisionIndex
  <2>2. pc' \in [Worker -> PC] /\ outcome' \in [Worker -> Outcome]
    BY <1>1, <1>2, <1>15 DEF Forget, TypeOK
  <2>3. call' \in [Worker -> Call]
    BY <1>5, <1>15 DEF Forget, TypeOK
  <2>4. /\ retries' \in [Worker -> 0..MaxRetries]
        /\ at' \in [Worker -> 1..RevisionIndex]
        /\ audit' \in [Worker -> {"none", "unsupported", "passed"}]
        /\ revisions' \in [Worker -> 0..RevisionLimit]
    BY <1>3, <1>15, <2>1 DEF Forget, TypeOK
  <2> QED BY <2>2, <2>3, <2>4
<1>16. CASE Ack(w)
  BY <1>15, <1>16 DEF Ack, TypeOK
<1>17. CASE Crash(w)
  <2>1. queue' \in [0..MaxRetries -> Nat]
    BY <1>3, <1>17, PublishType DEF Crash
  <2>2. crashes' \in 0..MaxCrashes
    BY <1>17, VerificationTaskAssumption DEF Crash, TypeOK
  <2> QED BY <1>15, <1>17, <2>1, <2>2 DEF Crash, TypeOK
<1>18. CASE Redeliver(w)
  <2>1. queue' \in [0..MaxRetries -> Nat]
    BY <1>3, <1>18, PublishType DEF Redeliver
  <2>2. crashes' \in 0..MaxCrashes
    BY <1>18, VerificationTaskAssumption DEF Redeliver, TypeOK
  <2> QED BY <1>18, <2>1, <2>2 DEF Redeliver, TypeOK, taskVars
<1> QED
  BY <1>6, <1>7, <1>8, <1>9, <1>10, <1>11, <1>12, <1>13, <1>14, <1>16, <1>17,
     <1>18

\* Every variable keeps its type in every behaviour, for every pipeline and
\* every number of workers, retries, revisions and failures: in particular the
\* retry counter and the citation revision counter of verify_run stay within
\* their limits.
THEOREM TypeCorrect == Spec => []TypeOK
<1>1. Init => TypeOK
  BY InitTypeOK
<1>2. TypeOK /\ [Next]_vars => TypeOK'
  <2> SUFFICES ASSUME TypeOK, [Next]_vars PROVE TypeOK'
    OBVIOUS
  <2>1. CASE UNCHANGED vars
    BY <2>1 DEF vars, rowVars, workVars, taskVars, TypeOK
  <2>2. CASE Next
    <3>1. CASE \E w \in Worker : Deliver(w) \/ WorkerStep(w) \/ Crash(w)
                                \/ Redeliver(w)
      <4>1. PICK w \in Worker : Deliver(w) \/ WorkerStep(w) \/ Crash(w)
                                \/ Redeliver(w)
        BY <3>1
      <4> QED BY <4>1, BranchTypeOK, StepTypeOK DEF WorkerStep, RunLocked
    <3>2. CASE LockExpires
      BY <3>2 DEF LockExpires, TypeOK, rowVars, workVars, taskVars, infra
    <3>3. CASE Enqueue \/ EnqueueRaises \/ RejectRun \/ ApiCrash
               \/ RequestCancellation
               \/ (\E d \in Decisions : DecidePublication(d))
      BY <3>3, ApiTypeOK
    <3> QED BY <2>2, <3>1, <3>2, <3>3 DEF Next
  <2> QED BY <2>1, <2>2
<1> QED BY <1>1, <1>2, PTL DEF Spec

------------------------------------------------------------------------------
(* What one step does to the workers' control state *)

\* _record either returns at once or leaves its arguments in the call.
LEMMA RecordEffect ==
  ASSUME TypeOK, NEW w \in Worker, NEW stage \in Status,
         NEW type \in EventType, NEW next \in PC, NEW refused \in {"raise", "ignore"},
         Record(w, stage, type, next, refused)
  PROVE  /\ \A v \in Worker \ {w} : pc'[v] = pc[v] /\ call'[v] = call[v]
         /\ \/ /\ Skips(stage, type)
               /\ pc'[w] = next
            \/ /\ pc'[w] = "commit"
               /\ call'[w].stage = stage
               /\ call'[w].type = type
               /\ call'[w].next = next
               /\ call'[w].refused = refused
<1>1. pc \in [Worker -> PC] /\ call \in [Worker -> Call]
  BY DEF TypeOK
<1>2. CASE Skips(stage, type)
  BY <1>1, <1>2 DEF Record, Goto
<1>3. CASE ~Skips(stage, type)
  BY <1>1, <1>3 DEF Record, Goto
<1> QED BY <1>2, <1>3

LEMMA MarkFailureEffect ==
  ASSUME TypeOK, NEW w \in Worker, NEW next \in PC, MarkFailure(w, next)
  PROVE  /\ \A v \in Worker \ {w} : pc'[v] = pc[v] /\ call'[v] = call[v]
         /\ \/ pc'[w] = next
            \/ /\ pc'[w] = "commit"
               /\ call'[w].stage = "FAILED"
               /\ call'[w].type = <<"run", "failed">>
               /\ call'[w].next = next
               /\ call'[w].refused = "ignore"
<1>1. CASE status \in Terminal
  BY <1>1 DEF MarkFailure, Goto, TypeOK
<1>2. CASE status \notin Terminal
  <2>1. Record(w, "FAILED", <<"run", "failed">>, next, "ignore")
    BY <1>2 DEF MarkFailure
  <2>3. "FAILED" \in Status /\ <<"run", "failed">> \in EventType
    BY EventTypes DEF Status, Terminal
  <2>2. \/ pc'[w] = next
        \/ /\ pc'[w] = "commit"
           /\ call'[w].stage = "FAILED"
           /\ call'[w].type = <<"run", "failed">>
           /\ call'[w].next = next
           /\ call'[w].refused = "ignore"
    BY <2>1, <2>3, RecordEffect
  <2> QED BY <2>1, <2>2, <2>3, RecordEffect
<1> QED BY <1>1, <1>2

LEMMA CancelIfRequestedEffect ==
  ASSUME TypeOK, NEW w \in Worker, NEW next \in PC, NEW refused \in {"raise", "ignore"},
         CancelIfRequested(w, next, refused)
  PROVE  /\ cancelRequested
         /\ \A v \in Worker \ {w} : pc'[v] = pc[v] /\ call'[v] = call[v]
         /\ \/ pc'[w] = next
            \/ /\ pc'[w] = "commit"
               /\ call'[w].stage = "CANCELLED"
               /\ call'[w].type = <<"run", "cancelled">>
               /\ call'[w].next = next
               /\ call'[w].refused = refused
<1>1. CASE status \in Terminal
  BY <1>1 DEF CancelIfRequested, Goto, TypeOK
<1>2. CASE status \notin Terminal
  <2>1. "CANCELLED" \in Status /\ <<"run", "cancelled">> \in EventType
    BY EventTypes DEF Status, Terminal
  <2> QED BY <1>2, <2>1, RecordEffect DEF CancelIfRequested, RecordCancelled
<1> QED BY <1>1, <1>2 DEF CancelIfRequested

\* Where a worker may go by a move of its own.
LEMMA GotoEffect ==
  ASSUME TypeOK, NEW w \in Worker, NEW l \in PC, Goto(w, l)
  PROVE  pc'[w] = l /\ \A v \in Worker \ {w} : pc'[v] = pc[v]
BY DEF Goto, TypeOK

\* A step inside the locked region starts in it, concerns one worker, and calls
\* _record only to come back into the region.
LEMMA RunLockedEffect ==
  ASSUME TypeOK, NEW w \in Worker, RunLocked(w)
  PROVE  /\ InLockedRegion(w)
         /\ \A v \in Worker \ {w} : pc'[v] = pc[v] /\ call'[v] = call[v]
         /\ pc'[w] = "commit" => call'[w].next # "ack"
         /\ \/ lock' = lock
            \/ /\ pc'[w] = "handle"
               /\ lock # w => lock' = lock
<1> USE DEF rest, rowVars, workVars, infra
<1>0. \A l \in {"prepare", "validate", "precheck", "execute", "stage", "body",
                "finish", "advance", "failed", "complete", "release"} :
        pc[w] = l => InLockedRegion(w)
  BY DEF InLockedRegion
<1>14. {"prepare", "validate", "precheck", "execute", "stage", "body", "finish",
        "advance", "failed", "complete", "release", "handle"} \subseteq PC
  BY DEF PC
<1>15. /\ "VALIDATING" \in Status /\ "CANCELLED" \in Status
       /\ \A e \in {"validated", "validating", "cancelled"} : <<"run", e>> \in EventType
  BY EventTypes DEF Status, Terminal
<1>16. /\ StageStatus(StageAt(at[w])) \in Status
       /\ <<StageAt(at[w]), "started">> \in EventType
       /\ <<StageAt(at[w]), "completed">> \in EventType
       /\ <<StageAt(at[w]), "recoverable_failure">> \in EventType
  BY StageFacts, StageStatusFacts, EventTypes DEF TypeOK
<1>1. CASE Prepare(w)
  BY <1>0, <1>14, <1>15, <1>16, <1>1, RecordEffect, CancelIfRequestedEffect, GotoEffect
  DEF Prepare
<1>2. CASE Validate(w)
  BY <1>0, <1>14, <1>15, <1>16, <1>2, RecordEffect, CancelIfRequestedEffect DEF Validate
<1>3. CASE Precheck(w)
  BY <1>0, <1>14, <1>15, <1>16, <1>3, CancelIfRequestedEffect, GotoEffect DEF Precheck
<1>4. CASE Execute(w)
  BY <1>0, <1>14, <1>15, <1>16, <1>4, GotoEffect DEF Execute
<1>5. CASE BeginStage(w)
  BY <1>0, <1>14, <1>15, <1>16, <1>5, RecordEffect DEF BeginStage, RecordCancelled
<1>6. CASE StageSucceeds(w)
  BY <1>0, <1>14, <1>15, <1>16, <1>6, GotoEffect DEF StageSucceeds
<1>7. CASE StageFails(w)
  BY <1>0, <1>14, <1>15, <1>16, <1>7, RecordEffect DEF StageFails
<1>8. CASE Raises(w)
  BY <1>0, <1>14, <1>15, <1>16, <1>8, GotoEffect DEF Raises, Leave
<1>9. CASE FinishStage(w)
  BY <1>0, <1>14, <1>15, <1>16, <1>9, RecordEffect DEF FinishStage
<1>10. CASE Advance(w)
  BY <1>0, <1>14, <1>15, <1>16, <1>10, GotoEffect DEF Advance
<1>11. CASE WorkflowFailed(w)
  BY <1>0, <1>14, <1>15, <1>16, <1>11, GotoEffect, MarkFailureEffect DEF WorkflowFailed, Leave
<1>12. CASE PersistCompletedRun(w)
  BY <1>0, <1>14, <1>15, <1>16, <1>12, GotoEffect DEF PersistCompletedRun, Leave
<1>13. CASE Release(w)
  BY <1>0, <1>14, <1>15, <1>16, <1>13, GotoEffect DEF Release
<1> QED
  BY <1>1, <1>2, <1>3, <1>4, <1>5, <1>6, <1>7, <1>8, <1>9, <1>10, <1>11, <1>12,
     <1>13 DEF RunLocked


------------------------------------------------------------------------------
(* The inductive invariant *)

\* Once the audit was reported the status never goes back behind it.
Audited == status \in {"AUDITING", "COMPLETED", "FAILED", "CANCELLED"}

AuditStarted ==
  {<<"citation_audit", "started">>, <<"citation_revision", "started">>}

\* What publication_state tells about the rest of the row.
RowInv ==
  /\ publication \in {"unreviewed", "published"} \/ Allegation
  /\ publication = "published" => status = "COMPLETED" /\ ~Allegation
  /\ publication = "approved" => status = "COMPLETED"
  /\ publication \in Held => Audited
  /\ status = "COMPLETED" => publication \in {"published", "approved"}
  /\ CancellationWins

LogInv ==
  /\ Len(log) > 0
  /\ RowMatchesLog
  /\ \A i \in DOMAIN log : log[i].type \in AuditStarted => Audited

\* A call in progress never completes the run, cancels it only on request, and
\* reports the audit as the audit.
CallOK(w) ==
  pc[w] = "commit" =>
    /\ call[w].stage # "COMPLETED"
    /\ call[w].stage = "CANCELLED" => cancelRequested
    /\ call[w].type \in AuditStarted => call[w].stage = "AUDITING"
    /\ call[w].next # "complete"
    /\ call[w].next \in {"body", "finish", "advance"} /\ at[w] >= AuditIndex
         => call[w].stage = "AUDITING"

\* A worker in the body of the audit or behind it works on an audited run.
AuditOK(w) ==
  /\ pc[w] \in {"body", "finish", "advance"} /\ at[w] >= AuditIndex => Audited
  /\ pc[w] = "complete" => Audited

WorkerInv == \A w \in Worker : CallOK(w) /\ AuditOK(w)

IInv == TypeOK /\ RowInv /\ LogInv /\ WorkerInv

------------------------------------------------------------------------------
(* Who writes the row *)

\* The order of the statuses, as far as the invariant needs it.
LEMMA RankFacts ==
  /\ Rank("AUDITING") = 8
  /\ Rank("COMPLETED") = 9
  /\ \A s \in Status \ Terminal : Rank(s) \in 0..8 /\ (Rank(s) = 8 => s = "AUDITING")
<1>1. /\ Rank("QUEUED") = 0
      /\ Rank("VALIDATING") = 1
      /\ Rank("DECOMPOSING") = 2
      /\ Rank("RESEARCHING") = 3
      /\ Rank("EXTRACTING") = 4
      /\ Rank("ANALYZING_PROVENANCE") = 5
      /\ Rank("SCORING") = 6
      /\ Rank("SYNTHESIZING") = 7
      /\ Rank("AUDITING") = 8
      /\ Rank("COMPLETED") = 9
  BY DEF Rank
<1> QED BY <1>1 DEF Status

\* Every step either leaves the row and its log alone or is one of these
\* transactions.
RowStep ==
  \/ UNCHANGED rowVars
  \/ \E w \in Worker : /\ pc[w] = "commit"
                       /\ PersistProgress(call[w].stage, call[w].type)
  \/ PersistProgress("FAILED", <<"run", "failed">>)
  \/ RequestCancellation
  \/ \E d \in Decisions : DecidePublication(d)
  \/ \E w \in Worker : /\ PersistCompletedRun(w)
                       /\ ~CompletionBlocked
                       /\ citations = "passed"

LEMMA NextIsRowStep ==
  ASSUME [Next]_vars
  PROVE  RowStep
<1>1. CASE \E w \in Worker : Deliver(w) \/ WorkerStep(w) \/ Crash(w)
                            \/ Redeliver(w)
  <2>1. PICK w \in Worker : Deliver(w) \/ WorkerStep(w) \/ Crash(w)
                            \/ Redeliver(w)
    BY <1>1
  <2>2. CASE RunLocked(w)
    <3>1. CASE PersistCompletedRun(w)
      BY <3>1 DEF PersistCompletedRun, RowStep, rowVars
    <3>2. CASE ~PersistCompletedRun(w)
      BY <2>2, <3>2
      DEF RunLocked, RowStep, rest, Prepare, Validate, Precheck, Execute,
          BeginStage, StageSucceeds, StageFails, Raises, FinishStage,
          Advance, WorkflowFailed, Release
    <3> QED BY <3>1, <3>2
  <2>3. CASE CommitRecord(w)
    BY <2>3 DEF CommitRecord, RowStep, rowVars
  <2> QED BY <2>1, <2>2, <2>3
          DEF WorkerStep, Deliver, Acquire, Handle, Ack, Crash, Redeliver, RowStep
<1>2. CASE RejectRun
  BY <1>2 DEF RejectRun, RowStep
<1>3. CASE UNCHANGED vars
  BY <1>3 DEF vars, RowStep
<1> QED
  BY <1>1, <1>2, <1>3
  DEF Next, RowStep, Enqueue, EnqueueRaises, ApiCrash, LockExpires

\* Once audited, always audited.
LEMMA AuditedStable ==
  ASSUME TypeOK, RowStep, Audited
  PROVE  Audited'
<1>1. ASSUME NEW stage \in Status, NEW type, PersistProgress(stage, type)
      PROVE  Audited'
  <2>1. stage \in Terminal \/ (stage \notin Terminal /\ Rank(stage) >= 8)
    BY <1>1, RankFacts DEF PersistProgress, MayMove, Audited, Terminal
  <2> QED BY <1>1, <2>1, RankFacts DEF PersistProgress, Audited, Terminal
<1>2. ASSUME NEW w \in Worker PROVE call[w].stage \in Status
  BY DEF TypeOK, Call
<1>3. "FAILED" \in Status
  BY DEF Status, Terminal
<1> QED
  BY <1>1, <1>2, <1>3
  DEF RowStep, RequestCancellation, DecidePublication, PersistCompletedRun,
      Audited, rowVars

\* The request to cancel is never withdrawn.
LEMMA CancelStable ==
  ASSUME TypeOK, RowStep, cancelRequested
  PROVE  cancelRequested'
BY DEF RowStep, rowVars, PersistProgress, RequestCancellation,
       DecidePublication, PersistCompletedRun

------------------------------------------------------------------------------
(* The row keeps its invariant *)

LEMMA RowInvStep ==
  ASSUME IInv, RowStep
  PROVE  RowInv'
<1> USE DEF RowInv, CancellationWins
<1>0. (publication \in Held => Audited') /\ RowInv
  BY AuditedStable DEF IInv
<1>1. CASE UNCHANGED rowVars
  BY <1>0, <1>1 DEF rowVars
<1>2. ASSUME NEW stage \in Status, NEW type, PersistProgress(stage, type),
             stage # "COMPLETED"
      PROVE  RowInv'
  BY <1>0, <1>2 DEF PersistProgress, MayMove, Terminal
<1>3. CASE \E w \in Worker : /\ pc[w] = "commit"
                            /\ PersistProgress(call[w].stage, call[w].type)
  BY <1>2, <1>3 DEF IInv, WorkerInv, CallOK, TypeOK, Call
<1>4. CASE PersistProgress("FAILED", <<"run", "failed">>)
  BY <1>2, <1>4 DEF Status, Terminal
<1>5. CASE RequestCancellation
  BY <1>0, <1>5 DEF RequestCancellation, Terminal
<1>6. CASE \E d \in Decisions : DecidePublication(d)
  BY <1>0, <1>6 DEF DecidePublication, Decisions, Approves, Held
<1>7. CASE \E w \in Worker : /\ PersistCompletedRun(w)
                            /\ ~CompletionBlocked
                            /\ citations = "passed"
  <2>1. PICK w \in Worker : PersistCompletedRun(w) /\ ~CompletionBlocked
                            /\ citations = "passed"
    BY <1>7
  <2>2. status = "AUDITING"
    BY <2>1 DEF PersistCompletedRun, CompletionBlocked, Terminal, IInv,
                WorkerInv, AuditOK, Audited
  <2> QED
    BY <1>0, <2>1, <2>2
    DEF PersistCompletedRun, CompletionBlocked, Terminal, Audited, Held
<1> QED BY <1>1, <1>3, <1>4, <1>5, <1>6, <1>7 DEF RowStep

\* The last event of a log that grew by one.
LEMMA AppendFacts ==
  ASSUME log \in Seq(Event), NEW stage \in Status, NEW type \in EventType,
         Append1(stage, type)
  PROVE  /\ Len(log') = Len(log) + 1
         /\ log'[Len(log')].stage = stage
         /\ log'[Len(log')].type = type
         /\ \A i \in DOMAIN log : log'[i] = log[i]
         /\ DOMAIN log' = DOMAIN log \union {Len(log')}
<1>1. [stage |-> stage, type |-> type] \in Event
  BY Zenon DEF Event
<1> DEFINE e == [stage |-> stage, type |-> type]
<1>2. e.stage = stage /\ e.type = type
  OBVIOUS
<1>3. log' = Append(log, e) /\ e \in Event
  BY <1>1 DEF Append1
<1> HIDE DEF e
<1> QED BY <1>2, <1>3

LEMMA LogInvStep ==
  ASSUME IInv, RowStep
  PROVE  LogInv'
<1> DEFINE Kept == \A i \in DOMAIN log : log[i].type \in AuditStarted => Audited'
<1>1. Kept
  BY AuditedStable DEF IInv, LogInv
<1>2. CASE UNCHANGED rowVars
  BY <1>2 DEF IInv, LogInv, RowMatchesLog, rowVars, Audited
<1>3. ASSUME NEW stage \in Status, NEW type \in EventType,
             Append1(stage, type), status' = stage,
             type \in AuditStarted => Audited'
      PROVE  LogInv'
  BY <1>1, <1>3, AppendFacts DEF IInv, TypeOK, LogInv, RowMatchesLog
<1>4. /\ {"FAILED", "COMPLETED", "CANCELLED", "AUDITING"} \subseteq Status
      /\ \A e \in {"failed", "completed", "cancelled", "cancellation_requested"} :
           <<"run", e>> \in EventType \ AuditStarted
      /\ \A e \in {"review_required", "rejected", "revision_required"} :
           <<"publication", e>> \in EventType \ AuditStarted
  BY EventTypes DEF Status, Terminal, AuditStarted, Publication
<1>5. CASE \E w \in Worker : /\ pc[w] = "commit"
                            /\ PersistProgress(call[w].stage, call[w].type)
  <2>1. PICK w \in Worker : /\ pc[w] = "commit"
                            /\ PersistProgress(call[w].stage, call[w].type)
    BY <1>5
  <2>2. /\ call[w].stage \in Status
        /\ call[w].type \in EventType
        /\ call[w].type \in AuditStarted => call[w].stage = "AUDITING"
    BY <2>1 DEF IInv, TypeOK, Call, WorkerInv, CallOK
  <2> QED BY <1>3, <2>1, <2>2 DEF PersistProgress, Audited
<1>6. CASE PersistProgress("FAILED", <<"run", "failed">>)
  BY <1>3, <1>4, <1>6 DEF PersistProgress
<1>7. CASE RequestCancellation
  BY <1>3, <1>4, <1>7 DEF RequestCancellation, IInv, TypeOK
<1>8. CASE \E d \in Decisions : DecidePublication(d)
  BY <1>3, <1>4, <1>8 DEF DecidePublication, Decisions, Approves, IInv, TypeOK
<1>9. CASE \E w \in Worker : /\ PersistCompletedRun(w)
                            /\ ~CompletionBlocked
                            /\ citations = "passed"
  <2>1. PICK w \in Worker : PersistCompletedRun(w) /\ ~CompletionBlocked
                            /\ citations = "passed"
    BY <1>9
  <2>2. status = "AUDITING"
    BY <2>1 DEF PersistCompletedRun, CompletionBlocked, Terminal, IInv,
                WorkerInv, AuditOK, Audited
  <2> QED BY <1>3, <1>4, <2>1, <2>2 DEF PersistCompletedRun
<1> QED BY <1>2, <1>5, <1>6, <1>7, <1>8, <1>9 DEF RowStep

------------------------------------------------------------------------------
(* The workers keep their invariant *)

\* What the stages report: the audit and its revision report AUDITING, and no
\* other stage starts under their event types.
LEMMA StageReports ==
  ASSUME TypeOK, NEW w \in Worker
  PROVE  /\ StageStatus(StageAt(at[w])) \in Status \ (Terminal \union {"QUEUED"})
         /\ at[w] >= AuditIndex =>
              /\ StageStatus(StageAt(at[w])) = "AUDITING"
              /\ <<StageAt(at[w]), "started">> \in AuditStarted
         /\ <<StageAt(at[w]), "started">> \in EventType
         /\ <<StageAt(at[w]), "completed">> \in EventType \ AuditStarted
         /\ <<StageAt(at[w]), "recoverable_failure">> \in EventType \ AuditStarted
         /\ <<StageAt(at[w]), "started">> \in AuditStarted
              => StageStatus(StageAt(at[w])) = "AUDITING"
<1> DEFINE stage == StageAt(at[w])
<1>1. at[w] \in 1..RevisionIndex
  BY DEF TypeOK
<1>2. /\ stage \in WorkflowStage
      /\ StageStatus(stage) \in Status \ (Terminal \union {"QUEUED"})
      /\ <<stage, "started">> \in EventType
      /\ <<stage, "completed">> \in EventType
      /\ <<stage, "recoverable_failure">> \in EventType
  BY <1>1, StageFacts, StageStatusFacts, EventTypes
<1>3. StageStatus("citation_audit") = "AUDITING"
      /\ StageStatus("citation_revision") = "AUDITING"
  BY DEF StageStatus
<1>4. at[w] >= AuditIndex => stage \in {"citation_audit", "citation_revision"}
  BY <1>1, StageFacts DEF StageAt, RevisionIndex, AuditIndex
<1>5. <<stage, "started">> \in AuditStarted
        <=> stage \in {"citation_audit", "citation_revision"}
  BY DEF AuditStarted
<1>6. <<stage, "completed">> \notin AuditStarted
      /\ <<stage, "recoverable_failure">> \notin AuditStarted
  BY DEF AuditStarted
<1> HIDE DEF stage
<1>7. /\ at[w] >= AuditIndex => /\ StageStatus(stage) = "AUDITING"
                                /\ <<stage, "started">> \in AuditStarted
      /\ <<stage, "started">> \in AuditStarted => StageStatus(stage) = "AUDITING"
  BY <1>3, <1>4, <1>5
<1> QED BY <1>2, <1>6, <1>7 DEF stage

\* Nobody skips the start of the audit on a run that was never audited.
LEMMA SkippedAudit ==
  ASSUME IInv, NEW type \in AuditStarted, Skips("AUDITING", type)
  PROVE  Audited
<1>1. CASE Recorded(type)
  BY <1>1 DEF Recorded, IInv, LogInv
<1>2. CASE Rank("AUDITING") < Rank(status)
  <2>1. status \in Status
    BY DEF IInv, TypeOK
  <2>2. status \notin Terminal => FALSE
    BY <1>2, <2>1, RankFacts
  <2> QED BY <2>2 DEF Audited, Terminal
<1> QED BY <1>1, <1>2 DEF Skips

\* A stage's report keeps the worker's invariant.
LEMMA RecordingWorker ==
  ASSUME IInv, RowStep, NEW w \in Worker, at' = at,
         NEW stage \in Status \ Terminal, NEW type \in EventType,
         NEW next \in {"body", "advance", "failed"},
         Record(w, stage, type, next, "raise"),
         type \in AuditStarted => stage = "AUDITING",
         at[w] >= AuditIndex => stage = "AUDITING",
         at[w] >= AuditIndex /\ next # "failed" /\ Skips(stage, type) => Audited
  PROVE  CallOK(w)' /\ AuditOK(w)'
<1>1. TypeOK /\ next \in PC /\ stage \in Status
  BY DEF IInv, PC
<1>2. Audited => Audited'
  BY AuditedStable DEF IInv
<1>3. CASE Skips(stage, type) /\ pc'[w] = next
  BY <1>2, <1>3 DEF CallOK, AuditOK
<1>4. CASE /\ pc'[w] = "commit"
           /\ call'[w].stage = stage
           /\ call'[w].type = type
           /\ call'[w].next = next
  BY <1>4 DEF CallOK, AuditOK, Terminal
<1>5. \/ Skips(stage, type) /\ pc'[w] = next
      \/ /\ pc'[w] = "commit"
         /\ call'[w].stage = stage
         /\ call'[w].type = type
         /\ call'[w].next = next
  BY <1>1, RecordEffect
<1> QED BY <1>3, <1>4, <1>5

\* What a step of a worker does to that worker's own invariant.
LEMMA MovingWorker ==
  ASSUME IInv, RowStep, NEW w \in Worker, RunLocked(w) \/ Handle(w)
  PROVE  CallOK(w)' /\ AuditOK(w)'
<1> USE DEF IInv, rest, rowVars, workVars, infra
<1>1. /\ {"prepare", "validate", "precheck", "execute", "stage", "body",
         "finish", "advance", "failed", "complete", "release", "handle", "ack"}
          \subseteq PC
      /\ {"VALIDATING", "CANCELLED", "FAILED"} \subseteq Status
      /\ \A e \in {"validated", "validating", "cancelled", "failed"} :
           <<"run", e>> \in EventType \ AuditStarted
  BY EventTypes DEF PC, Status, Terminal, AuditStarted
<1>2. /\ cancelRequested => cancelRequested'
      /\ Audited => Audited'
      /\ CallOK(w) /\ AuditOK(w)
  BY CancelStable, AuditedStable DEF WorkerInv
<1>3. CASE Prepare(w)
  BY <1>1, <1>2, <1>3, RecordEffect, CancelIfRequestedEffect, GotoEffect
  DEF Prepare, CallOK, AuditOK
<1>4. CASE Validate(w)
  BY <1>1, <1>2, <1>4, RecordEffect, CancelIfRequestedEffect
  DEF Validate, CallOK, AuditOK
<1>5. CASE Precheck(w)
  BY <1>1, <1>2, <1>5, CancelIfRequestedEffect, GotoEffect
  DEF Precheck, CallOK, AuditOK
<1>6. CASE Execute(w)
  BY <1>1, <1>6, GotoEffect DEF Execute, CallOK, AuditOK
<1>7. CASE BeginStage(w)
  <2> DEFINE stage == StageAt(at[w])
  <2>1. at' = at
    BY <1>7 DEF BeginStage
  <2>2. CASE cancelRequested /\ RecordCancelled(w, "release", "raise")
    BY <1>1, <1>2, <2>2, RecordEffect DEF RecordCancelled, CallOK, AuditOK
  <2>3. CASE Record(w, StageStatus(stage), <<stage, "started">>, "body", "raise")
    <3>1. at[w] >= AuditIndex
          /\ Skips(StageStatus(stage), <<stage, "started">>) => Audited
      BY StageReports, SkippedAudit
    <3> QED BY <2>1, <2>3, <3>1, StageReports, RecordingWorker
  <2> QED BY <1>7, <2>2, <2>3 DEF BeginStage
<1>8. CASE StageSucceeds(w)
  BY <1>1, <1>2, <1>8, GotoEffect DEF StageSucceeds, CallOK, AuditOK
<1>9. CASE StageFails(w)
  BY <1>9, StageReports, RecordingWorker DEF StageFails
<1>10. CASE Raises(w)
  BY <1>1, <1>10, GotoEffect DEF Raises, Leave, CallOK, AuditOK
<1>11. CASE FinishStage(w)
  <2>1. pc[w] = "finish" /\ at' = at
    BY <1>11 DEF FinishStage
  <2>2. at[w] >= AuditIndex => Audited
    BY <1>2, <2>1 DEF AuditOK
  <2> QED BY <1>11, <2>1, <2>2, StageReports, RecordingWorker DEF FinishStage
<1>12. CASE Advance(w)
  BY <1>1, <1>2, <1>12, StageFacts, GotoEffect DEF Advance, CallOK, AuditOK
<1>13. CASE WorkflowFailed(w)
  BY <1>1, <1>2, <1>13, GotoEffect, MarkFailureEffect
  DEF WorkflowFailed, Leave, CallOK, AuditOK
<1>14. CASE PersistCompletedRun(w)
  BY <1>1, <1>14, GotoEffect DEF PersistCompletedRun, Leave, CallOK, AuditOK
<1>15. CASE Release(w)
  BY <1>1, <1>15, GotoEffect DEF Release, CallOK, AuditOK
<1>16. CASE Handle(w)
  BY <1>1, <1>2, <1>16, GotoEffect, MarkFailureEffect, CancelIfRequestedEffect
  DEF Handle, CallOK, AuditOK
<1> QED
  BY <1>3, <1>4, <1>5, <1>6, <1>7, <1>8, <1>9, <1>10, <1>11, <1>12, <1>13,
     <1>14, <1>15, <1>16 DEF RunLocked

\* A worker's invariant depends on the row only through facts that are stable.
LEMMA RestingWorker ==
  ASSUME IInv, RowStep, NEW v \in Worker,
         pc'[v] = pc[v], call'[v] = call[v], at'[v] = at[v]
  PROVE  CallOK(v)' /\ AuditOK(v)'
<1>1. /\ cancelRequested => cancelRequested'
      /\ Audited => Audited'
      /\ CallOK(v) /\ AuditOK(v)
  BY CancelStable, AuditedStable DEF IInv, WorkerInv
<1> QED BY <1>1 DEF CallOK, AuditOK

\* No step of a worker moves another one.
LEMMA OthersRest ==
  ASSUME TypeOK, NEW w \in Worker,
         Deliver(w) \/ WorkerStep(w) \/ Crash(w) \/ Redeliver(w)
  PROVE  \A v \in Worker \ {w} : /\ pc'[v] = pc[v]
                                 /\ call'[v] = call[v]
                                 /\ at'[v] = at[v]
<1> DEFINE Rest == \A v \in Worker \ {w} : pc'[v] = pc[v] /\ call'[v] = call[v]
<1>1. {"acquire", "prepare", "ack", "handle", "release"} \subseteq PC
  BY DEF PC
<1>2. ASSUME Forget(w)
      PROVE  Rest /\ \A v \in Worker \ {w} : at'[v] = at[v]
  BY <1>2 DEF Forget, TypeOK
<1>3. CASE Deliver(w)
  BY <1>1, <1>3, GotoEffect DEF Deliver
<1>4. CASE Acquire(w)
  BY <1>1, <1>4, GotoEffect DEF Acquire
<1>5. CASE RunLocked(w)
  <2>1. Rest
    BY <1>5, RunLockedEffect
  <2>2. at' = at \/ \E i : at' = [at EXCEPT ![w] = i]
    BY <1>5 DEF RunLocked, Prepare, Validate, Precheck, Execute, BeginStage,
      StageSucceeds, StageFails, Raises, FinishStage, Advance,
      WorkflowFailed, PersistCompletedRun, Release
  <2>3. \A v \in Worker \ {w} : at'[v] = at[v]
    BY <2>2 DEF TypeOK
  <2> QED BY <2>1, <2>3
<1>6. CASE CommitRecord(w)
  <2>1. call[w].next \in PC
    BY DEF TypeOK, Call
  <2> QED BY <1>1, <1>6, <2>1, GotoEffect DEF CommitRecord, Leave, TypeOK
<1>7. CASE Handle(w)
  BY <1>1, <1>7, GotoEffect, MarkFailureEffect, CancelIfRequestedEffect DEF Handle
<1>8. CASE Ack(w)
  BY <1>2, <1>8 DEF Ack
<1>9. CASE Crash(w)
  BY <1>2, <1>9 DEF Crash
<1>10. CASE Redeliver(w)
  BY <1>10 DEF Redeliver, taskVars
<1> QED BY <1>3, <1>4, <1>5, <1>6, <1>7, <1>8, <1>9, <1>10 DEF WorkerStep

LEMMA WorkerInvStep ==
  ASSUME IInv, [Next]_vars
  PROVE  WorkerInv'
<1>1. RowStep
  BY NextIsRowStep
<1>2. CASE UNCHANGED <<pc, call, at>>
  BY <1>1, <1>2, RestingWorker DEF WorkerInv
<1>3. ASSUME NEW w \in Worker,
             Deliver(w) \/ WorkerStep(w) \/ Crash(w) \/ Redeliver(w)
      PROVE  WorkerInv'
  <2>1. ASSUME NEW v \in Worker \ {w} PROVE CallOK(v)' /\ AuditOK(v)'
    BY <1>1, <1>3, OthersRest, RestingWorker DEF IInv
  <2>2. CallOK(w)' /\ AuditOK(w)'
    <3>1. CASE RunLocked(w) \/ Handle(w)
      BY <1>1, <3>1, MovingWorker
    <3>2. CASE Deliver(w) \/ Acquire(w)
      <4>1. {"acquire", "prepare", "ack", "handle"} \subseteq PC
        BY DEF PC
      <4>2. pc'[w] \in {"acquire", "prepare", "ack", "handle"}
        BY <3>2, <4>1, GotoEffect DEF Deliver, Acquire, IInv
      <4> QED BY <4>2 DEF CallOK, AuditOK
    <3>3. CASE Ack(w) \/ Crash(w)
      <4>1. pc'[w] = "idle"
        BY <3>3 DEF Ack, Crash, Forget, IInv, TypeOK
      <4> QED BY <4>1 DEF CallOK, AuditOK
    <3>4. CASE Redeliver(w)
      BY <1>1, <3>4, RestingWorker DEF Redeliver, taskVars
    <3>5. CASE CommitRecord(w)
      <4>1. /\ "release" \in PC /\ call[w].next \in PC /\ call[w].stage \in Status
            /\ pc[w] = "commit" /\ at' = at
            /\ call' = [call EXCEPT ![w] = NoCall]
        BY <3>5 DEF CommitRecord, PC, IInv, TypeOK, Call
      <4>2. CallOK(w)'
        <5>1. call'[w] = NoCall
          BY <4>1 DEF IInv, TypeOK
        <5>2. /\ NoCall.stage = "QUEUED" /\ NoCall.next = "idle"
              /\ NoCall.type \notin AuditStarted
          BY DEF NoCall, AuditStarted
        <5> QED BY <5>1, <5>2 DEF CallOK
      <4>3. CASE pc'[w] = "release"
        BY <4>2, <4>3 DEF AuditOK
      <4>4. CASE /\ pc'[w] = call[w].next
                 /\ status' = call[w].stage \/ (status' = status
                                                /\ ~MayMove(status, call[w].stage))
        <5>1. ~MayMove(status, "AUDITING") => Audited
          <6>1. status \in Status
            BY DEF IInv, TypeOK
          <6>2. status \notin Terminal => MayMove(status, "AUDITING")
            BY <6>1, RankFacts DEF MayMove
          <6> QED BY <6>2 DEF Audited, Terminal
        <5>2. CallOK(w)
          BY DEF IInv, WorkerInv
        <5>3. call[w].next # "complete"
          BY <4>1, <5>2 DEF CallOK
        <5>4. call[w].next \in {"body", "finish", "advance"} /\ at[w] >= AuditIndex
                => Audited'
          BY <4>1, <4>4, <5>1, <5>2 DEF CallOK, Audited
        <5> QED BY <4>1, <4>2, <4>4, <5>3, <5>4 DEF AuditOK
      <4>5. \/ pc'[w] = "release"
            \/ /\ pc'[w] = call[w].next
               /\ status' = call[w].stage \/ (status' = status
                                              /\ ~MayMove(status, call[w].stage))
        <5>1. TypeOK /\ call[w].next \in PC /\ "release" \in PC
          BY <4>1 DEF IInv
        <5>2. \/ Goto(w, "release")
              \/ /\ Goto(w, call[w].next)
                 /\ status' = call[w].stage
                    \/ (status' = status /\ ~MayMove(status, call[w].stage))
          BY <3>5 DEF CommitRecord, PersistProgress, Leave, rowVars
        <5> QED BY <5>1, <5>2, GotoEffect
      <4> QED BY <4>2, <4>3, <4>4, <4>5
    <3> QED BY <1>3, <3>1, <3>2, <3>3, <3>4, <3>5 DEF WorkerStep
  <2> QED BY <2>1, <2>2 DEF WorkerInv
<1> QED
  BY <1>2, <1>3
  DEF Next, vars, taskVars, apiFrame, Enqueue, EnqueueRaises, RejectRun,
      ApiCrash, RequestCancellation, DecidePublication, LockExpires

------------------------------------------------------------------------------
(* Theorems *)

\* The row's invariant is inductive, for every pipeline, every set of workers
\* and any number of crashes, redeliveries, late tasks and Redis errors.
LEMMA Invariance == Spec => []IInv
<1>1. Init => IInv
  <2> SUFFICES ASSUME Init PROVE IInv
    OBVIOUS
  <2>1. TypeOK
    BY InitTypeOK
  <2>2. RowInv
    BY DEF Init, RowInv, CancellationWins, Held
  <2>3. /\ Len(log) = 1 /\ DOMAIN log = {1}
        /\ log[1].stage = "QUEUED" /\ log[1].type = <<"run", "queued">>
    BY DEF Init
  <2>4. LogInv
    BY <2>3 DEF Init, LogInv, RowMatchesLog, AuditStarted
  <2>5. WorkerInv
    BY DEF Init, WorkerInv, CallOK, AuditOK
  <2> QED BY <2>1, <2>2, <2>4, <2>5 DEF IInv
<1>2. IInv /\ TypeOK' /\ [Next]_vars => IInv'
  BY NextIsRowStep, RowInvStep, LogInvStep, WorkerInvStep DEF IInv
<1> QED BY <1>1, <1>2, TypeCorrect, PTL DEF Spec

\* What a reader of the event log sees last is what the row says: no writer
\* (API, worker, reviewer) commits one without the other.
THEOREM LogAgreesWithRow == Spec => []RowMatchesLog
<1>1. IInv => RowMatchesLog
  BY DEF IInv, LogInv
<1> QED BY <1>1, Invariance, PTL

\* A durable cancellation request beats the completion of a run that needs no
\* approval, however the worker, the owner and a second delivery interleave.
THEOREM CancelBeatsCompletion == Spec => []CancellationWins
<1>1. IInv => CancellationWins
  BY DEF IInv, RowInv
<1> QED BY <1>1, Invariance, PTL

\* A report with an allegation is only ever completed by an approval.
THEOREM ApprovalIsNeeded == Spec => []AllegationNeedsApproval
<1>1. IInv => AllegationNeedsApproval
  BY DEF IInv, RowInv, AllegationNeedsApproval
<1> QED BY <1>1, Invariance, PTL


------------------------------------------------------------------------------
(* The run lock *)

\* Whoever is between lock.acquire and its release owns the lock, and the calls
\* made after the release are those of the exception handlers, which ignore a
\* refusal.
OwnsItsLock(w) ==
  /\ InLockedRegion(w) => lock = w
  /\ pc[w] = "commit" /\ call[w].next = "ack" => call[w].refused = "ignore"

LockInv == \A w \in Worker : OwnsItsLock(w)

\* A worker that does not move keeps what it owns as long as nobody takes it.
LEMMA LockInvStep ==
  ASSUME LockInv, NEW w \in Worker, OwnsItsLock(w)',
         \A v \in Worker \ {w} : /\ pc'[v] = pc[v] /\ call'[v] = call[v]
                                 /\ lock = v => lock' = v
  PROVE  LockInv'
<1>1. ASSUME NEW v \in Worker \ {w} PROVE OwnsItsLock(v)'
  <2>1. OwnsItsLock(v) /\ pc'[v] = pc[v] /\ call'[v] = call[v]
        /\ (lock = v => lock' = v)
    BY DEF LockInv
  <2> QED BY <2>1 DEF OwnsItsLock, InLockedRegion
<1> QED BY <1>1 DEF LockInv

LEMMA LockInvNext ==
  ASSUME TimelyTasks, TypeOK, LockInv, [Next]_vars
  PROVE  LockInv'
<1>1. CASE UNCHANGED <<pc, call, lock>>
  BY <1>1 DEF LockInv, OwnsItsLock, InLockedRegion
<1>2. CASE LockExpires
  <2>1. lock \notin Worker
    BY <1>2, VerificationTaskAssumption DEF LockExpires
  <2> QED BY <1>2, <2>1 DEF LockExpires, LockInv, OwnsItsLock, InLockedRegion,
                           taskVars
<1>3. ASSUME NEW w \in Worker,
             Deliver(w) \/ WorkerStep(w) \/ Crash(w) \/ Redeliver(w)
      PROVE  LockInv'
  <2>1. {"acquire", "prepare", "ack", "handle", "release"} \subseteq PC
    BY DEF PC
  <2>2. OwnsItsLock(w)
    BY DEF LockInv
  <2>3. CASE Deliver(w)
    <3>1. /\ pc'[w] = "acquire" /\ lock' = lock /\ call' = call
          /\ \A v \in Worker \ {w} : pc'[v] = pc[v]
      BY <2>1, <2>3, GotoEffect DEF Deliver
    <3> QED BY <3>1, LockInvStep DEF OwnsItsLock, InLockedRegion
  <2>4. CASE Acquire(w)
    <3>1. /\ call' = call
          /\ \A v \in Worker \ {w} : pc'[v] = pc[v]
          /\ \/ pc'[w] = "prepare" /\ lock = Free /\ lock' = w
             \/ pc'[w] \in {"ack", "handle"} /\ lock' = lock
      BY <2>1, <2>4, GotoEffect DEF Acquire
    <3>2. Free \notin Worker
      BY VerificationTaskAssumption
    <3> QED BY <3>1, <3>2, LockInvStep DEF OwnsItsLock, InLockedRegion
  <2>5. CASE RunLocked(w)
    <3>1. OwnsItsLock(w)'
      BY <2>2, <2>5, RunLockedEffect DEF OwnsItsLock, InLockedRegion
    <3>2. lock = w
      BY <2>2, <2>5, RunLockedEffect DEF OwnsItsLock
    <3> QED BY <2>5, <3>1, <3>2, RunLockedEffect, LockInvStep
  <2>6. CASE CommitRecord(w)
    <3>1. call[w].next \in PC
      BY DEF TypeOK, Call
    <3>2. /\ pc[w] = "commit" /\ lock' = lock
          /\ \A v \in Worker \ {w} : pc'[v] = pc[v] /\ call'[v] = call[v]
          /\ call'[w].next = "idle"
          /\ \/ pc'[w] = call[w].next
             \/ pc'[w] = "release" /\ call[w].refused = "raise"
      BY <2>1, <2>6, <3>1, GotoEffect DEF CommitRecord, Leave, NoCall, TypeOK
    <3>3. OwnsItsLock(w)'
      BY <2>2, <3>2 DEF OwnsItsLock, InLockedRegion
    <3> QED BY <3>2, <3>3, LockInvStep
  <2>7. CASE Handle(w)
    <3>1. /\ lock' = lock
          /\ \A v \in Worker \ {w} : pc'[v] = pc[v] /\ call'[v] = call[v]
          /\ \/ pc'[w] = "ack"
             \/ /\ pc'[w] = "commit"
                /\ call'[w].next = "ack" /\ call'[w].refused = "ignore"
      BY <2>1, <2>7, GotoEffect, MarkFailureEffect, CancelIfRequestedEffect
      DEF Handle
    <3>2. OwnsItsLock(w)'
      BY <3>1 DEF OwnsItsLock, InLockedRegion
    <3> QED BY <3>1, <3>2, LockInvStep
  <2>8. ASSUME Forget(w)
        PROVE  /\ OwnsItsLock(w)'
               /\ \A v \in Worker \ {w} : pc'[v] = pc[v] /\ call'[v] = call[v]
    BY <2>8 DEF Forget, OwnsItsLock, InLockedRegion, TypeOK
  <2>9. CASE Ack(w)
    BY <2>8, <2>9, LockInvStep DEF Ack
  <2>10. CASE Crash(w)
    BY <2>8, <2>10, LockInvStep DEF Crash
  <2>11. ~Redeliver(w)
    BY DEF Redeliver
  <2> QED BY <1>3, <2>3, <2>4, <2>5, <2>6, <2>7, <2>9, <2>10, <2>11
          DEF WorkerStep
<1> QED
  BY <1>1, <1>2, <1>3
  DEF Next, vars, taskVars, apiFrame, Enqueue, EnqueueRaises, RejectRun, ApiCrash,
      RequestCancellation, DecidePublication

\* While every task ends within its hard time limit, the Redis lock gives each
\* run one owner: no two workers are inside the region verify_run guards with
\* it, whatever crashes, redeliveries, retries and Redis errors happen.
THEOREM OneOwner ==
  ASSUME TimelyTasks
  PROVE  Spec => []SingleOwner
<1>1. Init => LockInv
  BY DEF Init, LockInv, OwnsItsLock, InLockedRegion
<1>2. TypeOK /\ LockInv /\ [Next]_vars => LockInv'
  BY LockInvNext
<1>3. LockInv => SingleOwner
  BY DEF LockInv, OwnsItsLock, SingleOwner
<1> QED BY <1>1, <1>2, <1>3, TypeCorrect, PTL DEF Spec
------------------------------------------------------------------------------
(* What one owner makes of the run *)

Preparations == {<<"run", "validating">>, <<"run", "validated">>}
WorkflowReports ==
  WorkflowStage \X {"started", "completed", "recoverable_failure"}

\* A worker at work on the report: past verify_run's check of the row.
Busy(w) ==
  \/ pc[w] \in {"execute", "stage", "body", "finish", "advance", "failed",
                "complete"}
  \/ pc[w] = "commit" /\ call[w].next \in {"body", "advance", "failed"}

\* A call about to start a stage.
BodyCall(w) == pc[w] = "commit" /\ call[w].next = "body"

\* A call in progress reports an ending, which the transition rule lets happen
\* once, or is made under the lock and its event is still missing.
CallOnce(w) ==
  pc[w] = "commit" =>
    \/ /\ \/ call[w].stage = "FAILED" /\ call[w].type = <<"run", "failed">>
          \/ call[w].stage = "CANCELLED" /\ call[w].type = <<"run", "cancelled">>
       /\ call[w].next \in {"ack", "release", "precheck"}
    \/ /\ ~Recorded(call[w].type)
       /\ \/ /\ call[w].type \in Preparations
             /\ call[w].stage = "VALIDATING"
             /\ call[w].next \in {"precheck", "validate"}
          \/ /\ call[w].type \in WorkflowReports
             /\ call[w].stage \notin Terminal
             /\ call[w].next \in {"body", "advance", "failed"}

BusyOK(w) == CallOnce(w) /\ (Busy(w) => publication = "unreviewed")
BusyInv == \A w \in Worker : BusyOK(w)

\* Each event that is not a worker's report under the lock has left its mark on
\* the row, and no writer looks for that mark in vain.
ToldInv ==
  /\ EventsRecordedOnce
  /\ \A e \in {"failed", "cancelled"} :
       Recorded(<<"run", e>>) => status \in Terminal
  /\ Recorded(<<"run", "completed">>) => status = "COMPLETED"
  /\ Recorded(<<"run", "cancellation_requested">>) => cancelRequested
  /\ Recorded(<<"publication", "review_required">>) => publication # "unreviewed"
  /\ \A d \in {"rejected", "revision_required"} :
       Recorded(<<"publication", d>>)
         => publication \notin {"unreviewed", "review_required"}

\* The stage that begins after a cancellation was checked before it.
CancelInv ==
  /\ startedAfterCancel > 0 => cancelRequested
  /\ CancelStopsBeforeNextStage
  /\ startedAfterCancel > 0 => \A w \in Worker : ~BodyCall(w)

OwnerInv ==
  IInv /\ LockInv /\ BusyInv /\ ToldInv /\ CancelInv /\ CompletedStaysAudited

------------------------------------------------------------------------------
(* The log under an append *)

LEMMA RecordedAppend ==
  ASSUME log \in Seq(Event), NEW stage \in Status, NEW type \in EventType,
         Append1(stage, type)
  PROVE  /\ \A t : Recorded(t)' <=> (Recorded(t) \/ t = type)
         /\ EventsRecordedOnce /\ ~Recorded(type) => EventsRecordedOnce'
<1>1. /\ log'[Len(log')].type = type
      /\ \A i \in DOMAIN log : log'[i] = log[i]
      /\ DOMAIN log' = DOMAIN log \union {Len(log')}
      /\ Len(log') \notin DOMAIN log
  <2>1. Len(log) \in Nat /\ DOMAIN log = 1..Len(log)
    OBVIOUS
  <2>2. /\ Len(log') = Len(log) + 1
        /\ log'[Len(log')].type = type
        /\ \A i \in DOMAIN log : log'[i] = log[i]
        /\ DOMAIN log' = DOMAIN log \union {Len(log')}
    BY AppendFacts
  <2>3. Len(log') \notin DOMAIN log
    BY <2>1, <2>2
  <2> QED BY <2>2, <2>3
<1>2. ASSUME NEW t PROVE Recorded(t)' <=> (Recorded(t) \/ t = type)
  BY <1>1 DEF Recorded
<1>3. ASSUME EventsRecordedOnce, ~Recorded(type) PROVE EventsRecordedOnce'
  BY <1>1, <1>3 DEF EventsRecordedOnce, Recorded
<1> QED BY <1>2, <1>3

\* The events of the row's own transactions are none of the workers' reports.
LEMMA OtherEvents ==
  /\ \A e \in {"failed", "cancelled", "cancellation_requested", "completed"} :
       <<"run", e>> \in EventType \ (Preparations \union WorkflowReports)
  /\ \A e \in {"review_required", "rejected", "revision_required"} :
       <<"publication", e>> \in EventType \ (Preparations \union WorkflowReports)
<1>1. "run" \notin WorkflowStage /\ "publication" \notin WorkflowStage
  BY DEF WorkflowStage
<1> QED
  BY <1>1, EventTypes DEF Preparations, WorkflowReports, Publication

\* A worker that does not move keeps its part of the invariant if nobody else
\* records its event or decides on its report.
LEMMA RestingCall ==
  ASSUME TypeOK, NEW v \in Worker, BusyOK(v), pc'[v] = pc[v], call'[v] = call[v],
         \/ log' = log
         \/ \E stage \in Status : \E type \in EventType :
              /\ Append1(stage, type)
              /\ pc[v] = "commit" => \/ type # call[v].type
                                     \/ type \notin Preparations \union WorkflowReports,
         Busy(v) => publication' = publication
  PROVE  BusyOK(v)'
<1>1. Busy(v)' = Busy(v)
  BY DEF Busy
<1>2. ASSUME pc[v] = "commit", ~Recorded(call[v].type),
             call[v].type \in Preparations \union WorkflowReports
      PROVE  ~Recorded(call[v].type)'
  <2> DEFINE t == call[v].type
  <2>1. t' = t
    OBVIOUS
  <2>2. CASE log' = log
    BY <1>2, <2>1, <2>2 DEF Recorded
  <2>3. CASE log' # log
    <3>1. PICK stage \in Status, type \in EventType :
            Append1(stage, type) /\ type # t
      BY <1>2, <2>3
    <3>2. PICK u : u = t
      OBVIOUS
    <3>3. Recorded(u)' <=> (Recorded(u) \/ u = type)
      BY <3>1, RecordedAppend DEF TypeOK
    <3> QED BY <1>2, <2>1, <3>1, <3>2, <3>3 DEF Recorded
  <2> QED BY <2>2, <2>3
<1> QED BY <1>1, <1>2 DEF BusyOK, CallOnce

------------------------------------------------------------------------------
(* A step of the worker itself *)

\* Recording a report of the preparation or the workflow.
LEMMA RecordedReport ==
  ASSUME TypeOK, NEW w \in Worker, NEW stage \in Status, NEW type \in EventType,
         NEW next \in PC, NEW refused \in {"raise", "ignore"},
         Record(w, stage, type, next, refused), UNCHANGED rowVars,
         \/ /\ type \in Preparations /\ stage = "VALIDATING"
            /\ next \in {"precheck", "validate"}
         \/ /\ type \in WorkflowReports /\ stage \notin Terminal
            /\ next \in {"body", "advance", "failed"}
            /\ publication = "unreviewed"
  PROVE  BusyOK(w)'
<1>1. CASE Skips(stage, type) /\ pc'[w] = next
  BY <1>1 DEF BusyOK, CallOnce, Busy, rowVars
<1>2. CASE /\ pc'[w] = "commit" /\ ~Recorded(type)
           /\ call'[w].stage = stage /\ call'[w].type = type
           /\ call'[w].next = next
  <2>1. ~Recorded(type)' /\ publication' = publication
    BY <1>2 DEF Recorded, rowVars
  <2> QED BY <1>2, <2>1 DEF BusyOK, CallOnce, Busy, Recorded
<1>3. \/ Skips(stage, type) /\ pc'[w] = next
      \/ /\ pc'[w] = "commit" /\ ~Recorded(type)
         /\ call'[w].stage = stage /\ call'[w].type = type
         /\ call'[w].next = next
  BY RecordEffect DEF Record, Skips
<1> QED BY <1>1, <1>2, <1>3

\* Moving out of the workflow, or recording an ending on the way out.
LEMMA LeavingWorker ==
  ASSUME NEW w \in Worker, NEW next \in {"ack", "release", "precheck"},
         \/ pc'[w] \in {"ack", "release", "precheck", "handle", "idle", "acquire",
                        "prepare"}
         \/ /\ pc'[w] = "commit" /\ call'[w].next = next
            /\ \/ /\ call'[w].stage = "FAILED"
                  /\ call'[w].type = <<"run", "failed">>
               \/ /\ call'[w].stage = "CANCELLED"
                  /\ call'[w].type = <<"run", "cancelled">>
  PROVE  BusyOK(w)' /\ ~BodyCall(w)'
BY DEF BusyOK, CallOnce, Busy, BodyCall

LEMMA MovingCall ==
  ASSUME TypeOK, RowInv, NEW w \in Worker, BusyOK(w),
         RunLocked(w) \/ Handle(w)
  PROVE  BusyOK(w)' /\ (BodyCall(w)' => ~cancelRequested)
<1> USE DEF rest, workVars, infra
<1>1. /\ {"prepare", "validate", "precheck", "execute", "stage", "body",
         "finish", "advance", "failed", "complete", "release", "handle", "ack"}
          \subseteq PC
      /\ {"VALIDATING", "CANCELLED", "FAILED"} \subseteq Status
      /\ "VALIDATING" \notin Terminal
      /\ \A e \in {"validated", "validating", "cancelled", "failed"} :
           <<"run", e>> \in EventType
      /\ \A e \in {"validated", "validating"} : <<"run", e>> \in Preparations
  BY EventTypes DEF PC, Status, Terminal, Preparations
<1> DEFINE stage == StageAt(at[w])
<1>2. /\ StageStatus(stage) \in Status \ Terminal
      /\ \A e \in {"started", "completed", "recoverable_failure"} :
           <<stage, e>> \in EventType /\ <<stage, e>> \in WorkflowReports
  BY StageFacts, StageStatusFacts, EventTypes DEF TypeOK, WorkflowReports
<1> HIDE DEF stage
<1>3. ASSUME NEW l \in PC \ {"commit"}, Goto(w, l),
             l \in {"execute", "stage", "body", "finish", "advance", "failed",
                    "complete"} => publication' = "unreviewed"
      PROVE  BusyOK(w)' /\ ~BodyCall(w)'
  <2>1. pc'[w] = l
    BY <1>3, GotoEffect
  <2> QED BY <1>3, <2>1 DEF BusyOK, CallOnce, Busy, BodyCall
<1>4. Busy(w) => publication = "unreviewed"
  BY DEF BusyOK
<1>5. CASE Prepare(w)
  <2>1. UNCHANGED rowVars
    BY <1>5 DEF Prepare
  <2>2. CASE Goto(w, "precheck")
    BY <1>1, <1>3, <2>2
  <2>3. CASE CancelIfRequested(w, "precheck", "raise")
    BY <1>1, <2>3, CancelIfRequestedEffect, LeavingWorker
  <2>4. ASSUME NEW type \in {<<"run", "validated">>, <<"run", "validating">>},
               NEW next \in {"precheck", "validate"},
               Record(w, "VALIDATING", type, next, "raise")
        PROVE  BusyOK(w)' /\ ~BodyCall(w)'
    BY <1>1, <2>1, <2>4, RecordEffect, RecordedReport DEF BodyCall
  <2> QED BY <1>5, <2>2, <2>3, <2>4 DEF Prepare
<1>6. CASE Validate(w)
  <2>1. UNCHANGED rowVars
    BY <1>6 DEF Validate
  <2>2. CASE CancelIfRequested(w, "precheck", "raise")
    BY <1>1, <2>2, CancelIfRequestedEffect, LeavingWorker
  <2>3. CASE Record(w, "VALIDATING", <<"run", "validated">>, "precheck", "raise")
    BY <1>1, <2>1, <2>3, RecordEffect, RecordedReport DEF BodyCall
  <2> QED BY <1>6, <2>2, <2>3 DEF Validate
<1>7. CASE Precheck(w)
  <2>1. CASE CancelIfRequested(w, "release", "raise")
    BY <1>1, <2>1, CancelIfRequestedEffect, LeavingWorker
  <2>2. CASE Goto(w, "release")
    BY <1>1, <1>3, <2>2
  <2>3. CASE ~NothingToDo /\ Goto(w, "execute")
    <3>1. publication' = publication /\ publication \in Publication
      BY <1>7 DEF Precheck, rowVars, TypeOK
    <3>2. publication = "unreviewed"
      BY <2>3, <3>1 DEF NothingToDo, RowInv, Publication, Held, Terminal
    <3> QED BY <1>1, <1>3, <2>3, <3>1, <3>2
  <2> QED BY <1>7, <2>1, <2>2, <2>3 DEF Precheck
<1>8. CASE Execute(w)
  <2>1. publication' = "unreviewed"
    BY <1>4, <1>8 DEF Execute, Busy, rowVars
  <2> QED BY <1>1, <1>3, <1>8, <2>1 DEF Execute
<1>9. CASE BeginStage(w)
  <2>1. UNCHANGED rowVars /\ publication = "unreviewed"
    BY <1>4, <1>9 DEF BeginStage, Busy
  <2>2. CASE RecordCancelled(w, "release", "raise")
    BY <1>1, <2>2, RecordEffect, LeavingWorker DEF RecordCancelled
  <2>3. CASE /\ ~cancelRequested
             /\ Record(w, StageStatus(stage), <<stage, "started">>, "body", "raise")
    BY <1>1, <1>2, <2>1, <2>3, RecordedReport
  <2> QED BY <1>9, <2>2, <2>3 DEF BeginStage, stage
<1>10. CASE StageSucceeds(w)
  <2>1. publication' = "unreviewed"
    BY <1>4, <1>10 DEF StageSucceeds, Busy, rowVars
  <2> QED BY <1>1, <1>3, <1>10, <2>1 DEF StageSucceeds
<1>11. CASE StageFails(w)
  <2>1. UNCHANGED rowVars /\ publication = "unreviewed"
    BY <1>4, <1>11 DEF StageFails, Busy
  <2>2. Record(w, StageStatus(stage), <<stage, "recoverable_failure">>, "failed", "raise")
    BY <1>11 DEF StageFails, stage
  <2> QED BY <1>1, <1>2, <2>1, <2>2, RecordEffect, RecordedReport DEF BodyCall
<1>12. CASE Raises(w)
  BY <1>1, <1>3, <1>12 DEF Raises, Leave
<1>13. CASE FinishStage(w)
  <2>1. UNCHANGED rowVars /\ publication = "unreviewed"
    BY <1>4, <1>13 DEF FinishStage, Busy
  <2>2. Record(w, StageStatus(stage), <<stage, "completed">>, "advance", "raise")
    BY <1>13 DEF FinishStage, stage
  <2> QED BY <1>1, <1>2, <2>1, <2>2, RecordEffect, RecordedReport DEF BodyCall
<1>14. CASE Advance(w)
  <2>1. publication' = "unreviewed"
    BY <1>4, <1>14 DEF Advance, Busy, rowVars
  <2> QED BY <1>1, <1>3, <1>14, <2>1 DEF Advance
<1>15. CASE WorkflowFailed(w)
  BY <1>1, <1>3, <1>15, MarkFailureEffect, LeavingWorker DEF WorkflowFailed, Leave
<1>16. CASE PersistCompletedRun(w)
  BY <1>1, <1>3, <1>16 DEF PersistCompletedRun, Leave
<1>17. CASE Release(w)
  BY <1>1, <1>3, <1>17 DEF Release
<1>18. CASE Handle(w)
  BY <1>1, <1>3, <1>18, MarkFailureEffect, CancelIfRequestedEffect, LeavingWorker
  DEF Handle
<1> QED
  BY <1>5, <1>6, <1>7, <1>8, <1>9, <1>10, <1>11, <1>12, <1>13, <1>14, <1>15,
     <1>16, <1>17, <1>18 DEF RunLocked

\* The commit of a report: whatever becomes of it, the worker goes on where its
\* call says, or leaves.
LEMMA CommittingCall ==
  ASSUME TypeOK, NEW w \in Worker, BusyOK(w), CommitRecord(w)
  PROVE  BusyOK(w)' /\ ~BodyCall(w)'
<1> DEFINE c == call[w]
<1>1. /\ c.next \in PC /\ "release" \in PC /\ pc[w] = "commit"
      /\ publication' = publication
      /\ call' = [call EXCEPT ![w] = NoCall]
  BY DEF CommitRecord, PersistProgress, rowVars, PC, TypeOK, Call
<1>2. call'[w].next = "idle"
  BY <1>1 DEF TypeOK, NoCall
<1>3. pc'[w] = c.next \/ pc'[w] = "release"
  BY <1>1, GotoEffect DEF CommitRecord, Leave
<1>4. /\ c.next \in {"ack", "release", "precheck", "validate", "body", "advance",
                     "failed"}
      /\ c.next \in {"body", "advance", "failed"} => publication = "unreviewed"
  BY <1>1 DEF BusyOK, CallOnce, Busy
<1> QED BY <1>1, <1>2, <1>3, <1>4 DEF BusyOK, CallOnce, Busy, BodyCall

\* While one worker owns the lock, no other is at work on the report or about
\* to report it.
LEMMA OthersAreOut ==
  ASSUME LockInv, BusyInv, NEW w \in Worker, NEW v \in Worker \ {w},
         InLockedRegion(w)
  PROVE  /\ ~Busy(v)
         /\ ~BodyCall(v)
         /\ pc[v] = "commit" => call[v].type \notin Preparations \union WorkflowReports
<1>1. lock = w /\ ~InLockedRegion(v) /\ BusyOK(v)
  BY DEF LockInv, OwnsItsLock, BusyInv
<1>2. ~Busy(v) /\ ~BodyCall(v)
  BY <1>1 DEF InLockedRegion, Busy, BodyCall
<1>3. ASSUME pc[v] = "commit"
      PROVE  call[v].type \notin Preparations \union WorkflowReports
  <2>1. call[v].next = "ack"
    BY <1>1, <1>3 DEF InLockedRegion
  <2>2. call[v].type \in {<<"run", "failed">>, <<"run", "cancelled">>}
    BY <1>1, <1>3, <2>1 DEF BusyOK, CallOnce
  <2> QED BY <2>2, OtherEvents
<1> QED BY <1>2, <1>3

------------------------------------------------------------------------------
(* Every step keeps what one owner makes of the run *)

\* What a worker's step appends, if anything, is its call's event or the end of
\* a completed report, and the latter happens under the lock.
LEMMA WorkerAppends ==
  ASSUME IInv, BusyInv, NEW w \in Worker,
         Deliver(w) \/ WorkerStep(w) \/ Crash(w) \/ Redeliver(w)
  PROVE  \/ UNCHANGED <<log, publication>>
         \/ /\ pc[w] = "commit" /\ publication' = publication
            /\ Append1(call[w].stage, call[w].type)
         \/ /\ InLockedRegion(w)
            /\ \E stage \in Status :
                 \E type \in EventType \ (Preparations \union WorkflowReports) :
                   Append1(stage, type)
<1>1. CASE PersistCompletedRun(w)
  <2>1. InLockedRegion(w)
    BY <1>1 DEF PersistCompletedRun, InLockedRegion
  <2>2. {"AUDITING", "COMPLETED"} \subseteq Status
    BY DEF Status, Terminal
  <2> QED BY <1>1, <2>1, <2>2, OtherEvents DEF PersistCompletedRun, rowVars
<1>2. CASE CommitRecord(w)
  BY <1>2 DEF CommitRecord, PersistProgress, rowVars
<1>3. CASE ~PersistCompletedRun(w) /\ ~CommitRecord(w)
  BY <1>3
  DEF WorkerStep, RunLocked, rest, rowVars, Prepare, Validate, Precheck, Execute,
      BeginStage, StageSucceeds, StageFails, Raises, FinishStage, Advance,
      WorkflowFailed, Release, Deliver, Acquire, Handle, Ack, Crash, Redeliver
<1> QED BY <1>1, <1>2, <1>3

LEMMA BusyInvNext ==
  ASSUME IInv, LockInv, BusyInv, [Next]_vars
  PROVE  BusyInv'
<1> USE DEF IInv
<1>1. ASSUME NEW w \in Worker,
             Deliver(w) \/ WorkerStep(w) \/ Crash(w) \/ Redeliver(w)
      PROVE  BusyInv'
  <2>1. BusyOK(w)'
    <3>1. BusyOK(w)
      BY DEF BusyInv
    <3>2. CASE RunLocked(w) \/ Handle(w)
      BY <3>1, <3>2, MovingCall
    <3>3. CASE CommitRecord(w)
      BY <3>1, <3>3, CommittingCall
    <3>4. CASE Deliver(w) \/ Acquire(w)
      <4>1. {"acquire", "prepare", "ack", "handle"} \subseteq PC
        BY DEF PC
      <4>2. pc'[w] \in {"acquire", "prepare", "ack", "handle"}
        BY <3>4, <4>1, GotoEffect DEF Deliver, Acquire
      <4> QED BY <4>2, LeavingWorker
    <3>5. CASE Ack(w) \/ Crash(w)
      <4>1. pc'[w] = "idle"
        BY <3>5 DEF Ack, Crash, Forget, TypeOK
      <4> QED BY <4>1, LeavingWorker
    <3>6. CASE Redeliver(w)
      BY <3>1, <3>6, RestingCall DEF Redeliver, taskVars, rowVars
    <3> QED BY <1>1, <3>2, <3>3, <3>4, <3>5, <3>6 DEF WorkerStep
  <2>2. ASSUME NEW v \in Worker \ {w} PROVE BusyOK(v)'
    <3>1. pc'[v] = pc[v] /\ call'[v] = call[v] /\ BusyOK(v)
      BY <1>1, OthersRest DEF BusyInv
    <3>2. CASE UNCHANGED <<log, publication>>
      BY <3>1, <3>2, RestingCall
    <3>3. CASE /\ pc[w] = "commit" /\ publication' = publication
               /\ Append1(call[w].stage, call[w].type)
      <4>1. call[w].stage \in Status /\ call[w].type \in EventType
        BY DEF TypeOK, Call
      <4>2. pc[v] = "commit" => \/ call[w].type # call[v].type
                                \/ call[w].type \notin Preparations \union WorkflowReports
        <5>1. CASE InLockedRegion(w)
          BY <5>1, OthersAreOut
        <5>2. CASE ~InLockedRegion(w)
          <6>1. call[w].next = "ack" /\ CallOnce(w)
            BY <3>3, <5>2 DEF InLockedRegion, BusyInv, BusyOK
          <6>2. call[w].type \in {<<"run", "failed">>, <<"run", "cancelled">>}
            BY <3>3, <6>1 DEF CallOnce
          <6> QED BY <6>2, OtherEvents
        <5> QED BY <5>1, <5>2
      <4> QED BY <3>1, <3>3, <4>1, <4>2, RestingCall
    <3>4. CASE /\ InLockedRegion(w)
               /\ \E stage \in Status :
                    \E type \in EventType \ (Preparations \union WorkflowReports) :
                      Append1(stage, type)
      <4>1. ~Busy(v)
        BY <3>4, OthersAreOut
      <4> QED BY <3>1, <3>4, <4>1, RestingCall
    <3> QED BY <1>1, <3>2, <3>3, <3>4, WorkerAppends
  <2> QED BY <2>1, <2>2 DEF BusyInv
<1>2. ASSUME UNCHANGED <<pc, call>>,
             \/ log' = log
             \/ \E stage \in Status :
                  \E type \in EventType \ (Preparations \union WorkflowReports) :
                    Append1(stage, type),
             publication' = publication \/ publication = "review_required"
      PROVE  BusyInv'
  <2>1. ASSUME NEW v \in Worker PROVE BusyOK(v)'
    <3>1. pc'[v] = pc[v] /\ call'[v] = call[v] /\ BusyOK(v)
      BY <1>2 DEF BusyInv
    <3>2. Busy(v) => publication' = publication
      BY <1>2, <3>1 DEF BusyOK
    <3> QED BY <1>2, <3>1, <3>2, RestingCall
  <2> QED BY <2>1 DEF BusyInv
<1>3. /\ {"FAILED", "CANCELLED", "COMPLETED"} \subseteq Status
      /\ status \in Status
  BY DEF Status, Terminal, TypeOK
<1>4. CASE RejectRun
  BY <1>2, <1>3, <1>4, OtherEvents DEF RejectRun, PersistProgress, apiFrame, taskVars, rowVars
<1>5. CASE RequestCancellation
  BY <1>2, <1>3, <1>5, OtherEvents DEF RequestCancellation, apiFrame, taskVars
<1>6. CASE \E d \in Decisions : DecidePublication(d)
  BY <1>2, <1>3, <1>6, OtherEvents
  DEF DecidePublication, Decisions, Approves, apiFrame, taskVars
<1>7. CASE Enqueue \/ EnqueueRaises \/ ApiCrash \/ LockExpires \/ UNCHANGED vars
  BY <1>2, <1>7
  DEF Enqueue, EnqueueRaises, ApiCrash, LockExpires, vars, apiFrame, taskVars, rowVars
<1> QED BY <1>1, <1>4, <1>5, <1>6, <1>7 DEF Next

\* An event of one of the row's transactions is told once.
LEMMA ToldInvStep ==
  ASSUME IInv, BusyInv, ToldInv, RowStep
  PROVE  ToldInv'
<1> USE DEF IInv
<1>1. /\ \A e \in {"failed", "cancelled", "cancellation_requested", "completed"} :
           <<"run", e>> \in EventType \ (Preparations \union WorkflowReports)
      /\ \A e \in {"review_required", "rejected", "revision_required"} :
           <<"publication", e>> \in EventType \ (Preparations \union WorkflowReports)
      /\ {"FAILED", "CANCELLED", "COMPLETED", "AUDITING"} \subseteq Status
      /\ status \in Status /\ publication \in Publication
      /\ cancelRequested \in BOOLEAN
  BY OtherEvents DEF Status, Terminal, TypeOK
<1>2. CASE UNCHANGED rowVars
  BY <1>2 DEF rowVars, ToldInv, EventsRecordedOnce, Recorded
<1>3. ASSUME NEW stage \in Status, NEW type \in EventType,
             PersistProgress(stage, type), stage # "COMPLETED", ~Recorded(type),
             \/ type \in Preparations \union WorkflowReports
             \/ /\ type \in {<<"run", "failed">>, <<"run", "cancelled">>}
                /\ stage \in Terminal
      PROVE  ToldInv'
  <2>1. /\ \A t : Recorded(t)' <=> (Recorded(t) \/ t = type)
        /\ EventsRecordedOnce'
    BY <1>3, RecordedAppend DEF PersistProgress, TypeOK, ToldInv
  <2>2. /\ status \notin Terminal /\ status' = stage /\ publication' = publication
        /\ cancelRequested => cancelRequested'
    BY <1>3 DEF PersistProgress, MayMove
  <2>3. ~Recorded(<<"run", "completed">>)
    BY <2>2 DEF ToldInv, Terminal
  <2>4. \A e \in {"failed", "cancelled"} : ~Recorded(<<"run", e>>)
    BY <2>2 DEF ToldInv
  <2> QED
    BY <1>1, <1>3, <2>1, <2>2, <2>3, <2>4 DEF ToldInv
<1>4. CASE \E w \in Worker : /\ pc[w] = "commit"
                            /\ PersistProgress(call[w].stage, call[w].type)
  <2>1. PICK w \in Worker : /\ pc[w] = "commit"
                            /\ PersistProgress(call[w].stage, call[w].type)
    BY <1>4
  <2>2. PICK stage \in Status, type \in EventType :
          stage = call[w].stage /\ type = call[w].type
    BY DEF TypeOK, Call
  <2>3. stage # "COMPLETED" /\ CallOnce(w) /\ status \notin Terminal
    BY <2>1, <2>2 DEF WorkerInv, CallOK, BusyInv, BusyOK, PersistProgress, MayMove
  <2>4. CASE /\ type \in {<<"run", "failed">>, <<"run", "cancelled">>}
             /\ stage \in Terminal
    <3>1. ~Recorded(type)
      BY <2>3, <2>4 DEF ToldInv
    <3> QED BY <1>3, <2>1, <2>2, <2>3, <2>4, <3>1
  <2>5. CASE /\ type \in Preparations \union WorkflowReports
             /\ ~Recorded(type)
    BY <1>3, <2>1, <2>2, <2>3, <2>5
  <2> QED BY <2>1, <2>2, <2>3, <2>4, <2>5 DEF CallOnce, Terminal
<1>5. CASE PersistProgress("FAILED", <<"run", "failed">>)
  <2>1. status \notin Terminal
    BY <1>5 DEF PersistProgress, MayMove
  <2>2. ~Recorded(<<"run", "failed">>) /\ "FAILED" \in Terminal
    BY <2>1 DEF ToldInv, Terminal
  <2> QED BY <1>1, <1>3, <1>5, <2>2
<1>6. CASE RequestCancellation
  <2>0. PICK type \in {<<"run", "cancelled">>, <<"run", "cancellation_requested">>} :
          /\ Append1(status', type)
          /\ type = <<"run", "cancelled">> => status' = "CANCELLED"
    BY <1>6 DEF RequestCancellation
  <2>1. /\ status \notin Terminal /\ ~cancelRequested /\ cancelRequested'
        /\ publication' = publication
        /\ status' \in {status, "CANCELLED"}
    BY <1>6 DEF RequestCancellation
  <2>2. /\ \A e \in {"failed", "cancelled"} : ~Recorded(<<"run", e>>)
        /\ ~Recorded(<<"run", "completed">>)
        /\ ~Recorded(<<"run", "cancellation_requested">>)
    BY <2>1 DEF ToldInv, Terminal
  <2>3. status' \in Status /\ type \in EventType
    BY <1>1, <2>0, <2>1
  <2>4. ~Recorded(type)
    BY <2>0, <2>2
  <2>5. /\ \A t : Recorded(t)' <=> (Recorded(t) \/ t = type)
        /\ EventsRecordedOnce'
    BY <2>0, <2>3, <2>4, RecordedAppend DEF TypeOK, ToldInv
  <2> QED BY <2>0, <2>1, <2>2, <2>5 DEF ToldInv, Terminal
<1>7. CASE \E d \in Decisions : DecidePublication(d)
  <2>1. PICK d \in Decisions : DecidePublication(d)
    BY <1>7
  <2>2. /\ publication = "review_required" /\ publication' = d
        /\ cancelRequested' = cancelRequested
    BY <2>1 DEF DecidePublication
  <2>3. /\ status # "COMPLETED"
        /\ ~Recorded(<<"run", "completed">>)
        /\ ~Recorded(<<"publication", "rejected">>)
        /\ ~Recorded(<<"publication", "revision_required">>)
    BY <2>2 DEF ToldInv, RowInv
  <2>4. CASE d = "approved"
    <3>1. status' = "COMPLETED" /\ Append1("COMPLETED", <<"run", "completed">>)
      BY <2>1, <2>4 DEF DecidePublication, Approves
    <3>2. /\ \A t : Recorded(t)' <=> (Recorded(t) \/ t = <<"run", "completed">>)
          /\ EventsRecordedOnce'
      BY <1>1, <2>3, <3>1, RecordedAppend DEF TypeOK, ToldInv
    <3> QED BY <2>2, <2>3, <2>4, <3>1, <3>2 DEF ToldInv, Terminal
  <2>5. CASE d \in {"rejected", "revision_required"}
    <3>1. status' = status /\ Append1(status, <<"publication", d>>)
      BY <2>1, <2>5 DEF DecidePublication, Approves
    <3>2. ~Recorded(<<"publication", d>>) /\ <<"publication", d>> \in EventType
      BY <1>1, <2>3, <2>5
    <3>3. /\ \A t : Recorded(t)' <=> (Recorded(t) \/ t = <<"publication", d>>)
          /\ EventsRecordedOnce'
      BY <1>1, <3>1, <3>2, RecordedAppend DEF TypeOK, ToldInv
    <3> QED BY <2>2, <2>3, <2>5, <3>1, <3>3 DEF ToldInv
  <2> QED BY <2>4, <2>5 DEF Decisions
<1>8. CASE \E w \in Worker : /\ PersistCompletedRun(w)
                            /\ ~CompletionBlocked
                            /\ citations = "passed"
  <2>1. PICK w \in Worker : PersistCompletedRun(w) /\ ~CompletionBlocked
                            /\ citations = "passed"
    BY <1>8
  <2>2. /\ status \notin Terminal
        /\ publication = "unreviewed"
        /\ cancelRequested' = cancelRequested
    BY <1>1, <2>1
    DEF CompletionBlocked, RowInv, Terminal, Held, Publication, PersistCompletedRun
  <2>3. /\ ~Recorded(<<"run", "completed">>)
        /\ \A e \in {"review_required", "rejected", "revision_required"} :
             ~Recorded(<<"publication", e>>)
    BY <2>2 DEF ToldInv, Terminal
  <2>4. CASE Allegation
    <3>1. /\ status' = status /\ publication' = "review_required"
          /\ Append1("AUDITING", <<"publication", "review_required">>)
      BY <2>1, <2>4 DEF PersistCompletedRun
    <3>2. /\ \A t : Recorded(t)' <=> (Recorded(t)
                                      \/ t = <<"publication", "review_required">>)
          /\ EventsRecordedOnce'
      BY <1>1, <2>3, <3>1, RecordedAppend DEF TypeOK, ToldInv
    <3> QED BY <2>2, <2>3, <3>1, <3>2 DEF ToldInv
  <2>5. CASE ~Allegation
    <3>1. /\ status' = "COMPLETED" /\ publication' = "published"
          /\ Append1("COMPLETED", <<"run", "completed">>)
      BY <2>1, <2>5 DEF PersistCompletedRun
    <3>2. /\ \A t : Recorded(t)' <=> (Recorded(t) \/ t = <<"run", "completed">>)
          /\ EventsRecordedOnce'
      BY <1>1, <2>3, <3>1, RecordedAppend DEF TypeOK, ToldInv
    <3> QED BY <2>2, <2>3, <3>1, <3>2 DEF ToldInv, Terminal
  <2> QED BY <2>4, <2>5
<1> QED BY <1>2, <1>4, <1>5, <1>6, <1>7, <1>8 DEF RowStep

\* The audit of a completed report is not saved over: whoever saves an audit is
\* at work on a report that nobody has published or holds.
LEMMA AuditedStays ==
  ASSUME IInv, BusyInv, CompletedStaysAudited, [Next]_vars
  PROVE  CompletedStaysAudited'
<1> USE DEF IInv, CompletedStaysAudited
<1>1. RowStep
  BY NextIsRowStep
<1>2. CASE \E w \in Worker : StageSucceeds(w)
  <2>1. PICK w \in Worker : StageSucceeds(w)
    BY <1>2
  <2>2. publication = "unreviewed"
    BY <2>1 DEF StageSucceeds, BusyInv, BusyOK, Busy
  <2>3. status' # "COMPLETED"
    BY <2>1, <2>2 DEF StageSucceeds, rowVars, RowInv
  <2> QED BY <2>3
<1>3. CASE ~\E w \in Worker : StageSucceeds(w)
  <2>1. citations' = citations
    <3>1. ASSUME NEW w \in Worker, RunLocked(w) PROVE citations' = citations
      <4>1. CASE Prepare(w) \/ Validate(w) \/ Precheck(w) \/ Execute(w) \/ Release(w)
        BY <4>1 DEF Prepare, Validate, Precheck, Execute, Release, rest, workVars
      <4>2. CASE BeginStage(w) \/ StageFails(w) \/ Raises(w) \/ FinishStage(w)
        BY <4>2 DEF BeginStage, StageFails, Raises, FinishStage, rest, workVars
      <4>3. CASE Advance(w) \/ WorkflowFailed(w) \/ PersistCompletedRun(w)
        BY <4>3 DEF Advance, WorkflowFailed, PersistCompletedRun, rest, workVars
      <4> QED BY <1>3, <3>1, <4>1, <4>2, <4>3 DEF RunLocked
    <3>2. ASSUME NEW w \in Worker,
                 \/ Deliver(w) \/ Acquire(w) \/ CommitRecord(w) \/ Handle(w)
                 \/ Ack(w) \/ Crash(w) \/ Redeliver(w)
          PROVE  citations' = citations
      BY <3>2 DEF Deliver, Acquire, CommitRecord, Handle, Ack, Crash, Redeliver,
                  rest, workVars
    <3>3. ASSUME \/ Enqueue \/ EnqueueRaises \/ RejectRun \/ ApiCrash
                 \/ RequestCancellation \/ LockExpires \/ UNCHANGED vars
                 \/ \E d \in Decisions : DecidePublication(d)
          PROVE  citations' = citations
      BY <3>3 DEF vars, LockExpires, apiFrame, Enqueue, EnqueueRaises,
        RejectRun, ApiCrash, RequestCancellation, DecidePublication, workVars
    <3> QED BY <3>1, <3>2, <3>3 DEF Next, WorkerStep
  <2>2. ASSUME NEW stage \in Status, NEW type, PersistProgress(stage, type),
               stage # "COMPLETED"
        PROVE  status' # "COMPLETED"
    BY <2>2 DEF PersistProgress
  <2>3. \A w \in Worker : pc[w] = "commit" =>
          call[w].stage \in Status \ {"COMPLETED"}
    BY DEF WorkerInv, CallOK, TypeOK, Call
  <2>4. "FAILED" \in Status
    BY DEF Status, Terminal
  <2> QED
    BY <1>1, <2>1, <2>2, <2>3, <2>4
    DEF RowStep, rowVars, RequestCancellation, DecidePublication, PersistCompletedRun
<1> QED BY <1>2, <1>3

LEMMA CancelInvNext ==
  ASSUME IInv, LockInv, BusyInv, CancelInv, [Next]_vars
  PROVE  CancelInv'
<1> USE DEF IInv, CancelInv, CancelStopsBeforeNextStage
<1>1. /\ cancelRequested => cancelRequested'
      /\ startedAfterCancel \in Nat
  BY NextIsRowStep, CancelStable DEF TypeOK
<1>2. ASSUME NEW w \in Worker, CommitRecord(w)
      PROVE  CancelInv'
  <2>1. /\ ~BodyCall(w)'
        /\ \A v \in Worker \ {w} : pc'[v] = pc[v] /\ call'[v] = call[v]
    BY <1>2, CommittingCall, OthersRest DEF BusyInv, WorkerStep
  <2>2. \A v \in Worker : BodyCall(v)' => BodyCall(v)
    BY <2>1 DEF BodyCall
  <2>3. CASE startedAfterCancel' = startedAfterCancel
    BY <1>1, <2>2, <2>3
  <2>4. CASE /\ BodyCall(w) /\ cancelRequested
             /\ startedAfterCancel' = startedAfterCancel + 1
    <3>1. startedAfterCancel = 0
      BY <1>1, <2>4
    <3>2. InLockedRegion(w)
      BY <2>4 DEF BodyCall, InLockedRegion
    <3>3. \A v \in Worker : ~BodyCall(v)'
      BY <2>1, <3>2, OthersAreOut DEF BodyCall
    <3> QED BY <1>1, <2>4, <3>1, <3>3
  <2>5. \/ startedAfterCancel' = startedAfterCancel
        \/ /\ BodyCall(w) /\ cancelRequested
           /\ startedAfterCancel' = startedAfterCancel + 1
    BY <1>1, <1>2 DEF CommitRecord, BodyCall
  <2> QED BY <2>3, <2>4, <2>5
<1>3. ASSUME UNCHANGED startedAfterCancel,
             \A v \in Worker : BodyCall(v)' => BodyCall(v) \/ ~cancelRequested
      PROVE  CancelInv'
  BY <1>1, <1>3
<1>4. ASSUME NEW w \in Worker,
             Deliver(w) \/ WorkerStep(w) \/ Crash(w) \/ Redeliver(w),
             ~CommitRecord(w)
      PROVE  CancelInv'
  <2>1. UNCHANGED startedAfterCancel
    BY <1>4
    DEF WorkerStep, RunLocked, rest, workVars, Prepare, Validate, Precheck,
        Execute, BeginStage, StageSucceeds, StageFails, Raises, FinishStage, Advance,
        WorkflowFailed, PersistCompletedRun, Release, Deliver, Acquire, Handle,
        Ack, Crash, Redeliver
  <2>2. \A v \in Worker \ {w} : BodyCall(v)' => BodyCall(v)
    BY <1>4, OthersRest DEF BodyCall
  <2>3. BodyCall(w)' => BodyCall(w) \/ ~cancelRequested
    <3>1. CASE RunLocked(w) \/ Handle(w)
      BY <3>1, MovingCall DEF BusyInv
    <3>2. CASE Deliver(w) \/ Acquire(w)
      <4>1. {"acquire", "prepare", "ack", "handle"} \subseteq PC
        BY DEF PC
      <4>2. pc'[w] \in {"acquire", "prepare", "ack", "handle"}
        BY <3>2, <4>1, GotoEffect DEF Deliver, Acquire
      <4> QED BY <4>2 DEF BodyCall
    <3>3. CASE Ack(w) \/ Crash(w)
      <4>1. pc'[w] = "idle"
        BY <3>3 DEF Ack, Crash, Forget, TypeOK
      <4> QED BY <4>1 DEF BodyCall
    <3>4. CASE Redeliver(w)
      BY <3>4 DEF Redeliver, taskVars, BodyCall
    <3> QED BY <1>4, <3>1, <3>2, <3>3, <3>4 DEF WorkerStep
  <2> QED BY <1>3, <2>1, <2>2, <2>3
<1>5. CASE UNCHANGED <<pc, call, startedAfterCancel>>
  BY <1>3, <1>5 DEF BodyCall
<1> QED
  BY <1>2, <1>4, <1>5
  DEF Next, vars, taskVars, apiFrame, Enqueue, EnqueueRaises, RejectRun, ApiCrash,
      RequestCancellation, DecidePublication, LockExpires

------------------------------------------------------------------------------
(* Theorems *)

LEMMA OwnerInvariance ==
  ASSUME TimelyTasks
  PROVE  Spec => []OwnerInv
<1>1. Init => LockInv /\ BusyInv /\ ToldInv /\ CancelInv /\ CompletedStaysAudited
  <2> SUFFICES ASSUME Init
               PROVE  LockInv /\ BusyInv /\ ToldInv /\ CancelInv
                      /\ CompletedStaysAudited
    OBVIOUS
  <2>1. LockInv
    BY DEF Init, LockInv, OwnsItsLock, InLockedRegion
  <2>2. BusyInv
    BY DEF Init, BusyInv, BusyOK, CallOnce, Busy
  <2>3. DOMAIN log = {1} /\ log[1].type = <<"run", "queued">>
    BY DEF Init
  <2>4. ToldInv
    BY <2>3 DEF ToldInv, EventsRecordedOnce, Recorded
  <2>5. CancelInv /\ CompletedStaysAudited
    BY DEF Init, CancelInv, CancelStopsBeforeNextStage, CompletedStaysAudited
  <2> QED BY <2>1, <2>2, <2>4, <2>5
<1>2. IInv /\ OwnerInv /\ IInv' /\ [Next]_vars => OwnerInv'
  <2>1. IInv => TypeOK
    BY DEF IInv
  <2> QED
    BY <2>1, LockInvNext, BusyInvNext, NextIsRowStep, ToldInvStep, CancelInvNext,
       AuditedStays
    DEF OwnerInv
<1>3. IInv /\ LockInv /\ BusyInv /\ ToldInv /\ CancelInv /\ CompletedStaysAudited
        => OwnerInv
  BY DEF OwnerInv
<1> QED BY <1>1, <1>2, <1>3, Invariance, PTL DEF Spec

\* While every task ends within its hard time limit, no event of the run is
\* recorded twice: neither by a second delivery or a retry of verify_run, nor
\* by two of the API, the worker's exception handlers and the reviewer, each of
\* which looks at the row, not at the log, before it reports an ending.
THEOREM EventsOnce ==
  ASSUME TimelyTasks
  PROVE  Spec => []EventsRecordedOnce
<1>1. OwnerInv => EventsRecordedOnce
  BY DEF OwnerInv, ToldInv
<1> QED BY <1>1, OwnerInvariance, PTL

\* While every task ends within its hard time limit, a completed report keeps
\* the audited citations it was completed with, although the stage that saves
\* an audit takes no lock on the row and looks at no status.
THEOREM AuditIsKept ==
  ASSUME TimelyTasks
  PROVE  Spec => []CompletedStaysAudited
<1>1. OwnerInv => CompletedStaysAudited
  BY DEF OwnerInv
<1> QED BY <1>1, OwnerInvariance, PTL

\* While every task ends within its hard time limit, at most one stage begins
\* after a durable cancellation request, for any number of workers, deliveries
\* and retries: the one whose check had passed before.
THEOREM CancelStops ==
  ASSUME TimelyTasks
  PROVE  Spec => []CancelStopsBeforeNextStage
<1>1. OwnerInv => CancelStopsBeforeNextStage
  BY DEF OwnerInv, CancelInv
<1> QED BY <1>1, OwnerInvariance, PTL

\* A report is worked on by nobody once it is published, held or decided on:
\* the premise under which the stages may report progress at all.
ProgressIsUnreviewed ==
  \A w \in Worker :
    /\ pc[w] = "commit" /\ call[w].stage \notin Terminal
    /\ MayMove(status, call[w].stage)
    => publication = "unreviewed"

LEMMA OwnerProgress ==
  ASSUME OwnerInv
  PROVE  ProgressIsUnreviewed
<1> SUFFICES ASSUME NEW w \in Worker, pc[w] = "commit",
                    call[w].stage \notin Terminal, MayMove(status, call[w].stage)
             PROVE  publication = "unreviewed"
  BY DEF ProgressIsUnreviewed
<1>1. /\ BusyOK(w) /\ RowInv /\ publication \in Publication
      /\ status \in Status /\ status \notin Terminal
  BY DEF OwnerInv, BusyInv, IInv, TypeOK, MayMove
<1>2. CASE call[w].stage = "VALIDATING"
  <2>1. Rank("VALIDATING") = 1
    BY DEF Rank
  <2>2. status # "AUDITING"
    BY <1>2, <2>1, RankFacts DEF MayMove
  <2> QED BY <1>1, <2>2 DEF RowInv, Audited, Publication, Held, Terminal
<1>3. CASE call[w].stage # "VALIDATING"
  BY <1>1, <1>3 DEF BusyOK, CallOnce, Busy, Terminal
<1> QED BY <1>2, <1>3

LEMMA PlainProgress ==
  ASSUME ~Allegation, IInv
  PROVE  ProgressIsUnreviewed
BY DEF ProgressIsUnreviewed, IInv, RowInv, MayMove, Terminal

------------------------------------------------------------------------------
(* The refinement of RunContract *)

StagesOf(l) == [i \in DOMAIN l |-> l[i].stage]
Stages == StagesOf(log)

LEMMA StagesType ==
  ASSUME NEW l \in Seq(Event)
  PROVE  StagesOf(l) \in Seq(Status) /\ Len(StagesOf(l)) = Len(l)
<1>1. \A i \in 1..Len(l) : l[i] \in Event
  OBVIOUS
<1>2. \A i \in 1..Len(l) : l[i].stage \in Status
  BY <1>1 DEF Event
<1>3. StagesOf(l) = [i \in 1..Len(l) |-> l[i].stage]
  BY DEF StagesOf
<1>4. StagesOf(l) \in [1..Len(l) -> Status]
  BY <1>2, <1>3
<1>5. Len(l) \in Nat
  OBVIOUS
<1>6. DOMAIN StagesOf(l) = 1..Len(l) /\ StagesOf(l) \in Seq(Status)
  BY <1>4, <1>5
<1> QED BY <1>5, <1>6

\* The stage column of the log grows with the log.
LEMMA StagesAppend ==
  ASSUME log \in Seq(Event), log' \in Seq(Event),
         NEW stage \in Status, NEW type \in EventType, Append1(stage, type)
  PROVE  Stages' = Append(Stages, stage)
<1>1. /\ Len(log') = Len(log) + 1
      /\ log'[Len(log')].stage = stage
      /\ \A i \in DOMAIN log : log'[i] = log[i]
  BY AppendFacts
<1>2. /\ Stages \in Seq(Status) /\ Len(Stages) = Len(log)
      /\ Stages' \in Seq(Status) /\ Len(Stages') = Len(log')
  BY StagesType DEF Stages
<1>3. \A i \in 1..Len(log') : Stages'[i] = log'[i].stage
  BY DEF Stages, StagesOf
<1>4. \A i \in 1..Len(log) : Stages[i] = log[i].stage
  BY DEF Stages, StagesOf
<1>5. Append(Stages, stage) \in Seq(Status)
      /\ Len(Append(Stages, stage)) = Len(log')
  BY <1>1, <1>2
<1>6. ASSUME NEW i \in 1..Len(log') PROVE Stages'[i] = Append(Stages, stage)[i]
  <2>1. CASE i = Len(log')
    BY <1>1, <1>2, <1>3, <2>1
  <2>2. CASE i \in 1..Len(log)
    BY <1>1, <1>2, <1>3, <1>4, <2>2
  <2> QED BY <1>1, <1>2, <2>1, <2>2
<1> QED BY <1>2, <1>5, <1>6, SeqEqual

\* Where only unreviewed reports make progress, every transaction on the row is
\* a step of RunContract.
LEMMA RowStepRefines ==
  ASSUME ProgressIsUnreviewed, IInv, IInv', RowStep
  PROVE  [Contract!Next]_Contract!vars
<1> DEFINE Log(s) == Stages' = Append(Stages, s)
<1>1. /\ log \in Seq(Event) /\ log' \in Seq(Event)
      /\ status \in Status
  BY DEF IInv, TypeOK
<1>2. \A s \in Status : \A t \in EventType : Append1(s, t) => Log(s)
  BY <1>1, StagesAppend
<1>3. /\ {"FAILED", "COMPLETED", "CANCELLED", "AUDITING"} \subseteq Status
      /\ \A e \in {"failed", "completed", "cancelled", "cancellation_requested"} :
           <<"run", e>> \in EventType
  BY EventTypes DEF Status, Terminal
<1>4. /\ publication \in Publication
      /\ publication \in {"published", "approved"} => status = "COMPLETED"
  BY DEF IInv, RowInv, TypeOK
<1>5. CASE UNCHANGED rowVars
  BY <1>5 DEF rowVars, Contract!vars
<1>6. ASSUME NEW stage \in Status, NEW type \in EventType,
             PersistProgress(stage, type), stage # "COMPLETED",
             stage = "CANCELLED" => cancelRequested,
             stage \notin Terminal => publication = "unreviewed"
      PROVE  Contract!Next
  <2>1. Stages' = Append(Stages, stage)
    BY <1>2, <1>6 DEF PersistProgress
  <2>2. status \notin Terminal
    BY <1>6 DEF PersistProgress, MayMove
  <2>3. UNCHANGED <<cancelRequested, publication>>
    BY <1>6 DEF PersistProgress, IInv, TypeOK
  <2>4. CASE stage \notin Terminal
    <3>1. Contract!Progress(stage)
      BY <1>6, <2>1, <2>2, <2>3, <2>4
      DEF PersistProgress, Contract!Progress, Contract!Log, Stages, StagesOf,
          Contract!Terminal, Terminal, Contract!MayMove, MayMove,
          Contract!Rank, Rank
    <3> QED BY <3>1 DEF Contract!Next, Contract!Status, Status,
                        Contract!Terminal, Terminal
  <2>5. CASE stage = "FAILED"
    BY <1>6, <2>1, <2>2, <2>3, <2>5
    DEF PersistProgress, Contract!Next, Contract!Fail, Contract!Log, Stages, StagesOf,
        Contract!Terminal, Terminal
  <2>6. CASE stage = "CANCELLED"
    BY <1>6, <2>1, <2>2, <2>3, <2>6
    DEF PersistProgress, Contract!Next, Contract!Cancel, Contract!Log, Stages, StagesOf,
        Contract!Terminal, Terminal
  <2> QED BY <1>6, <2>4, <2>5, <2>6 DEF Terminal
<1>7. CASE \E w \in Worker : /\ pc[w] = "commit"
                            /\ PersistProgress(call[w].stage, call[w].type)
  <2>1. PICK w \in Worker : /\ pc[w] = "commit"
                            /\ PersistProgress(call[w].stage, call[w].type)
    BY <1>7
  <2>2. /\ call[w].stage \in Status \ {"COMPLETED"}
        /\ call[w].type \in EventType
        /\ call[w].stage = "CANCELLED" => cancelRequested
        /\ call[w].stage \notin Terminal => publication = "unreviewed"
    BY <2>1 DEF IInv, TypeOK, Call, WorkerInv, CallOK, PersistProgress,
                ProgressIsUnreviewed
  <2> QED BY <1>6, <2>1, <2>2
<1>8. CASE PersistProgress("FAILED", <<"run", "failed">>)
  BY <1>3, <1>6, <1>8 DEF Terminal
<1>9. CASE RequestCancellation
  <2>1. Stages' = Append(Stages, status')
    BY <1>1, <1>2, <1>3, <1>9 DEF RequestCancellation
  <2> QED BY <1>9, <2>1
          DEF RequestCancellation, Contract!Next, Contract!RequestCancel,
              Contract!Log, Stages, StagesOf, Contract!Terminal, Terminal
<1>10. CASE \E d \in Decisions : DecidePublication(d)
  <2>1. PICK d \in Decisions : DecidePublication(d)
    BY <1>10
  <2>2. /\ publication = "review_required" /\ publication' = d
        /\ UNCHANGED cancelRequested
    BY <2>1 DEF DecidePublication
  <2>3. CASE d = "approved"
    <3>1. status' = "COMPLETED" /\ Stages' = Append(Stages, "COMPLETED")
      BY <1>2, <1>3, <2>1, <2>3 DEF DecidePublication, Approves
    <3>2. Contract!Decide("approved")
      BY <2>2, <2>3, <3>1 DEF Contract!Decide, Contract!Log, Stages, StagesOf
    <3> QED BY <3>2 DEF Contract!Next
  <2>4. CASE d \in {"rejected", "revision_required"}
    <3>1. status' = status /\ Stages' = Append(Stages, status)
      BY <1>1, <1>2, EventTypes, <2>1, <2>4 DEF DecidePublication, Approves, Publication
    <3>2. Contract!Decide(d)
      BY <2>2, <2>4, <3>1 DEF Contract!Decide, Contract!Log, Stages, StagesOf
    <3> QED BY <2>4, <3>2 DEF Contract!Next
  <2> QED BY <2>3, <2>4 DEF Decisions
<1>11. CASE \E w \in Worker : /\ PersistCompletedRun(w)
                             /\ ~CompletionBlocked
                             /\ citations = "passed"
  <2>1. PICK w \in Worker : PersistCompletedRun(w) /\ ~CompletionBlocked
                            /\ citations = "passed"
    BY <1>11
  <2>2. /\ status = "AUDITING" /\ ~cancelRequested /\ publication = "unreviewed"
    BY <1>4, <2>1 DEF PersistCompletedRun, CompletionBlocked, Terminal, IInv,
                      WorkerInv, AuditOK, Audited, Publication, Held
  <2>3. CASE ~Allegation
    <3>1. /\ publication' = "published" /\ status' = "COMPLETED"
          /\ UNCHANGED cancelRequested
          /\ Stages' = Append(Stages, "COMPLETED")
      BY <1>2, <1>3, <2>1, <2>3 DEF PersistCompletedRun
    <3> QED BY <2>2, <2>3, <3>1
            DEF Contract!Next, Contract!Complete, Contract!Log, Stages, StagesOf
  <2>4. CASE Allegation
    <3>0. <<"publication", "review_required">> \in EventType
      BY EventTypes DEF Publication
    <3>1. /\ publication' = "review_required" /\ UNCHANGED <<status, cancelRequested>>
          /\ Stages' = Append(Stages, "AUDITING")
      BY <1>2, <1>3, <2>1, <2>4, <3>0 DEF PersistCompletedRun
    <3> QED BY <2>2, <2>4, <3>1
            DEF Contract!Next, Contract!Hold, Contract!Log, Stages, StagesOf
  <2> QED BY <2>3, <2>4
<1> QED BY <1>5, <1>7, <1>8, <1>9, <1>10, <1>11 DEF RowStep

\* The whole system - API, broker, workers that crash, outlive their lock or
\* share a run - implements the contract of the durable run, with an allegation
\* and its reviewer as long as tasks are timely, without one whatever happens.  The
\* contract grants the approval of a held report to leave a terminal status.
THEOREM Refinement ==
  ASSUME TimelyTasks \/ ~Allegation
  PROVE  Spec => ImplementsContract
<1>1. Init => Contract!Init
  <2> SUFFICES ASSUME Init PROVE Contract!Init
    OBVIOUS
  <2>1. /\ log \in Seq(Event) /\ Len(log) = 1 /\ log[1].stage = "QUEUED"
    <3>1. TypeOK
      BY InitTypeOK
    <3> QED BY <3>1 DEF Init, TypeOK
  <2>2. Stages \in Seq(Status) /\ Len(Stages) = 1
    BY <2>1, StagesType DEF Stages
  <2>3. Stages[1] = "QUEUED"
    BY <2>1 DEF Stages, StagesOf
  <2>4. Stages = <<"QUEUED">>
    BY <2>2, <2>3
  <2> QED BY <2>4 DEF Init, Contract!Init, Stages, StagesOf
<1>2. IInv /\ IInv' /\ ProgressIsUnreviewed /\ [Next]_vars
        => [Contract!Next]_Contract!vars
  BY NextIsRowStep, RowStepRefines
<1>3. CASE TimelyTasks
  <2>1. OwnerInv => ProgressIsUnreviewed
    BY OwnerProgress
  <2> QED BY <1>1, <1>2, <1>3, <2>1, Invariance, OwnerInvariance, PTL
          DEF Spec, ImplementsContract, Contract!Spec
<1>4. CASE ~Allegation
  <2>1. IInv => ProgressIsUnreviewed
    BY <1>4, PlainProgress
  <2> QED BY <1>1, <1>2, <2>1, Invariance, PTL
          DEF Spec, ImplementsContract, Contract!Spec
<1> QED BY <1>3, <1>4
=============================================================================
