--------------------------- MODULE ProgressStream ---------------------------
(***************************************************************************)
(* The mirror of a run's events: every event commits in PostgreSQL and is  *)
(* then copied to the Redis stream of the run, by the worker, which copies *)
(* the whole log in order, or by the API, which copies its own event.      *)
(*                                                                         *)
(* An event is its place in the log, which is also its id in the stream.   *)
(* A run has fewer events than the stream may keep (each type is recorded  *)
(* once), so the stream is never trimmed; its key expires when no mirror   *)
(* has touched it for a day.                                               *)
(***************************************************************************)
EXTENDS RunStatus, Sequences

CONSTANTS
  Worker,     \* worker processes
  Api,        \* the request that creates the run
  Owner,      \* the owner's request to cancel it
  Requests,   \* bound: the API transactions that happen, "cancel" and "decide";
              \* the enqueueing that raises, "refuse" if the broker has no message
              \* then, "reject" if it may have one
  Stages,     \* bound: the statuses workers report
  MaxEvents   \* bound on the log

Process == Worker \union {Api, Owner}

ASSUME ProgressStreamAssumption ==
  /\ Api # Owner
  /\ Worker \intersect {Api, Owner} = {}
  /\ Requests \subseteq {"cancel", "decide", "refuse", "reject"}
  /\ Stages \subseteq Status
  /\ MaxEvents \in Nat \ {0}

VARIABLES
  \* PostgreSQL
  status, publication, cancelRequested,
  log,      \* agent_events in sequence order
  \* Redis
  stream,   \* the events in the stream
  top,      \* its last generated id, 0 when the key is absent
  \* writers
  stamp,    \* the time a writer took before it waits for the row; 0: none
  job,      \* the events a process has still to mirror: next..last
  api,      \* "create" | "reject" | "done"
  queued    \* a message names the run

row == <<status, publication, cancelRequested, log>>
redis == <<stream, top>>
writers == <<stamp, job, api, queued>>
streamVars == <<row, redis, writers>>

------------------------------------------------------------------------------
\* kind: "own" for the events their API request mirrors itself, "held" for the
\* one that hands the report to governance.
Event == [stage : Status, kind : {"progress", "held", "own"}, at : Nat]

NoJob == [next |-> 1, last |-> 0]
Busy(p) == job[p].next <= job[p].last

Init ==
  /\ status = "QUEUED"
  /\ publication = "unreviewed"
  /\ cancelRequested = FALSE
  /\ log = <<[stage |-> "QUEUED", kind |-> "own", at |-> 3]>>
  /\ stream = {}
  /\ top = 0
  /\ stamp = [p \in Process |-> 0]
  /\ job = [p \in Process |-> IF p = Api THEN [next |-> 1, last |-> 1] ELSE NoJob]
  /\ api = "create"
  /\ queued = FALSE

------------------------------------------------------------------------------
(* Transactions on the row *)

Room == Len(log) < MaxEvents

AppendEvent(stage, kind, time) ==
  log' = Append(log, [stage |-> stage, kind |-> kind, at |-> time])

\* Times, in order only: an event stamped under the row lock as the k-th has 3k,
\* and of two times taken before that either may be the earlier one.
Now == 3 * Len(log)

\* utc_now() is taken before the row lock is waited for.
TakeTime(p) ==
  /\ stamp[p] = 0
  /\ ~Busy(p)
  /\ \/ p \in Worker /\ queued
     \/ p = Api /\ api = "reject"
  /\ Room
  /\ \E time \in {Now + 1} \union {Now + 2 : q \in {r \in Process : stamp[r] > Now}} :
       stamp' = [stamp EXCEPT ![p] = time]
  /\ UNCHANGED <<row, redis, job, api, queued>>

\* persist_progress
PersistProgress(p, stage, kind) ==
  /\ stamp[p] # 0
  /\ Room
  /\ MayMove(status, stage)
  /\ status' = stage
  /\ cancelRequested' = (cancelRequested \/ stage = "CANCELLED")
  /\ AppendEvent(stage, kind, stamp[p])
  /\ stamp' = [stamp EXCEPT ![p] = 0]
  /\ UNCHANGED publication

\* The worker leaves a held report alone (NothingToDo of VerificationTask)
\* and cancels only on request.
WorkerProgress(w, stage) ==
  /\ stage = "CANCELLED" => cancelRequested
  /\ publication \in Held => stage \in {"FAILED", "CANCELLED"}
  /\ PersistProgress(w, stage, "progress")
  /\ UNCHANGED <<redis, job, api, queued>>

\* persist_completed_run, whose gate only an audited run passes.
PersistCompleted(w) ==
  /\ stamp[w] # 0
  /\ Room
  /\ status = "AUDITING"
  /\ publication \notin Held
  /\ ~cancelRequested
  /\ \/ /\ publication' = "review_required"
        /\ AppendEvent("AUDITING", "held", stamp[w])
        /\ UNCHANGED status
     \/ /\ publication' = "published"
        /\ status' = "COMPLETED"
        /\ AppendEvent("COMPLETED", "progress", stamp[w])
  /\ stamp' = [stamp EXCEPT ![w] = 0]
  /\ UNCHANGED <<cancelRequested, redis, job, api, queued>>

\* The transition is refused, or the process fails before its commit.
GiveUp(p) ==
  /\ stamp[p] # 0
  /\ stamp' = [stamp EXCEPT ![p] = 0]
  /\ api' = IF p = Api THEN "done" ELSE api
  /\ UNCHANGED <<row, redis, job, queued>>

\* The API mirrors the event of its own transaction, and only that one.
MirrorOwn(p) ==
  job' = [job EXCEPT ![p] = [next |-> Len(log) + 1, last |-> Len(log) + 1]]

\* dispatcher.enqueue, after the mirror of the first event: it succeeds, it
\* raises, or the broker took the message and its reply was lost.
Enqueue ==
  /\ api = "create"
  /\ ~Busy(Api)
  /\ \/ api' = "done"   /\ queued' = TRUE
     \/ /\ Requests \intersect {"refuse", "reject"} # {}
        /\ api' = "reject"
        /\ queued' \in {FALSE, "reject" \in Requests}
  /\ UNCHANGED <<row, redis, stamp, job>>

RejectRun ==
  /\ api = "reject"
  /\ PersistProgress(Api, "FAILED", "own")
  /\ api' = "done"
  /\ MirrorOwn(Api)
  /\ UNCHANGED <<redis, queued>>

\* request_run_cancellation; its time is taken under the row lock.
Cancel ==
  /\ "cancel" \in Requests
  /\ status \notin Terminal
  /\ ~cancelRequested
  /\ Room
  /\ cancelRequested' = TRUE
  /\ status' = IF status = "QUEUED" THEN "CANCELLED" ELSE status
  /\ AppendEvent(status', "own", Now + 3)
  /\ MirrorOwn(Owner)
  /\ UNCHANGED <<publication, redis, stamp, api, queued>>

\* decide_publication: nobody mirrors its event, until a later backfill does.
Decide ==
  /\ "decide" \in Requests
  /\ publication = "review_required"
  /\ Room
  /\ publication' \in {"approved", "rejected", "revision_required"}
  /\ status' = IF publication' = "approved" THEN "COMPLETED" ELSE status
  /\ AppendEvent(status', "progress", Now + 3)
  /\ UNCHANGED <<cancelRequested, redis, stamp, job, api, queued>>

------------------------------------------------------------------------------
(* The mirror *)

WholeLog == Len(log)

\* _backfill_progress reads the whole log: after a commit, for an event that is
\* already durable, and when a delivery begins.
Backfill(w) ==
  /\ queued
  /\ stamp[w] = 0
  /\ ~Busy(w)
  /\ job' = [job EXCEPT ![w] = [next |-> 1, last |-> WholeLog]]
  /\ UNCHANGED <<row, redis, stamp, api, queued>>

\* publish_progress_event: XADD refuses an id that is not above the top one,
\* and the refusal is taken for success.
Mirror(p) ==
  LET id == job[p].next IN
  /\ Busy(p)
  /\ stream' = IF id > top THEN stream \union {id} ELSE stream
  /\ top' = IF id > top THEN id ELSE top
  /\ job' = [job EXCEPT ![p].next = id + 1]
  /\ UNCHANGED <<row, stamp, api, queued>>

\* Faulty variant of AfterError: a failed event is left out.
SkipEvent(p) == [job[p] EXCEPT !.next = @ + 1]

\* The loop ends at the first event Redis does not take.
AfterError(p) == NoJob

MirrorFails(p) ==
  /\ Busy(p)
  /\ job' = [job EXCEPT ![p] = AfterError(p)]
  /\ UNCHANGED <<row, redis, stamp, api, queued>>

\* The key expires; every mirror renews its TTL.
Expire ==
  /\ top # 0
  /\ \A p \in Process : ~Busy(p)
  /\ stream' = {}
  /\ top' = 0
  /\ UNCHANGED <<row, writers>>

------------------------------------------------------------------------------
Next ==
  \/ \E p \in Process : TakeTime(p) \/ GiveUp(p) \/ Mirror(p) \/ MirrorFails(p)
  \/ \E w \in Worker :
       \/ \E stage \in Stages : WorkerProgress(w, stage)
       \/ PersistCompleted(w) \/ Backfill(w)
  \/ Enqueue \/ RejectRun \/ Cancel \/ Decide \/ Expire

Spec == Init /\ [][Next]_streamVars

------------------------------------------------------------------------------
(* Properties *)

\* Log, stream, times and loops keep their types; a loop never leaves the log.
TypeOK ==
  /\ status \in Status
  /\ publication \in Publication
  /\ cancelRequested \in BOOLEAN
  /\ log \in Seq(Event)
  /\ stream \subseteq DOMAIN log
  /\ top \in 0..Len(log)
  /\ stamp \in [Process -> Nat]
  /\ job \in [Process -> [next : Nat \ {0}, last : 0..Len(log)]]
  /\ api \in {"create", "reject", "done"}
  /\ queued \in BOOLEAN

\* Two workers' backfills, failures of Redis and expiries of the key never let a
\* worker's event into the stream before the one it follows in the log: only an
\* event that an API request mirrors itself can overtake others.
OnlyOwnEventsOvertake ==
  \A i \in stream : i = 1 \/ i - 1 \in stream \/ log[i].kind = "own"

\* What verification.py:143-144 promises: no outage leaves a permanent hole in
\* the stream before a later event.
NoPermanentHole == \A i \in stream : 1..i \subseteq stream
==============================================================================
