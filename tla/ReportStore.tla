----------------------------- MODULE ReportStore -----------------------------
(***************************************************************************)
(* What one owner keeps in the system - uploads, runs, exports and source  *)
(* snapshots - and the requests and the retention job that create and      *)
(* remove them.  Every one of them lives twice, as a row of PostgreSQL and *)
(* as a private object of the object storage, and no transaction spans the *)
(* two: a request writes one, then the other, and compensates when it can. *)
(*                                                                         *)
(* A step is one transaction or one call of the object storage.            *)
(***************************************************************************)
EXTENDS FiniteSets, Naturals

CONSTANTS
  Request,    \* concurrent API requests of the owner
  Sweeper,    \* the scheduled cleanup_retention task
  Run, Upload, Export,
  Row,        \* ids of source_snapshots rows, a new one for every fetch
  Content,    \* what a source may hold: a snapshot's key is its hash
  None,
  MaxActive,  \* usage_limits["max_active_runs"]
  Fetching,   \* bound: the runs that get as far as their sources
  MaxFaults   \* bound: storage errors, failed commits, lost replies and crashes

Process == Request \union {Sweeper}
Object  == Upload \union Export \union Content

ASSUME ReportStoreAssumption ==
  /\ Sweeper \notin Request
  /\ None \notin Run \union Upload \union Export \union Row \union Content
  /\ Upload \intersect Export = {} /\ Row \intersect Export = {}
  /\ Content \intersect (Upload \union Export) = {}
  /\ IsFiniteSet(Request) /\ IsFiniteSet(Run)
  /\ MaxActive \in Nat \ {0}
  /\ Fetching \subseteq Run
  /\ MaxFaults \in Nat

VARIABLES
  objects,   \* keys present in the object storage
  uploads,   \* rows of uploads
  runs,      \* rows of verification_runs
  exports,   \* rows of exports: the run of each, or None
  rows,      \* rows of source_snapshots: the content of each, or None
  aged,      \* those older than orphan_snapshot_retention_days
  source,    \* run_sources.snapshot_id of each run
  fetched,   \* content a run's worker has fetched and not yet saved
  req,       \* what each process is doing
  faults,
  unanswered,\* exports whose commit succeeded and whose reply was lost
  late       \* exports committed after the deletion of their report began

storeVars == <<objects, uploads, runs, exports, rows, aged, source, fetched>>
history == <<unanswered, late>>
vars == <<storeVars, req, faults, history>>

\* What a process is at: its operation, one thing and the run it is about, or a
\* list of things to do and done.
Holds(op, arg, run, todo, did) ==
  [op |-> op, arg |-> arg, run |-> run, todo |-> todo, did |-> did]
Idle == Holds("idle", None, None, {}, {})

NoUpload == [saved |-> FALSE, expired |-> FALSE, claimed |-> FALSE, gone |-> FALSE]
NoRun == [status |-> "none", deletion |-> "none", deleted |-> FALSE,
          upload |-> None, retry |-> FALSE]

Ended == {"completed", "failed"}

Init ==
  /\ objects = {}
  /\ uploads = [u \in Upload |-> NoUpload]
  /\ runs = [r \in Run |-> NoRun]
  /\ exports = [e \in Export |-> None]
  /\ rows = [s \in Row |-> None]
  /\ aged = {}
  /\ source = [r \in Run |-> None]
  /\ fetched = [r \in Run |-> None]
  /\ req = [p \in Process |-> Idle]
  /\ faults = 0
  /\ unanswered = {}
  /\ late = {}

\* A process goes on with one thing, or through a list of them.
Become(p, op, arg, run) == req' = [req EXCEPT ![p] = Holds(op, arg, run, {}, {})]
WorkOff(p, op, run, todo) == req' = [req EXCEPT ![p] = Holds(op, None, run, todo, {})]
After(q, x) == Holds(q.op, None, q.run, q.todo \ {x}, q.did \union {x})
Did(p, x) == req' = [req EXCEPT ![p] = After(req[p], x)]
Done(p) == req' = [req EXCEPT ![p] = Idle]

\* Something fails; only so often.
Fault == faults < MaxFaults /\ faults' = faults + 1
NoFault == UNCHANGED faults

\* put_private_object and delete_object; a call that raises may have worked.
Put(key)  == objects' = objects \union {key}
Drop(key) == objects' = objects \ {key}

------------------------------------------------------------------------------
(* POST /v1/uploads: the object first, then its row *)

\* Ids are drawn at random: one that a process still holds is not drawn again.
InUse(id) ==
  \E p \in Process : req[p].arg = id \/ id \in req[p].todo \union req[p].did

PutUpload(p) ==
  \E u \in Upload :
    /\ req[p].op = "idle" /\ p # Sweeper
    /\ ~uploads[u].saved /\ u \notin objects /\ ~InUse(u)
    /\ \/ Put(u) /\ NoFault /\ Become(p, "saveUpload", u, None)
       \/ (Put(u) \/ UNCHANGED objects) /\ Fault /\ Done(p)
    /\ UNCHANGED <<uploads, runs, exports, rows, aged, source, fetched, history>>

SaveUpload(p) ==
  LET u == req[p].arg IN
  /\ req[p].op = "saveUpload"
  /\ \/ /\ uploads' = [uploads EXCEPT ![u].saved = TRUE]
        /\ NoFault /\ Done(p)
     \/ /\ Fault /\ UNCHANGED uploads
        /\ Become(p, "undo", u, None)
  /\ UNCHANGED <<objects, runs, exports, rows, aged, source, fetched, history>>

\* The row was not committed: its object is removed, or that fails too and is
\* only logged.
Undo(p) ==
  /\ req[p].op = "undo"
  /\ \/ Drop(req[p].arg) /\ NoFault
     \/ UNCHANGED objects /\ Fault
  /\ Done(p)
  /\ UNCHANGED <<uploads, runs, exports, rows, aged, source, fetched, history>>

\* expires_at passes.
Expires(u) ==
  /\ uploads[u].saved /\ ~uploads[u].expired
  /\ uploads' = [uploads EXCEPT ![u].expired = TRUE]
  /\ UNCHANGED <<objects, runs, exports, rows, aged, source, fetched, req, faults,
                 history>>

------------------------------------------------------------------------------
(* Admission: create_queued_verification and create_retry_verification *)

Active == {r \in Run : runs[r].status = "active" /\ ~runs[r].deleted}

\* Faulty variant of BelowLimit: the limit itself is let through.
AtMostLimit == Cardinality(Active) <= MaxActive

\* enforce_verification_limits
BelowLimit == Cardinality(Active) < MaxActive

\* Both requests read before they write: the run to be retried, and the count.
Admit(p) ==
  /\ req[p].op = "idle" /\ p # Sweeper
  /\ BelowLimit
  /\ \/ \E u \in Upload \union {None} : Become(p, "insertRun", u, None)
     \/ \E r \in Run :
          /\ runs[r].status = "failed" /\ ~runs[r].deleted
          /\ Become(p, "insertRun", runs[r].upload, r)
  /\ UNCHANGED <<storeVars, faults, history>>

\* Faulty variant of Claimable: only the row's existence is looked at.
ClaimableTwice(u) == uploads[u].saved

\* The SELECT ... FOR UPDATE of an upload: neither deleted_at nor expires_at.
Claimable(u) == uploads[u].saved /\ ~uploads[u].claimed

\* One transaction: the upload is claimed, unless this is a retry, and the run
\* inserted; or the upload is not found, or the commit fails.
InsertRun(p) ==
  LET u == req[p].arg
      claims == u # None /\ req[p].run = None IN
  /\ req[p].op = "insertRun"
  /\ Done(p)
  /\ \/ /\ claims => Claimable(u)
        /\ \E r \in Run :
             /\ runs[r].status = "none"
             /\ runs' = [runs EXCEPT ![r] = [NoRun EXCEPT
                           !.status = "active", !.upload = u,
                           !.retry = req[p].run # None]]
        /\ uploads' = IF claims THEN [uploads EXCEPT ![u].claimed = TRUE] ELSE uploads
        /\ NoFault
     \/ /\ claims /\ ~Claimable(u)
        /\ NoFault /\ UNCHANGED <<runs, uploads>>
     \/ Fault /\ UNCHANGED <<runs, uploads>>
  /\ UNCHANGED <<objects, exports, rows, aged, source, fetched, history>>

------------------------------------------------------------------------------
(* The worker of a run, as far as the store sees it *)

\* The fetcher writes the snapshot under its content hash, or finds it there.
Fetch(r) ==
  \E c \in Content :
    /\ r \in Fetching
    /\ runs[r].status = "active" /\ fetched[r] = None
    /\ Put(c)
    /\ fetched' = [fetched EXCEPT ![r] = c]
    /\ UNCHANGED <<uploads, runs, exports, rows, aged, source, req, faults, history>>

\* _persist_sources: a new row, and the run's source points to it.  A second
\* execution fetches again and leaves the first row behind.
PersistSources(r) ==
  \E s \in Row :
    /\ runs[r].status = "active" /\ fetched[r] # None
    /\ rows[s] = None
    /\ rows' = [rows EXCEPT ![s] = fetched[r]]
    /\ source' = [source EXCEPT ![r] = s]
    /\ fetched' = [fetched EXCEPT ![r] = None]
    /\ UNCHANGED <<objects, uploads, runs, exports, aged, req, faults, history>>

\* The run completes with its sources, or ends without a report.
EndRun(r) ==
  /\ runs[r].status = "active"
  /\ \E how \in Ended :
       /\ how = "completed" => source[r] # None
       /\ runs' = [runs EXCEPT ![r].status = how]
  /\ fetched' = [fetched EXCEPT ![r] = None]
  /\ UNCHANGED <<objects, uploads, exports, rows, aged, source, req, faults, history>>

Age(s) ==
  /\ rows[s] # None /\ s \notin aged
  /\ aged' = aged \union {s}
  /\ UNCHANGED <<objects, uploads, runs, exports, rows, source, fetched, req, faults,
                 history>>

------------------------------------------------------------------------------
(* create_json_export: a flushed row, its object, then the commit *)

StartExport(p) ==
  \E r \in Run, e \in Export :
    /\ req[p].op = "idle" /\ p # Sweeper
    /\ runs[r].status = "completed" /\ ~runs[r].deleted
    /\ exports[e] = None /\ e \notin objects /\ ~InUse(e)
    /\ Become(p, "putExport", e, r)
    /\ UNCHANGED <<storeVars, faults, history>>

\* A put that raises is rolled back without a compensation.
PutExport(p) ==
  /\ req[p].op = "putExport"
  /\ \/ Put(req[p].arg) /\ NoFault
        /\ Become(p, "saveExport", req[p].arg, req[p].run)
     \/ (Put(req[p].arg) \/ UNCHANGED objects) /\ Fault /\ Done(p)
  /\ UNCHANGED <<uploads, runs, exports, rows, aged, source, fetched, history>>

\* The commit succeeds; or fails; or succeeds and its reply is lost, which the
\* request takes for a failure.
SaveExport(p) ==
  LET e == req[p].arg
      Saved == /\ exports' = [exports EXCEPT ![e] = req[p].run]
               /\ late' = IF runs[req[p].run].deletion = "none"
                            THEN late ELSE late \union {e} IN
  /\ req[p].op = "saveExport"
  /\ \/ Saved /\ NoFault /\ Done(p) /\ UNCHANGED unanswered
     \/ /\ Fault
        /\ Become(p, "undo", e, None)
        /\ \/ UNCHANGED <<exports, history>>
           \/ Saved /\ unanswered' = unanswered \union {e}
  /\ UNCHANGED <<objects, uploads, runs, rows, aged, source, fetched>>

------------------------------------------------------------------------------
(* delete_report: a first commit, the objects one by one, a second commit *)

\* Faulty variant of Processing: the deletion is not announced.
NotAnnounced(r) == runs

Processing(r) == [runs EXCEPT ![r].deletion = "processing"]

Deletable(r) == runs[r].status \in Ended /\ ~runs[r].deleted

RequestDeletion(p) ==
  \E r \in Run :
    /\ req[p].op = "idle" /\ p # Sweeper
    /\ Deletable(r)
    /\ runs' = Processing(r)
    /\ Become(p, "listExports", None, r)
    /\ UNCHANGED <<objects, uploads, exports, rows, aged, source, fetched, faults,
                   history>>

\* Faulty variant of Listed: what is not in the storage needs no deletion.
ListedIfStored(r) == {e \in objects \intersect Export : exports[e] = r}

Listed(r) == {e \in Export : exports[e] = r}

ListExports(p) ==
  /\ req[p].op = "listExports"
  /\ WorkOff(p, "deleteReport", req[p].run, Listed(req[p].run))
  /\ UNCHANGED <<storeVars, faults, history>>

\* An error of the storage rolls the rows back; the objects stay away.
DeleteExport(p) ==
  \E e \in req[p].todo :
    /\ req[p].op = "deleteReport"
    /\ \/ Drop(e) /\ NoFault /\ Did(p, e)
       \/ (Drop(e) \/ UNCHANGED objects) /\ Fault /\ Done(p)
    /\ UNCHANGED <<uploads, runs, exports, rows, aged, source, fetched, history>>

Erased(r) == [runs EXCEPT ![r] = [@ EXCEPT !.deletion = "completed", !.deleted = TRUE]]

FinishDeletion(p) ==
  /\ req[p].op = "deleteReport"
  /\ req[p].todo = {}
  /\ \/ /\ exports' = [e \in Export |-> IF e \in req[p].did THEN None ELSE exports[e]]
        /\ runs' = Erased(req[p].run)
        /\ NoFault
     \/ Fault /\ UNCHANGED <<exports, runs>>
  /\ Done(p)
  /\ UNCHANGED <<objects, uploads, rows, aged, source, fetched, history>>

------------------------------------------------------------------------------
(* cleanup_retention *)

Expired == {u \in Upload : uploads[u].saved /\ uploads[u].expired
                           /\ ~uploads[u].claimed /\ ~uploads[u].gone}

\* Rows no run refers to, past the retention time.
Orphans == {s \in aged : rows[s] # None /\ \A r \in Run : source[r] # s}

\* The task takes the uploads first.
SelectUploads ==
  /\ req[Sweeper].op = "idle"
  /\ Expired # {} \/ Orphans # {}
  /\ WorkOff(Sweeper, "sweepUploads", None, Expired)
  /\ UNCHANGED <<storeVars, faults, history>>

Marked(set) == [u \in Upload |-> IF u \in set THEN [uploads[u] EXCEPT !.gone = TRUE]
                                              ELSE uploads[u]]

\* Faulty variant of AfterSweepError: what was selected stays marked.
MarkedAnyway == Marked(req[Sweeper].todo \union req[Sweeper].did)

\* A storage error ends the task before its commit.
AfterSweepError == uploads

SweepUpload ==
  /\ req[Sweeper].op = "sweepUploads"
  /\ \E u \in req[Sweeper].todo :
       \/ Drop(u) /\ NoFault /\ Did(Sweeper, u) /\ UNCHANGED uploads
       \/ /\ Drop(u) \/ UNCHANGED objects
          /\ Fault /\ Done(Sweeper)
          /\ uploads' = AfterSweepError
  /\ UNCHANGED <<runs, exports, rows, aged, source, fetched, history>>

\* deleted_at of all of them commits together, and the task goes on.
CommitUploads ==
  /\ req[Sweeper].op = "sweepUploads"
  /\ req[Sweeper].todo = {}
  /\ \/ /\ uploads' = Marked(req[Sweeper].did)
        /\ NoFault /\ Become(Sweeper, "selectRows", None, None)
     \/ Fault /\ UNCHANGED uploads /\ Done(Sweeper)
  /\ UNCHANGED <<objects, runs, exports, rows, aged, source, fetched, history>>

\* SELECT ... FOR UPDATE: nobody can refer to a selected row any more.
SelectRows ==
  /\ req[Sweeper].op = "selectRows"
  /\ WorkOff(Sweeper, "sweepRows", None, Orphans)
  /\ UNCHANGED <<storeVars, faults, history>>

\* The object of an orphan row goes, whoever else refers to the same content.
SweepRow ==
  /\ req[Sweeper].op = "sweepRows"
  /\ \E s \in req[Sweeper].todo :
       \/ Drop(rows[s]) /\ NoFault /\ Did(Sweeper, s)
       \/ (Drop(rows[s]) \/ UNCHANGED objects) /\ Fault /\ Done(Sweeper)
  /\ UNCHANGED <<uploads, runs, exports, rows, aged, source, fetched, history>>

Removed(done) ==
  /\ rows' = [s \in Row |-> IF s \in done THEN None ELSE rows[s]]
  /\ aged' = aged \ done

CommitRows ==
  /\ req[Sweeper].op = "sweepRows"
  /\ req[Sweeper].todo = {}
  /\ \/ Removed(req[Sweeper].did) /\ NoFault
     \/ Fault /\ UNCHANGED <<rows, aged>>
  /\ Done(Sweeper)
  /\ UNCHANGED <<objects, uploads, runs, exports, source, fetched, history>>

\* A process dies between two steps; its transaction is rolled back.
Crash(p) ==
  /\ req[p].op # "idle"
  /\ Fault
  /\ Done(p)
  /\ UNCHANGED <<storeVars, history>>

------------------------------------------------------------------------------
Serve(p) ==
  \/ PutUpload(p) \/ SaveUpload(p) \/ Undo(p)
  \/ Admit(p) \/ InsertRun(p)
  \/ StartExport(p) \/ PutExport(p) \/ SaveExport(p)
  \/ RequestDeletion(p) \/ ListExports(p) \/ DeleteExport(p) \/ FinishDeletion(p)

Sweep ==
  \/ SelectUploads \/ SweepUpload \/ CommitUploads
  \/ SelectRows \/ SweepRow \/ CommitRows

Work(r) == Fetch(r) \/ PersistSources(r) \/ EndRun(r)

Next ==
  \/ \E p \in Request : Serve(p)
  \/ Sweep
  \/ \E r \in Run : Work(r)
  \/ \E u \in Upload : Expires(u)
  \/ \E s \in Row : Age(s)
  \/ \E p \in Process : Crash(p)

Spec == Init /\ [][Next]_vars

------------------------------------------------------------------------------
(* Properties *)

\* Rows, objects and the operations in progress keep their types.
TypeOK ==
  /\ objects \subseteq Object
  /\ uploads \in [Upload -> [saved : BOOLEAN, expired : BOOLEAN,
                             claimed : BOOLEAN, gone : BOOLEAN]]
  /\ runs \in [Run -> [status : {"none", "active"} \union Ended,
                       deletion : {"none", "processing", "completed"},
                       deleted : BOOLEAN, retry : BOOLEAN,
                       upload : Upload \union {None}]]
  /\ exports \in [Export -> Run \union {None}]
  /\ rows \in [Row -> Content \union {None}]
  /\ aged \subseteq {s \in Row : rows[s] # None}
  /\ source \in [Run -> Row \union {None}]
  /\ fetched \in [Run -> Content \union {None}]
  /\ faults \in 0..MaxFaults
  /\ unanswered \union late \subseteq Export

\* The limit is counted before the insertion and not again: each concurrent
\* request may exceed it by its own run, and no more than that.
ActiveRunsBounded ==
  LET admitted == {p \in Request : req[p].op = "insertRun"} IN
  Cardinality(Active) + Cardinality(admitted) <= MaxActive + Cardinality(Request) - 1

\* An upload is attached by one creation only; retries share it.
UploadSingleUse ==
  \A q, r \in Run :
    /\ runs[q].upload = runs[r].upload /\ runs[r].upload # None
    /\ ~runs[q].retry /\ ~runs[r].retry
    => q = r

\* A row that says its upload was deleted tells the truth, whatever failed
\* between the storage and the commit.
DeletedUploadsAreGone == \A u \in Upload : uploads[u].gone => u \notin objects

\* An export that a report offers can be downloaded, unless the deletion of the
\* report has begun or the reply to its commit was lost.
ExportsReadable ==
  \A e \in Export :
    /\ exports[e] # None
    /\ runs[exports[e]].deletion = "none"
    /\ e \notin unanswered
    => e \in objects

\* A deletion that succeeds, perhaps after some that failed halfway, leaves no
\* export behind but those committed while it was going on.
DeletionIsThorough ==
  \A e \in Export :
    exports[e] # None /\ runs[exports[e]].deleted => e \in late

\* What retention.py:1 promises: the snapshot of a completed report survives the
\* cleanup.
CompletedSnapshotsKept ==
  \A r \in Run : runs[r].status = "completed" => rows[source[r]] \in objects
==============================================================================
