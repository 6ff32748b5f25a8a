-------------------------- MODULE ReportStoreProofs --------------------------
(***************************************************************************)
(* Proofs about ReportStore: what uploads, exports and the deletion of a   *)
(* report promise, for any number of requests, runs, uploads and exports   *)
(* and any number of failed calls, failed commits and crashes.             *)
(***************************************************************************)
EXTENDS ReportStore, FiniteSetTheorems, TLAPS

------------------------------------------------------------------------------
(* What the processes hold *)

RequestOp == {"saveUpload", "undo", "insertRun", "putExport", "saveExport",
              "listExports", "deleteReport"}
SweepOp == {"sweepUploads", "selectRows", "sweepRows"}
Things == Upload \union Export \union Row

Op  == {"idle"} \union RequestOp \union SweepOp
Arg == Upload \union Export \union {None}
For == Run \union {None}
Holding == [op : Op, arg : Arg, run : For,
            todo : SUBSET Things, did : SUBSET Things]

RunRecord == [status : {"none", "active"} \union Ended,
              deletion : {"none", "processing", "completed"},
              deleted : BOOLEAN, upload : Upload \union {None}, retry : BOOLEAN]

Typed ==
  /\ uploads \in [Upload -> [saved : BOOLEAN, expired : BOOLEAN,
                             claimed : BOOLEAN, gone : BOOLEAN]]
  /\ runs \in [Run -> RunRecord]
  /\ exports \in [Export -> Run \union {None}]
  /\ rows \in [Row -> Content \union {None}]
  /\ aged \subseteq Row
  /\ fetched \in [Run -> Content \union {None}]
  /\ req \in [Process -> Holding]

\* What goes with an operation.
Kind(p, x) ==
  /\ p = Sweeper => x.op \notin RequestOp
  /\ p # Sweeper => x.op \notin SweepOp
  /\ x.op = "idle" => x.arg = None
  /\ x.op = "saveUpload" => x.arg \in Upload
  /\ x.op = "undo" => x.arg # None
  /\ x.op = "insertRun" => x.arg \notin Export
  /\ x.op \in {"putExport", "saveExport"} => x.arg \in Export
  /\ x.op \in {"putExport", "saveExport", "listExports", "deleteReport"} => x.run \in Run
  /\ x.op \in {"listExports", "deleteReport"} \union SweepOp => x.arg = None
  /\ x.op \notin {"deleteReport", "sweepUploads", "sweepRows"} => x.todo = {} /\ x.did = {}
  /\ x.op = "deleteReport" => x.todo \subseteq Export /\ x.did \subseteq Export
  /\ x.op = "sweepUploads" => x.todo \subseteq Upload /\ x.did \subseteq Upload
  /\ x.op = "sweepRows" => x.todo \subseteq Row /\ x.did \subseteq Row

Kinds == \A p \in Process : Kind(p, req[p])

Shape == Typed /\ Kinds

\* A step of a process leaves what the others hold.
Step(p, x) ==
  /\ req' \in [Process -> Holding]
  /\ req'[p] = x
  /\ \A q \in Process \ {p} : req'[q] = req[q]

LEMMA Steps ==
  ASSUME Typed, NEW p \in Process
  PROVE  /\ \A op \in Op, arg \in Arg, run \in For : Become(p, op, arg, run) => Step(p, Holds(op, arg, run, {}, {}))
         /\ \A op \in Op, run \in For, todo \in SUBSET Things : WorkOff(p, op, run, todo) => Step(p, Holds(op, None, run, todo, {}))
         /\ Done(p) => Step(p, Idle)
         /\ \A x \in Things : Did(p, x) => Step(p, After(req[p], x))
<1>1. req \in [Process -> Holding] /\ req[p] \in Holding
  BY DEF Typed
<1>2. \A y \in Holding : req' = [req EXCEPT ![p] = y] => Step(p, y)
  BY <1>1 DEF Step
<1>3. ASSUME NEW op \in Op, NEW arg \in Arg, NEW run \in For, NEW todo \in SUBSET Things
      PROVE  Holds(op, arg, run, todo, {}) \in Holding
  BY DEF Holds, Holding
<1>4. Idle \in Holding
  BY DEF Idle, Holds, Holding, Op, Arg, For
<1>5. None \in Arg /\ {} \in SUBSET Things
  BY DEF Arg
<1>6. ASSUME NEW x \in Things, Did(p, x)
      PROVE  Step(p, After(req[p], x))
  <2>1. After(req[p], x) \in Holding
    BY <1>1 DEF After, Holds, Holding, Arg
  <2> QED BY <1>2, <1>6, <2>1 DEF Did
<1>7. ASSUME NEW op \in Op, NEW arg \in Arg, NEW run \in For, Become(p, op, arg, run)
      PROVE  Step(p, Holds(op, arg, run, {}, {}))
  BY <1>2, <1>3, <1>5, <1>7 DEF Become
<1>8. ASSUME NEW op \in Op, NEW run \in For, NEW todo \in SUBSET Things,
             WorkOff(p, op, run, todo)
      PROVE  Step(p, Holds(op, None, run, todo, {}))
  BY <1>2, <1>3, <1>5, <1>8 DEF WorkOff
<1>9. Done(p) => Step(p, Idle)
  BY <1>2, <1>4 DEF Done
<1> QED BY <1>6, <1>7, <1>8, <1>9

LEMMA StepShape ==
  ASSUME Shape, NEW p \in Process, NEW x \in Holding, Kind(p, x), Step(p, x)
  PROVE  req' \in [Process -> Holding] /\ Kinds'
<1>1. req' \in [Process -> Holding]
  BY DEF Step, Shape, Typed
<1>2. \A q \in Process : Kind(q, req'[q])
  BY DEF Step, Shape, Kinds
<1> QED BY <1>1, <1>2 DEF Kinds

Kept == req' \in [Process -> Holding] /\ Kinds'

LEMMA IdleKept ==
  ASSUME Shape, NEW p \in Process, Done(p)
  PROVE  Kept
<1>1. Step(p, Idle)
  BY Steps DEF Shape
<1>2. Idle \in Holding /\ Kind(p, Idle)
  BY DEF Idle, Holds, Holding, Op, Arg, For, Kind, RequestOp, SweepOp
<1> QED BY <1>1, <1>2, StepShape DEF Kept

LEMMA BecomeKept ==
  ASSUME Shape, NEW p \in Process,
         NEW op \in Op, NEW arg \in Arg, NEW run \in For, Become(p, op, arg, run),
         Kind(p, Holds(op, arg, run, {}, {}))
  PROVE  Kept
<1>1. Step(p, Holds(op, arg, run, {}, {}))
  BY Steps DEF Shape
<1>2. Holds(op, arg, run, {}, {}) \in Holding
  BY DEF Holds, Holding
<1> QED BY <1>1, <1>2, StepShape DEF Kept

LEMMA WorkKept ==
  ASSUME Shape, NEW p \in Process,
         NEW op \in Op, NEW run \in For, NEW todo \in SUBSET Things,
         WorkOff(p, op, run, todo), Kind(p, Holds(op, None, run, todo, {}))
  PROVE  Kept
<1>1. Step(p, Holds(op, None, run, todo, {}))
  BY Steps DEF Shape
<1>2. Holds(op, None, run, todo, {}) \in Holding
  BY DEF Holds, Holding, Arg
<1> QED BY <1>1, <1>2, StepShape DEF Kept

LEMMA DidKept ==
  ASSUME Shape, NEW p \in Process, NEW x \in req[p].todo, Did(p, x),
         req[p].op \in {"deleteReport", "sweepUploads", "sweepRows"}
  PROVE  Kept
<1>1. req[p] \in Holding /\ x \in Things /\ Kind(p, req[p])
  BY DEF Shape, Typed, Holding, Kinds
<1>2. Step(p, After(req[p], x))
  BY <1>1, Steps DEF Shape
<1>3. After(req[p], x) \in Holding
  BY <1>1 DEF After, Holds, Holding, Arg
<1>4. Kind(p, After(req[p], x))
  BY <1>1 DEF After, Holds, Kind, SweepOp
<1> QED BY <1>2, <1>3, <1>4, StepShape DEF Kept

LEMMA SameKept ==
  ASSUME Shape, UNCHANGED req
  PROVE  Kept
BY DEF Shape, Typed, Kinds, Kind, Kept

Stored == uploads' \in [Upload -> [saved : BOOLEAN, expired : BOOLEAN,
                                   claimed : BOOLEAN, gone : BOOLEAN]]
          /\ runs' \in [Run -> RunRecord]
          /\ exports' \in [Export -> Run \union {None}]
          /\ rows' \in [Row -> Content \union {None}]
          /\ aged' \subseteq Row
          /\ fetched' \in [Run -> Content \union {None}]

LEMMA ShapeOf ==
  ASSUME Kept, Stored
  PROVE  Shape'
BY DEF Kept, Stored, Shape, Typed

LEMMA ServeShape ==
  ASSUME Shape, NEW p \in Request, Serve(p)
  PROVE  Shape'
<1>0. p \in Process /\ p # Sweeper /\ req[p] \in Holding /\ Kind(p, req[p])
  BY ReportStoreAssumption DEF Process, Shape, Typed, Kinds
<1> USE DEF Op, Arg, For, Things, RequestOp, SweepOp
<1>1. CASE PutUpload(p)
  <2>1. PICK u \in Upload : Become(p, "saveUpload", u, None) \/ Done(p)
    BY <1>1 DEF PutUpload
  <2>2. Kept
    BY <1>0, <2>1, BecomeKept, IdleKept DEF Kind, Holds
  <2> QED BY <1>1, <2>2, ShapeOf DEF PutUpload, Shape, Typed, Stored
<1>2. CASE SaveUpload(p)
  <2>1. req[p].arg \in Upload
    BY <1>0, <1>2 DEF SaveUpload, Kind
  <2>2. Done(p) \/ Become(p, "undo", req[p].arg, None)
    BY <1>2 DEF SaveUpload
  <2>3. Kept
    <3>1. Kind(p, Holds("undo", req[p].arg, None, {}, {}))
      BY <1>0, <2>1, ReportStoreAssumption DEF Kind, Holds
    <3> QED BY <1>0, <2>1, <2>2, <3>1, BecomeKept, IdleKept
  <2>4. Stored
    BY <1>2, <2>1 DEF SaveUpload, Shape, Typed, Stored
  <2> QED BY <2>3, <2>4, ShapeOf
<1>3. CASE Undo(p)
  BY <1>0, <1>3, IdleKept, ShapeOf DEF Undo, Shape, Typed, Stored
<1>4. CASE Admit(p)
  <2>1. Stored
    BY <1>4 DEF Admit, storeVars, Shape, Typed, Stored
  <2>2. PICK u \in Upload \union {None}, r \in Run \union {None} : Become(p, "insertRun", u, r)
    BY <1>4 DEF Admit, Shape, Typed, RunRecord
  <2>3. Kind(p, Holds("insertRun", u, r, {}, {}))
    BY <1>0, ReportStoreAssumption DEF Kind, Holds
  <2>4. Kept
    BY <1>0, <2>2, <2>3, BecomeKept
  <2> QED BY <2>1, <2>4, ShapeOf
<1>5. CASE InsertRun(p)
  <2>1. Kept
    BY <1>0, <1>5, IdleKept DEF InsertRun
  <2>2. req[p].arg \in Upload \union {None}
    BY <1>0, <1>5 DEF InsertRun, Kind, Holding
  <2>3. uploads' \in [Upload -> [saved : BOOLEAN, expired : BOOLEAN,
                                 claimed : BOOLEAN, gone : BOOLEAN]]
    <3>1. CASE UNCHANGED uploads
      BY <3>1 DEF Shape, Typed
    <3>2. CASE req[p].arg # None /\ uploads' = [uploads EXCEPT ![req[p].arg].claimed = TRUE]
      BY <2>2, <3>2 DEF Shape, Typed
    <3> QED BY <1>5, <3>1, <3>2 DEF InsertRun
  <2>4. runs' \in [Run -> RunRecord]
    <3>1. CASE UNCHANGED runs
      BY <3>1 DEF Shape, Typed
    <3>2. CASE \E r \in Run :
             runs' = [runs EXCEPT ![r] = [NoRun EXCEPT
                           !.status = "active", !.upload = req[p].arg,
                           !.retry = req[p].run # None]]
      <4>1. [NoRun EXCEPT !.status = "active", !.upload = req[p].arg,
                          !.retry = req[p].run # None] \in RunRecord
        BY <2>2 DEF NoRun, RunRecord, Ended
      <4> QED BY <3>2, <4>1 DEF Shape, Typed
    <3> QED BY <1>5, <3>1, <3>2 DEF InsertRun
  <2>5. exports' = exports /\ rows' = rows /\ aged' = aged /\ fetched' = fetched
    BY <1>5 DEF InsertRun
  <2> QED BY <2>1, <2>3, <2>4, <2>5, ShapeOf DEF Stored, Shape, Typed
<1>6. CASE StartExport(p)
  <2>1. PICK r \in Run, e \in Export : Become(p, "putExport", e, r)
    BY <1>6 DEF StartExport
  <2>2. Kind(p, Holds("putExport", e, r, {}, {}))
    BY <1>0 DEF Kind, Holds
  <2>3. Kept
    BY <1>0, <2>1, <2>2, BecomeKept
  <2> QED BY <1>6, <2>3, ShapeOf DEF StartExport, storeVars, Shape, Typed, Stored
<1>7. CASE PutExport(p)
  <2>1. req[p].arg \in Export /\ req[p].run \in Run
    BY <1>0, <1>7 DEF PutExport, Kind
  <2>2. Kind(p, Holds("saveExport", req[p].arg, req[p].run, {}, {}))
    BY <1>0, <2>1 DEF Kind, Holds
  <2>3. Kept
    BY <1>0, <1>7, <2>1, <2>2, BecomeKept, IdleKept DEF PutExport
  <2> QED BY <1>7, <2>3, ShapeOf DEF PutExport, Shape, Typed, Stored
<1>8. CASE SaveExport(p)
  <2>1. req[p].arg \in Export /\ req[p].run \in Run
    BY <1>0, <1>8 DEF SaveExport, Kind
  <2>2. Kind(p, Holds("undo", req[p].arg, None, {}, {}))
    BY <1>0, <2>1, ReportStoreAssumption DEF Kind, Holds
  <2>3. Kept
    BY <1>0, <1>8, <2>1, <2>2, BecomeKept, IdleKept DEF SaveExport
  <2>4. exports' \in [Export -> Run \union {None}]
    BY <1>8, <2>1 DEF SaveExport, Shape, Typed
  <2> QED BY <1>8, <2>3, <2>4, ShapeOf DEF SaveExport, Shape, Typed, Stored
<1>9. CASE RequestDeletion(p)
  <2>1. PICK r \in Run : runs' = Processing(r) /\ Become(p, "listExports", None, r)
    BY <1>9 DEF RequestDeletion
  <2>2. Kind(p, Holds("listExports", None, r, {}, {}))
    BY <1>0 DEF Kind, Holds
  <2>3. Kept
    BY <1>0, <2>1, <2>2, BecomeKept
  <2>4. runs' \in [Run -> RunRecord]
    BY <2>1 DEF Processing, RunRecord, Shape, Typed
  <2> QED BY <1>9, <2>3, <2>4, ShapeOf DEF RequestDeletion, Shape, Typed, Stored
<1>10. CASE ListExports(p)
  <2>1. req[p].run \in Run
    BY <1>0, <1>10 DEF ListExports, Kind
  <2>2. Listed(req[p].run) \in SUBSET Things
        /\ Kind(p, Holds("deleteReport", None, req[p].run, Listed(req[p].run), {}))
    BY <1>0, <2>1 DEF Listed, Kind, Holds
  <2>3. Kept
    BY <1>0, <1>10, <2>1, <2>2, WorkKept DEF ListExports
  <2> QED BY <1>10, <2>3, ShapeOf DEF ListExports, storeVars, Shape, Typed, Stored
<1>11. CASE DeleteExport(p)
  <2>1. Kept
    BY <1>0, <1>11, DidKept, IdleKept DEF DeleteExport
  <2> QED BY <1>11, <2>1, ShapeOf DEF DeleteExport, Shape, Typed, Stored
<1>12. CASE FinishDeletion(p)
  <2>1. Kept
    BY <1>0, <1>12, IdleKept DEF FinishDeletion
  <2>2. req[p].run \in Run
    BY <1>0, <1>12 DEF FinishDeletion, Kind
  <2>3. runs' \in [Run -> RunRecord]
    <3>1. CASE UNCHANGED runs
      BY <3>1 DEF Shape, Typed
    <3>2. CASE runs' = Erased(req[p].run)
      <4>1. runs[req[p].run] \in RunRecord
        BY <2>2 DEF Shape, Typed
      <4>2. [runs[req[p].run] EXCEPT !.deletion = "completed", !.deleted = TRUE] \in RunRecord
        BY <4>1 DEF RunRecord
      <4> QED BY <2>2, <3>2, <4>2 DEF Erased, Shape, Typed
    <3> QED BY <1>12, <3>1, <3>2 DEF FinishDeletion
  <2>4. exports' \in [Export -> Run \union {None}]
    BY <1>12 DEF FinishDeletion, Shape, Typed
  <2> QED BY <1>12, <2>1, <2>3, <2>4, ShapeOf DEF FinishDeletion, Shape, Typed, Stored
<1> QED BY <1>1, <1>2, <1>3, <1>4, <1>5, <1>6, <1>7, <1>8, <1>9, <1>10, <1>11, <1>12
        DEF Serve

LEMMA SweepShape ==
  ASSUME Shape, Sweep
  PROVE  Shape'
<1>0. Sweeper \in Process /\ req[Sweeper] \in Holding /\ Kind(Sweeper, req[Sweeper])
  BY DEF Process, Shape, Typed, Kinds
<1> USE DEF Op, Arg, For, Things, RequestOp, SweepOp
<1>1. CASE SelectUploads
  <2>1. Expired \in SUBSET Things /\ Kind(Sweeper, Holds("sweepUploads", None, None, Expired, {}))
    BY DEF Expired, Kind, Holds
  <2>2. Kept
    BY <1>0, <1>1, <2>1, WorkKept DEF SelectUploads
  <2> QED BY <1>1, <2>2, ShapeOf DEF SelectUploads, storeVars, Shape, Typed, Stored
<1>2. CASE SweepUpload
  <2>1. Kept
    BY <1>0, <1>2, DidKept, IdleKept DEF SweepUpload
  <2> QED BY <1>2, <2>1, ShapeOf DEF SweepUpload, AfterSweepError, Shape, Typed, Stored
<1>3. CASE CommitUploads
  <2>1. Kind(Sweeper, Holds("selectRows", None, None, {}, {}))
    BY DEF Kind, Holds
  <2>2. Kept
    BY <1>0, <1>3, <2>1, BecomeKept, IdleKept DEF CommitUploads
  <2>3. \A u \in Upload : [uploads[u] EXCEPT !.gone = TRUE]
          \in [saved : BOOLEAN, expired : BOOLEAN, claimed : BOOLEAN, gone : BOOLEAN]
    BY DEF Shape, Typed
  <2>4. Marked(req[Sweeper].did) \in [Upload -> [saved : BOOLEAN, expired : BOOLEAN,
                                                 claimed : BOOLEAN, gone : BOOLEAN]]
    BY <2>3 DEF Marked, Shape, Typed
  <2> QED BY <1>3, <2>2, <2>4, ShapeOf DEF CommitUploads, Shape, Typed, Stored
<1>4. CASE SelectRows
  <2>1. Orphans \subseteq Row
    BY DEF Orphans, Shape, Typed
  <2>2. Kind(Sweeper, Holds("sweepRows", None, None, Orphans, {}))
    BY <2>1 DEF Kind, Holds
  <2>3. Kept
    BY <1>0, <1>4, <2>1, <2>2, WorkKept DEF SelectRows
  <2> QED BY <1>4, <2>3, ShapeOf DEF SelectRows, storeVars, Shape, Typed, Stored
<1>5. CASE SweepRow
  <2>1. Kept
    BY <1>0, <1>5, DidKept, IdleKept DEF SweepRow
  <2> QED BY <1>5, <2>1, ShapeOf DEF SweepRow, Shape, Typed, Stored
<1>6. CASE CommitRows
  <2>1. Kept
    BY <1>0, <1>6, IdleKept DEF CommitRows
  <2>2. rows' \in [Row -> Content \union {None}] /\ aged' \subseteq Row
    BY <1>6 DEF CommitRows, Removed, Shape, Typed
  <2> QED BY <1>6, <2>1, <2>2, ShapeOf DEF CommitRows, Shape, Typed, Stored
<1> QED BY <1>1, <1>2, <1>3, <1>4, <1>5, <1>6 DEF Sweep

LEMMA ShapeNext ==
  ASSUME Shape, [Next]_vars
  PROVE  Shape'
<1>1. CASE \E p \in Request : Serve(p)
  BY <1>1, ServeShape
<1>2. CASE Sweep
  BY <1>2, SweepShape
<1>3. ASSUME NEW r \in Run, Work(r)
      PROVE  Shape'
  <2>1. req' = req /\ aged' = aged /\ exports' = exports /\ uploads' = uploads
    BY <1>3 DEF Work, Fetch, PersistSources, EndRun
  <2>2. runs' \in [Run -> RunRecord]
    BY <1>3 DEF Work, Fetch, PersistSources, EndRun, RunRecord, Ended, Shape, Typed
  <2>3. rows' \in [Row -> Content \union {None}]
    <3>1. CASE UNCHANGED rows
      BY <3>1 DEF Shape, Typed
    <3>2. CASE PersistSources(r)
      BY <3>2 DEF PersistSources, Shape, Typed
    <3> QED BY <1>3, <3>1, <3>2 DEF Work, Fetch, EndRun
  <2>4. fetched' \in [Run -> Content \union {None}]
    BY <1>3 DEF Work, Fetch, PersistSources, EndRun, Shape, Typed
  <2> QED BY <2>1, <2>2, <2>3, <2>4, SameKept, ShapeOf DEF Stored, Shape, Typed
<1>4. ASSUME NEW u \in Upload, Expires(u)
      PROVE  Shape'
  BY <1>4, SameKept, ShapeOf DEF Expires, Stored, Shape, Typed
<1>5. ASSUME NEW s \in Row, Age(s)
      PROVE  Shape'
  BY <1>5, SameKept, ShapeOf DEF Age, Stored, Shape, Typed
<1>6. ASSUME NEW p \in Process, Crash(p)
      PROVE  Shape'
  <2>1. Kept
    BY <1>6, IdleKept DEF Crash
  <2> QED BY <1>6, <2>1, ShapeOf DEF Crash, storeVars, Stored, Shape, Typed
<1>7. CASE UNCHANGED vars
  BY <1>7, SameKept, ShapeOf DEF vars, storeVars, Stored, Shape, Typed
<1> QED BY <1>1, <1>2, <1>3, <1>4, <1>5, <1>6, <1>7 DEF Next

LEMMA ShapeInit ==
  ASSUME Init
  PROVE  Shape
<1>1. Typed
  BY DEF Init, Typed, NoUpload, NoRun, RunRecord, Idle, Holds, Holding, Op, Arg, For
<1>2. Kinds
  BY DEF Init, Kinds, Kind, Idle, Holds, RequestOp, SweepOp
<1> QED BY <1>1, <1>2 DEF Shape

\* Every step of a request changes what that request holds, and no other.
LEMMA OnlyThis ==
  ASSUME Shape, NEW p \in Request, Serve(p)
  PROVE  /\ p \in Process /\ p # Sweeper
         /\ \A q \in Process \ {p} : req'[q] = req[q]
<1>1. p \in Process /\ p # Sweeper
  BY ReportStoreAssumption DEF Process
<1>2. ASSUME NEW y, req' = [req EXCEPT ![p] = y]
      PROVE  \A q \in Process \ {p} : req'[q] = req[q]
  BY <1>1, <1>2 DEF Shape, Typed
<1>3. /\ \A op, arg, run : Become(p, op, arg, run) => \E y : req' = [req EXCEPT ![p] = y]
      /\ \A op, run, todo : WorkOff(p, op, run, todo) => \E y : req' = [req EXCEPT ![p] = y]
      /\ Done(p) => \E y : req' = [req EXCEPT ![p] = y]
      /\ \A x : Did(p, x) => \E y : req' = [req EXCEPT ![p] = y]
  BY DEF Become, WorkOff, Done, Did
<1>4. \E y : req' = [req EXCEPT ![p] = y]
  <2>1. CASE PutUpload(p) \/ SaveUpload(p) \/ Undo(p) \/ Admit(p) \/ InsertRun(p)
    BY <1>3, <2>1 DEF PutUpload, SaveUpload, Undo, Admit, InsertRun
  <2>2. CASE StartExport(p) \/ PutExport(p) \/ SaveExport(p)
    BY <1>3, <2>2 DEF StartExport, PutExport, SaveExport
  <2>3. CASE RequestDeletion(p) \/ ListExports(p) \/ DeleteExport(p) \/ FinishDeletion(p)
    BY <1>3, <2>3 DEF RequestDeletion, ListExports, DeleteExport, FinishDeletion
  <2> QED BY <2>1, <2>2, <2>3 DEF Serve
<1> QED BY <1>1, <1>2, <1>4

------------------------------------------------------------------------------
(* Uploads that are said to be deleted *)

UploadInv ==
  /\ \A u \in Upload : uploads[u].gone => uploads[u].saved /\ u \notin objects
  /\ req[Sweeper].op = "sweepUploads" =>
       /\ \A u \in req[Sweeper].todo : uploads[u].saved
       /\ \A u \in req[Sweeper].did : uploads[u].saved /\ u \notin objects

\* An upload comes into the storage before its row is saved, and never after.
LEMMA RequestsSpareUploads ==
  ASSUME Shape, NEW p \in Request, Serve(p)
  PROVE  /\ \A u \in Upload : u \in objects' => u \in objects \/ ~uploads[u].saved
         /\ \A u \in Upload : uploads'[u].gone = uploads[u].gone
         /\ \A u \in Upload : uploads[u].saved => uploads'[u].saved
<1>0. Kind(p, req[p])
  BY OnlyThis DEF Shape, Kinds
<1>1. CASE PutUpload(p)
  BY <1>1 DEF PutUpload, Put
<1>2. CASE SaveUpload(p)
  <2>1. req[p].arg \in Upload
    BY <1>0, <1>2 DEF SaveUpload, Kind
  <2> QED BY <1>2, <2>1 DEF SaveUpload, Shape, Typed
<1>3. CASE Undo(p) \/ DeleteExport(p)
  BY <1>3 DEF Undo, DeleteExport, Drop
<1>4. CASE InsertRun(p)
  <2>1. CASE UNCHANGED uploads
    BY <1>4, <2>1 DEF InsertRun
  <2>2. CASE uploads' = [uploads EXCEPT ![req[p].arg].claimed = TRUE] /\ req[p].arg \in Upload
    BY <1>4, <2>2 DEF InsertRun, Shape, Typed
  <2>3. req[p].arg \in Upload \union {None}
    BY <1>0, <1>4, OnlyThis DEF InsertRun, Kind, Shape, Typed, Holding, Arg
  <2> QED BY <1>4, <2>1, <2>2, <2>3 DEF InsertRun
<1>5. CASE PutExport(p)
  <2>1. req[p].arg \notin Upload
    BY <1>0, <1>5, ReportStoreAssumption DEF PutExport, Kind
  <2> QED BY <1>5, <2>1 DEF PutExport, Put
<1>6. CASE Admit(p) \/ StartExport(p) \/ SaveExport(p) \/ RequestDeletion(p)
           \/ ListExports(p) \/ FinishDeletion(p)
  BY <1>6 DEF Admit, StartExport, SaveExport, RequestDeletion, ListExports,
              FinishDeletion, storeVars
<1> QED BY <1>1, <1>2, <1>3, <1>4, <1>5, <1>6 DEF Serve

LEMMA UploadNext ==
  ASSUME Shape, UploadInv, [Next]_vars
  PROVE  UploadInv'
<1>0. /\ Sweeper \in Process
      /\ req[Sweeper].op = "sweepUploads" =>
           req[Sweeper].todo \subseteq Upload /\ req[Sweeper].did \subseteq Upload
  BY DEF Process, Shape, Kinds, Kind
<1>8. /\ Done(Sweeper) => req'[Sweeper].op = "idle"
      /\ Become(Sweeper, "selectRows", None, None) => req'[Sweeper].op = "selectRows"
      /\ \A todo \in SUBSET Things :
           WorkOff(Sweeper, "sweepRows", None, todo) => req'[Sweeper].op = "sweepRows"
  <2>1. "selectRows" \in Op /\ "sweepRows" \in Op /\ None \in Arg /\ None \in For
    BY DEF Op, SweepOp, Arg, For
  <2>2. Done(Sweeper) => req'[Sweeper].op = "idle"
    BY <1>0, Steps DEF Shape, Step, Idle, Holds
  <2>3. ASSUME Become(Sweeper, "selectRows", None, None)
        PROVE  req'[Sweeper].op = "selectRows"
    <3>1. Step(Sweeper, Holds("selectRows", None, None, {}, {}))
      BY <1>0, <2>1, <2>3, Steps DEF Shape
    <3> QED BY <3>1 DEF Step, Holds
  <2>4. ASSUME NEW todo \in SUBSET Things, WorkOff(Sweeper, "sweepRows", None, todo)
        PROVE  req'[Sweeper].op = "sweepRows"
    <3>1. Step(Sweeper, Holds("sweepRows", None, None, todo, {}))
      BY <1>0, <2>1, <2>4, Steps DEF Shape
    <3> QED BY <3>1 DEF Step, Holds
  <2> QED BY <2>2, <2>3, <2>4
<1>1. CASE \E p \in Request : Serve(p)
  <2>1. PICK p \in Request : Serve(p)
    BY <1>1
  <2>2. req'[Sweeper] = req[Sweeper]
    BY <1>0, <2>1, OnlyThis
  <2> QED BY <1>0, <2>1, <2>2, RequestsSpareUploads DEF UploadInv
<1>2. CASE Sweep
  <2>1. CASE SelectUploads
    <3>1. Step(Sweeper, Holds("sweepUploads", None, None, Expired, {}))
      BY <1>0, <2>1, Steps DEF SelectUploads, Shape, Op, SweepOp, For, Things, Expired
    <3> QED BY <2>1, <3>1 DEF SelectUploads, storeVars, UploadInv, Step, Holds, Expired
  <2>2. CASE SweepUpload
    <3>1. PICK u \in req[Sweeper].todo :
            \/ Drop(u) /\ Did(Sweeper, u) /\ UNCHANGED uploads
            \/ (Drop(u) \/ UNCHANGED objects) /\ Done(Sweeper) /\ UNCHANGED uploads
      BY <2>2 DEF SweepUpload, AfterSweepError
    <3>2. u \in Things /\ req[Sweeper].op = "sweepUploads"
      BY <1>0, <2>2, <3>1 DEF SweepUpload, Things
    <3>3. CASE Drop(u) /\ Did(Sweeper, u) /\ UNCHANGED uploads
      <4>1. req'[Sweeper] = After(req[Sweeper], u)
        BY <1>0, <3>2, <3>3, Steps DEF Shape, Step
      <4> QED BY <3>2, <3>3, <4>1 DEF UploadInv, After, Holds, Drop
    <3>4. CASE (Drop(u) \/ UNCHANGED objects) /\ Done(Sweeper) /\ UNCHANGED uploads
      <4>1. req'[Sweeper].op = "idle"
        BY <1>0, <3>4, Steps DEF Shape, Step, Idle, Holds
      <4> QED BY <3>4, <4>1 DEF UploadInv, Drop
    <3> QED BY <3>1, <3>3, <3>4
  <2>3. CASE CommitUploads
    <3>1. req'[Sweeper].op # "sweepUploads"
      <4>1. Become(Sweeper, "selectRows", None, None) \/ Done(Sweeper)
        BY <2>3 DEF CommitUploads
      <4> QED BY <1>0, <1>8, <4>1
    <3>2. \A u \in Upload : uploads'[u].gone => uploads'[u].saved /\ u \notin objects
      <4>1. CASE UNCHANGED uploads
        BY <4>1 DEF UploadInv
      <4>2. CASE uploads' = Marked(req[Sweeper].did)
        <5>1. \A u \in Upload : uploads'[u] = IF u \in req[Sweeper].did
                                  THEN [uploads[u] EXCEPT !.gone = TRUE] ELSE uploads[u]
          BY <4>2 DEF Marked
        <5>2. \A u \in Upload : uploads[u] \in [saved : BOOLEAN, expired : BOOLEAN,
                                                claimed : BOOLEAN, gone : BOOLEAN]
          BY DEF Shape, Typed
        <5>3. req[Sweeper].op = "sweepUploads"
          BY <2>3 DEF CommitUploads
        <5> QED BY <5>1, <5>2, <5>3 DEF UploadInv
      <4> QED BY <2>3, <4>1, <4>2 DEF CommitUploads
    <3> QED BY <2>3, <3>1, <3>2 DEF CommitUploads, UploadInv
  <2>4. CASE SelectRows \/ CommitRows
    <3>1. req'[Sweeper].op # "sweepUploads"
      <4>1. Orphans \in SUBSET Things
        BY DEF Orphans, Shape, Typed, Things
      <4>2. WorkOff(Sweeper, "sweepRows", None, Orphans) \/ Done(Sweeper)
        BY <2>4 DEF SelectRows, CommitRows
      <4> QED BY <1>8, <4>1, <4>2
    <3> QED BY <2>4, <3>1 DEF SelectRows, CommitRows, storeVars, UploadInv
  <2>5. CASE SweepRow
    <3>1. PICK s \in req[Sweeper].todo : Did(Sweeper, s) \/ Done(Sweeper)
      BY <2>5 DEF SweepRow
    <3>2. s \in Things /\ req[Sweeper].op = "sweepRows"
      BY <1>0, <2>5, <3>1 DEF SweepRow, Shape, Kinds, Kind, Things
    <3>3. req'[Sweeper].op # "sweepUploads"
      <4>2. CASE Did(Sweeper, s)
        <5>1. Step(Sweeper, After(req[Sweeper], s))
          BY <1>0, <3>2, <4>2, Steps DEF Shape
        <5>2. req'[Sweeper].op = req[Sweeper].op
          BY <5>1 DEF Step, Holds, After
        <5> QED BY <3>2, <5>2
      <4>3. CASE Done(Sweeper)
        <5>1. req'[Sweeper].op = "idle"
          BY <1>8, <4>3
        <5> QED BY <5>1
      <4> QED BY <3>1, <4>2, <4>3
    <3>4. objects' \subseteq objects /\ uploads' = uploads
      BY <2>5 DEF SweepRow, Drop
    <3> QED BY <3>3, <3>4 DEF UploadInv
  <2> QED BY <1>2, <2>1, <2>2, <2>3, <2>4, <2>5 DEF Sweep
<1>3. ASSUME NEW r \in Run, Work(r)
      PROVE  UploadInv'
  <2>1. /\ \A u \in Upload : u \in objects' => u \in objects
        /\ UNCHANGED <<uploads, req>>
    BY <1>3, ReportStoreAssumption DEF Work, Fetch, PersistSources, EndRun, Put
  <2> QED BY <1>0, <2>1 DEF UploadInv
<1>4. ASSUME NEW u \in Upload, Expires(u)
      PROVE  UploadInv'
  <2>1. \A v \in Upload : uploads'[v].gone = uploads[v].gone /\ uploads'[v].saved = uploads[v].saved
    BY <1>4 DEF Expires, Shape, Typed
  <2> QED BY <1>0, <1>4, <2>1 DEF Expires, UploadInv
<1>5. ASSUME NEW s \in Row, Age(s)
      PROVE  UploadInv'
  BY <1>5 DEF Age, UploadInv
<1>6. ASSUME NEW p \in Process, Crash(p)
      PROVE  UploadInv'
  <2>1. req'[Sweeper] = req[Sweeper] \/ req'[Sweeper].op = "idle"
    BY <1>0, <1>6, Steps DEF Crash, Shape, Step, Idle, Holds
  <2> QED BY <1>6, <2>1 DEF Crash, storeVars, UploadInv
<1>7. CASE UNCHANGED vars
  BY <1>7 DEF vars, storeVars, UploadInv
<1> QED BY <1>1, <1>2, <1>3, <1>4, <1>5, <1>6, <1>7 DEF Next

\* A row that says its upload was deleted tells the truth, for any number of
\* requests and failures of the sweep.
THEOREM DeletedUploads == Spec => []DeletedUploadsAreGone
<1>1. Init => Shape /\ UploadInv
  BY ShapeInit DEF Init, UploadInv, NoUpload, Idle, Holds, Process
<1>2. Shape /\ UploadInv /\ [Next]_vars => (Shape /\ UploadInv)'
  BY ShapeNext, UploadNext
<1>3. UploadInv => DeletedUploadsAreGone
  BY DEF UploadInv, DeletedUploadsAreGone
<1> QED BY <1>1, <1>2, <1>3, PTL DEF Spec

------------------------------------------------------------------------------
(* What a process holds after a step *)

LEMMA Now ==
  ASSUME Shape, NEW p \in Process
  PROVE  /\ \A op \in Op, arg \in Arg, run \in For :
              Become(p, op, arg, run) =>
                req'[p] = Holds(op, arg, run, {}, {}) /\ req'[p].op = op
         /\ \A op \in Op, run \in For, todo \in SUBSET Things :
              WorkOff(p, op, run, todo) =>
                req'[p] = Holds(op, None, run, todo, {}) /\ req'[p].op = op
         /\ Done(p) => req'[p] = Idle
         /\ \A x \in Things : Did(p, x) => req'[p] = After(req[p], x)
<1>1. ASSUME NEW op \in Op, NEW arg \in Arg, NEW run \in For, Become(p, op, arg, run)
      PROVE  req'[p] = Holds(op, arg, run, {}, {}) /\ req'[p].op = op
  <2>1. Step(p, Holds(op, arg, run, {}, {}))
    BY <1>1, Steps DEF Shape
  <2> QED BY <2>1 DEF Step, Holds
<1>2. ASSUME NEW op \in Op, NEW run \in For, NEW todo \in SUBSET Things,
             WorkOff(p, op, run, todo)
      PROVE  req'[p] = Holds(op, None, run, todo, {}) /\ req'[p].op = op
  <2>1. Step(p, Holds(op, None, run, todo, {}))
    BY <1>2, Steps DEF Shape
  <2> QED BY <2>1 DEF Step, Holds
<1>3. Done(p) => req'[p] = Idle
  BY Steps DEF Shape, Step
<1>4. ASSUME NEW x \in Things, Did(p, x)
      PROVE  req'[p] = After(req[p], x)
  <2>1. Step(p, After(req[p], x))
    BY <1>4, Steps DEF Shape
  <2> QED BY <2>1 DEF Step
<1> QED BY <1>1, <1>2, <1>3, <1>4

\* What the requests about exports may do next, and the sweep.
LEMMA ExportOps ==
  ASSUME Shape, NEW p \in Request,
         \/ StartExport(p) \/ PutExport(p) \/ SaveExport(p)
         \/ RequestDeletion(p) \/ ListExports(p) \/ DeleteExport(p) \/ FinishDeletion(p)
  PROVE  req'[p].op \in {"idle", "putExport", "saveExport", "undo", "listExports",
                         "deleteReport"}
<1>0. p \in Process /\ Kind(p, req[p]) /\ None \in Arg /\ None \in For
  BY DEF Process, Shape, Kinds, Arg, For
<1> USE DEF Op, RequestOp
<1>1. \A op \in Op, arg \in Arg, run \in For : Become(p, op, arg, run) => req'[p].op = op
  BY <1>0, Now
<1>2. Done(p) => req'[p].op = "idle"
  BY <1>0, Now DEF Idle, Holds
<1>3. CASE StartExport(p)
  BY <1>1, <1>3 DEF StartExport, Arg, For
<1>4. CASE PutExport(p) \/ SaveExport(p)
  <2>1. req[p].arg \in Arg /\ req[p].run \in For
    BY <1>0 DEF Shape, Typed, Holding
  <2> QED BY <1>0, <1>1, <1>2, <1>4, <2>1 DEF PutExport, SaveExport
<1>5. CASE RequestDeletion(p)
  BY <1>0, <1>1, <1>5 DEF RequestDeletion, For
<1>6. CASE ListExports(p)
  <2>1. Listed(req[p].run) \in SUBSET Things /\ req[p].run \in For
    BY <1>0 DEF Listed, Things, Shape, Typed, Holding
  <2>2. WorkOff(p, "deleteReport", req[p].run, Listed(req[p].run))
    BY <1>6 DEF ListExports
  <2>3. req'[p].op = "deleteReport"
    BY <1>0, <2>1, <2>2, Now
  <2> QED BY <2>3
<1>7. CASE DeleteExport(p)
  <2>1. PICK e \in req[p].todo : Did(p, e) \/ Done(p)
    BY <1>7 DEF DeleteExport
  <2>2. e \in Things /\ req[p].op = "deleteReport"
    BY <1>0, <1>7, <2>1 DEF DeleteExport, Kind, Things
  <2>3. Did(p, e) => req'[p] = After(req[p], e)
    BY <1>0, <2>2, Now
  <2> QED BY <1>2, <2>1, <2>2, <2>3 DEF After, Holds
<1>8. CASE FinishDeletion(p)
  BY <1>2, <1>8 DEF FinishDeletion
<1> QED BY <1>3, <1>4, <1>5, <1>6, <1>7, <1>8

LEMMA SweepOps ==
  ASSUME Shape, Sweep
  PROVE  /\ \A q \in Process \ {Sweeper} : req'[q] = req[q]
         /\ req'[Sweeper].op \in {"idle"} \union SweepOp
<1>0. Sweeper \in Process /\ None \in Arg /\ None \in For
  BY DEF Process, Arg, For
<1>1. ASSUME NEW y, req' = [req EXCEPT ![Sweeper] = y]
      PROVE  \A q \in Process \ {Sweeper} : req'[q] = req[q]
  BY <1>0, <1>1 DEF Shape, Typed
<1>2. \E y : req' = [req EXCEPT ![Sweeper] = y]
  BY DEF Sweep, SelectUploads, SweepUpload, CommitUploads, SelectRows, SweepRow, CommitRows,
         Become, WorkOff, Done, Did
<1>3. Shape'
  BY SweepShape
<1>4. req'[Sweeper].op \notin RequestOp /\ req'[Sweeper].op \in Op
  BY <1>0, <1>3 DEF Shape, Typed, Kinds, Kind, Holding
<1> QED BY <1>1, <1>2, <1>4 DEF Op

------------------------------------------------------------------------------
(* Uploads are attached once *)

ClaimInv ==
  /\ \A r \in Run : runs[r].upload # None => uploads[runs[r].upload].claimed
  /\ \A p \in Process :
       /\ req[p].op = "insertRun"
       /\ req[p].run # None /\ req[p].arg # None
       => uploads[req[p].arg].claimed
  /\ UploadSingleUse

\* Steps that attach nothing.
LEMMA ClaimFrame ==
  ASSUME Shape, ClaimInv,
         \A r \in Run : runs'[r].upload = runs[r].upload /\ runs'[r].retry = runs[r].retry,
         \A u \in Upload : uploads[u].claimed => uploads'[u].claimed,
         \A p \in Process : req'[p].op = "insertRun" => req'[p] = req[p]
  PROVE  ClaimInv'
<1>1. \A r \in Run : runs[r].upload \in Upload \union {None}
  BY DEF Shape, Typed, RunRecord
<1>2. \A p \in Process : req[p].op = "insertRun" => req[p].arg \in Upload \union {None}
  BY DEF Shape, Typed, Kinds, Kind, Holding, Arg
<1> QED BY <1>1, <1>2 DEF ClaimInv, UploadSingleUse

LEMMA AdmitClaims ==
  ASSUME Shape, ClaimInv, NEW p \in Request, Admit(p)
  PROVE  ClaimInv'
<1>0. p \in Process /\ \A q \in Process \ {p} : req'[q] = req[q]
  BY OnlyThis DEF Serve
<1>1. UNCHANGED <<runs, uploads>>
  BY DEF Admit, storeVars
<1>2. "insertRun" \in Op
  BY DEF Op, RequestOp
<1>3. req'[p].run # None /\ req'[p].arg # None => uploads[req'[p].arg].claimed
  <2>1. CASE \E u \in Upload \union {None} : Become(p, "insertRun", u, None)
    <3>1. PICK u \in Upload \union {None} : Become(p, "insertRun", u, None)
      BY <2>1
    <3>2. req'[p] = Holds("insertRun", u, None, {}, {})
      BY <1>0, <1>2, <3>1, Now DEF Arg, For
    <3> QED BY <3>2 DEF Holds
  <2>2. CASE \E r \in Run : Become(p, "insertRun", runs[r].upload, r)
    <3>1. PICK r \in Run : Become(p, "insertRun", runs[r].upload, r)
      BY <2>2
    <3>2. runs[r].upload \in Arg /\ r \in For
      BY DEF Shape, Typed, RunRecord, Arg, For
    <3>3. req'[p] = Holds("insertRun", runs[r].upload, r, {}, {})
      BY <1>0, <1>2, <3>1, <3>2, Now
    <3> QED BY <3>3 DEF Holds, ClaimInv
  <2> QED BY <2>1, <2>2 DEF Admit
<1> QED BY <1>0, <1>1, <1>3 DEF ClaimInv, UploadSingleUse

LEMMA InsertClaims ==
  ASSUME Shape, ClaimInv, NEW p \in Request, InsertRun(p)
  PROVE  ClaimInv'
<1>0. p \in Process /\ \A q \in Process \ {p} : req'[q] = req[q]
  BY OnlyThis DEF Serve
<1>1. req'[p].op = "idle"
  BY <1>0, Now DEF InsertRun, Idle, Holds
<1>2. req[p].arg \in Upload \union {None} /\ req[p].op = "insertRun"
  BY <1>0 DEF InsertRun, Shape, Typed, Kinds, Kind, Holding, Arg
<1> DEFINE u == req[p].arg
           claims == u # None /\ req[p].run = None
<1>3. CASE UNCHANGED <<runs, uploads>>
  BY <1>0, <1>1, <1>3, ClaimFrame
<1>4. CASE /\ claims => Claimable(u)
           /\ \E r \in Run : runs' = [runs EXCEPT ![r] = [NoRun EXCEPT
                               !.status = "active", !.upload = u, !.retry = req[p].run # None]]
           /\ uploads' = IF claims THEN [uploads EXCEPT ![u].claimed = TRUE] ELSE uploads
  <2>1. PICK r \in Run : runs' = [runs EXCEPT ![r] = [NoRun EXCEPT
                               !.status = "active", !.upload = u, !.retry = req[p].run # None]]
    BY <1>4
  <2>2. /\ \A q \in Run \ {r} : runs'[q] = runs[q]
        /\ runs'[r].upload = u /\ runs'[r].retry = (req[p].run # None)
    BY <2>1 DEF NoRun, Shape, Typed
  <2>3. /\ \A v \in Upload : uploads[v].claimed => uploads'[v].claimed
        /\ u # None => uploads'[u].claimed
    <3>1. CASE claims
      BY <1>2, <1>4, <3>1 DEF Shape, Typed
    <3>2. CASE ~claims
      <4>1. uploads' = uploads
        BY <1>4, <3>2
      <4> QED BY <1>0, <1>2, <3>2, <4>1 DEF ClaimInv
    <3> QED BY <3>1, <3>2
  <2>4. claims => \A q \in Run \ {r} : runs[q].upload # u
    BY <1>4 DEF Claimable, ClaimInv
  <2>5. \A q \in Run : runs[q].upload \in Upload \union {None}
    BY DEF Shape, Typed, RunRecord
  <2>6. \A q \in Run : runs'[q].upload # None => uploads'[runs'[q].upload].claimed
    BY <2>2, <2>3, <2>5 DEF ClaimInv
  <2>7. \A q \in Process : req'[q].op = "insertRun" /\ req'[q].run # None /\ req'[q].arg # None
                           => uploads'[req'[q].arg].claimed
    <3>1. \A q \in Process : req[q].op = "insertRun" => req[q].arg \in Upload \union {None}
      BY DEF Shape, Typed, Kinds, Kind, Holding, Arg
    <3> QED BY <1>0, <1>1, <2>3, <3>1 DEF ClaimInv
  <2>8. UploadSingleUse'
    BY <2>2, <2>4 DEF ClaimInv, UploadSingleUse
  <2> QED BY <2>6, <2>7, <2>8 DEF ClaimInv
<1> QED BY <1>3, <1>4 DEF InsertRun

LEMMA ClaimNext ==
  ASSUME Shape, ClaimInv, [Next]_vars
  PROVE  ClaimInv'
<1>1. ASSUME NEW p \in Request, Serve(p)
      PROVE  ClaimInv'
  <2>0. p \in Process /\ \A q \in Process \ {p} : req'[q] = req[q]
    BY <1>1, OnlyThis
  <2>1. CASE PutUpload(p) \/ SaveUpload(p) \/ Undo(p)
    <3>1. req'[p].op # "insertRun"
      <4>1. \A u \in Upload \union Export : u \in Arg
        BY DEF Arg
      <4>2. "saveUpload" \in Op /\ "undo" \in Op /\ None \in For
        BY DEF Op, RequestOp, For
      <4>3. \A u \in Upload : Become(p, "saveUpload", u, None) => req'[p].op = "saveUpload"
        BY <2>0, <4>1, <4>2, Now
      <4>4. \A u \in Upload : Become(p, "undo", u, None) => req'[p].op = "undo"
        BY <2>0, <4>1, <4>2, Now
      <4>5. Done(p) => req'[p].op = "idle"
        BY <2>0, Now DEF Idle, Holds
      <4>6. SaveUpload(p) => req[p].arg \in Upload
        BY <2>0 DEF SaveUpload, Shape, Kinds, Kind
      <4> QED BY <2>1, <4>3, <4>4, <4>5, <4>6 DEF PutUpload, SaveUpload, Undo
    <3>2. /\ UNCHANGED runs
          /\ \A u \in Upload : uploads[u].claimed => uploads'[u].claimed
      BY <2>1 DEF PutUpload, SaveUpload, Undo, Shape, Typed
    <3> QED BY <2>0, <3>1, <3>2, ClaimFrame
  <2>2. CASE Admit(p)
    BY <2>2, AdmitClaims
  <2>3. CASE InsertRun(p)
    BY <2>3, InsertClaims
  <2>4. CASE \/ StartExport(p) \/ PutExport(p) \/ SaveExport(p)
             \/ RequestDeletion(p) \/ ListExports(p) \/ DeleteExport(p) \/ FinishDeletion(p)
    <3>1. req'[p].op # "insertRun"
      BY <2>0, <2>4, ExportOps
    <3>2. UNCHANGED uploads
      BY <2>4 DEF StartExport, PutExport, SaveExport, RequestDeletion, ListExports,
                  DeleteExport, FinishDeletion, storeVars
    <3>3. \A r \in Run : runs'[r].upload = runs[r].upload /\ runs'[r].retry = runs[r].retry
      <4>1. CASE UNCHANGED runs
        BY <4>1
      <4>2. CASE RequestDeletion(p)
        BY <4>2 DEF RequestDeletion, Processing, Shape, Typed
      <4>3. CASE runs' = Erased(req[p].run)
        BY <4>3 DEF Erased, Shape, Typed
      <4> QED BY <2>4, <4>1, <4>2, <4>3 DEF StartExport, PutExport, SaveExport, ListExports,
                  DeleteExport, FinishDeletion, storeVars
    <3> QED BY <2>0, <3>1, <3>2, <3>3, ClaimFrame
  <2> QED BY <1>1, <2>1, <2>2, <2>3, <2>4 DEF Serve
<1>2. CASE Sweep
  <2>1. \A p \in Process : req'[p].op = "insertRun" => req'[p] = req[p]
    BY <1>2, SweepOps DEF SweepOp
  <2>2. UNCHANGED runs
    BY <1>2 DEF Sweep, SelectUploads, SweepUpload, CommitUploads, SelectRows, SweepRow,
                CommitRows, storeVars
  <2>3. \A u \in Upload : uploads[u].claimed => uploads'[u].claimed
    <3>1. CASE UNCHANGED uploads
      BY <3>1
    <3>2. CASE uploads' = Marked(req[Sweeper].did)
      BY <3>2 DEF Marked, Shape, Typed
    <3> QED BY <1>2, <3>1, <3>2 DEF Sweep, SelectUploads, SweepUpload, AfterSweepError,
                CommitUploads, SelectRows, SweepRow, CommitRows, storeVars
  <2> QED BY <2>1, <2>2, <2>3, ClaimFrame
<1>3. ASSUME NEW r \in Run, Work(r)
      PROVE  ClaimInv'
  <2>1. /\ UNCHANGED <<uploads, req>>
        /\ \A q \in Run : runs'[q].upload = runs[q].upload /\ runs'[q].retry = runs[q].retry
    <3>1. CASE Fetch(r) \/ PersistSources(r)
      BY <3>1 DEF Fetch, PersistSources
    <3>2. CASE EndRun(r)
      <4>1. PICK how \in Ended : runs' = [runs EXCEPT ![r].status = how]
        BY <3>2 DEF EndRun
      <4> QED BY <3>2, <4>1 DEF EndRun, Shape, Typed
    <3> QED BY <1>3, <3>1, <3>2 DEF Work
  <2> QED BY <2>1, ClaimFrame
<1>4. ASSUME NEW u \in Upload, Expires(u)
      PROVE  ClaimInv'
  <2>1. /\ UNCHANGED <<runs, req>>
        /\ \A v \in Upload : uploads'[v].claimed = uploads[v].claimed
    BY <1>4 DEF Expires, Shape, Typed
  <2> QED BY <2>1, ClaimFrame
<1>5. ASSUME NEW s \in Row, Age(s)
      PROVE  ClaimInv'
  BY <1>5, ClaimFrame DEF Age
<1>6. ASSUME NEW p \in Process, Crash(p)
      PROVE  ClaimInv'
  <2>1. req'[p].op = "idle" /\ \A q \in Process \ {p} : req'[q] = req[q]
    BY <1>6, Steps DEF Crash, Shape, Step, Idle, Holds
  <2> QED BY <1>6, <2>1, ClaimFrame DEF Crash, storeVars
<1>7. CASE UNCHANGED vars
  BY <1>7, ClaimFrame DEF vars, storeVars
<1> QED BY <1>1, <1>2, <1>3, <1>4, <1>5, <1>6, <1>7 DEF Next

\* However many requests race, and whatever they reuse, an upload is attached
\* by one creation.
THEOREM SingleUse == Spec => []UploadSingleUse
<1>1. Init => Shape /\ ClaimInv
  BY ShapeInit DEF Init, ClaimInv, UploadSingleUse, NoRun, Idle, Holds
<1>2. Shape /\ ClaimInv /\ [Next]_vars => (Shape /\ ClaimInv)'
  BY ShapeNext, ClaimNext
<1>3. ClaimInv => UploadSingleUse
  BY DEF ClaimInv
<1> QED BY <1>1, <1>2, <1>3, PTL DEF Spec

------------------------------------------------------------------------------
(* Exports and the deletion of reports *)

Storing(x)  == x.op \in {"putExport", "saveExport"}
Deleting(x) == x.op \in {"listExports", "deleteReport"}

\* What a request holds agrees with the rows and the storage.
HolderInv ==
  \A p \in Process :
    /\ Deleting(req[p]) => runs[req[p].run].deletion # "none"
    /\ Storing(req[p]) =>
         /\ exports[req[p].arg] = None
         /\ \A q \in Process : req[p].arg \notin req[q].todo \union req[q].did
    /\ req[p].op = "saveExport" => req[p].arg \in objects
    /\ req[p].op = "undo" /\ req[p].arg \in Export =>
         exports[req[p].arg] = None \/ req[p].arg \in unanswered
    /\ req[p].op = "deleteReport" =>
         /\ \A e \in req[p].todo \union req[p].did : exports[e] \in {None, req[p].run}
         /\ \A e \in Export :
              exports[e] = req[p].run => e \in req[p].todo \union req[p].did \union late

\* One process holds an export.
HeldOnce ==
  \A p, q \in Process : req[p].arg \in Export /\ req[p].arg = req[q].arg => p = q

RunInv ==
  \A r \in Run : /\ runs[r].deletion # "none" => runs[r].status \in Ended
                 /\ runs[r].deleted => runs[r].deletion # "none"

ExportInv == HolderInv /\ HeldOnce /\ RunInv /\ ExportsReadable /\ DeletionIsThorough

\* A step after which one process holds nothing, all rows are as they were, and
\* no export has left the storage that counts.
LEMMA ExportFrame ==
  ASSUME Shape, ExportInv,
         \A q \in Process : req'[q] = req[q] \/ req'[q] = Idle
                            \/ (req'[q].op \notin {"deleteReport", "listExports",
                                                  "putExport", "saveExport"}
                                /\ req'[q].arg \notin Export
                                /\ \A e \in Export : e \notin req'[q].todo \union req'[q].did),
         \A r \in Run : /\ runs'[r].deletion = runs[r].deletion
                        /\ runs'[r].deleted = runs[r].deleted
                        /\ runs[r].status \in Ended => runs'[r].status \in Ended,
         UNCHANGED <<exports, unanswered, late>>,
         \A e \in Export : e \in objects => e \in objects'
  PROVE  ExportInv'
<1>1. \A q \in Process : Kind(q, req[q])
  BY DEF Shape, Kinds
<1>2. \A e \in Export : exports[e] \in Run \union {None}
  BY DEF Shape, Typed
<1>3. Idle.op = "idle" /\ Idle.arg \notin Export /\ Idle.todo = {} /\ Idle.did = {}
  BY ReportStoreAssumption DEF Idle, Holds
<1>4. HeldOnce'
  BY <1>3 DEF ExportInv, HeldOnce
<1>5. RunInv'
  BY DEF ExportInv, RunInv
<1>6. ExportsReadable' /\ DeletionIsThorough'
  BY <1>2 DEF ExportInv, ExportsReadable, DeletionIsThorough
<1>7. HolderInv'
  <2> SUFFICES ASSUME NEW p \in Process, req'[p].op \in {"undo", "deleteReport", "listExports",
                                                         "putExport", "saveExport"}
               PROVE  /\ Deleting(req'[p]) => runs'[req'[p].run].deletion # "none"
                      /\ Storing(req'[p]) =>
                           /\ exports'[req'[p].arg] = None
                           /\ \A q \in Process : req'[p].arg \notin req'[q].todo \union req'[q].did
                      /\ req'[p].op = "saveExport" => req'[p].arg \in objects'
                      /\ req'[p].op = "undo" /\ req'[p].arg \in Export =>
                           exports'[req'[p].arg] = None \/ req'[p].arg \in unanswered'
                      /\ req'[p].op = "deleteReport" =>
                           /\ \A e \in req'[p].todo \union req'[p].did :
                                exports'[e] \in {None, req'[p].run}
                           /\ \A e \in Export : exports'[e] = req'[p].run =>
                                e \in req'[p].todo \union req'[p].did \union late'
    BY DEF HolderInv, Deleting, Storing
  <2>0. CASE req'[p].op = "undo" /\ req'[p].arg \notin Export
    BY <2>0 DEF Storing, Deleting
  <2>1. CASE req'[p] = req[p]
    <3>1. /\ Deleting(req[p]) \/ Storing(req[p]) => req[p].run \in Run
          /\ Storing(req[p]) => req[p].arg \in Export
      BY <1>1 DEF Kind, Deleting, Storing
    <3>2. Storing(req[p]) => \A q \in Process : req[p].arg \notin req'[q].todo \union req'[q].did
      BY <1>3, <3>1 DEF ExportInv, HolderInv
    <3> QED BY <2>1, <3>1, <3>2 DEF ExportInv, HolderInv, Storing, Deleting
  <2> QED BY <1>3, <2>0, <2>1
<1> QED BY <1>4, <1>5, <1>6, <1>7 DEF ExportInv

LEMMA StartExportInv ==
  ASSUME Shape, ExportInv, NEW p \in Request, StartExport(p)
  PROVE  ExportInv'
<1>0. p \in Process /\ \A q \in Process \ {p} : req'[q] = req[q]
  BY OnlyThis DEF Serve
<1>1. PICK r \in Run, e \in Export :
        /\ exports[e] = None /\ ~InUse(e)
        /\ Become(p, "putExport", e, r)
        /\ UNCHANGED <<storeVars, history>>
  BY DEF StartExport
<1>2. req'[p] = Holds("putExport", e, r, {}, {})
  BY <1>0, <1>1, Now DEF Op, RequestOp, Arg, For
<1>3. /\ req'[p].op = "putExport" /\ req'[p].arg = e /\ req'[p].run = r
      /\ req'[p].todo = {} /\ req'[p].did = {}
  BY <1>2 DEF Holds
<1>4. \A q \in Process : req[q].arg # e /\ e \notin req[q].todo \union req[q].did
  BY <1>1 DEF InUse
<1>5. UNCHANGED <<objects, runs, exports, unanswered, late>>
  BY <1>1 DEF storeVars, history
<1>6. HeldOnce'
  BY <1>0, <1>3, <1>4 DEF ExportInv, HeldOnce
<1>7. HolderInv'
  BY <1>0, <1>1, <1>3, <1>4, <1>5 DEF ExportInv, HolderInv, Storing, Deleting
<1> QED BY <1>5, <1>6, <1>7 DEF ExportInv, RunInv, ExportsReadable, DeletionIsThorough

LEMMA PutExportInv ==
  ASSUME Shape, ExportInv, NEW p \in Request, PutExport(p)
  PROVE  ExportInv'
<1>0. p \in Process /\ \A q \in Process \ {p} : req'[q] = req[q]
  BY OnlyThis DEF Serve
<1>1. /\ req[p].op = "putExport" /\ req[p].arg \in Export /\ req[p].run \in Run
      /\ objects \subseteq objects'
      /\ UNCHANGED <<runs, exports, unanswered, late>>
  BY <1>0 DEF PutExport, Put, history, Shape, Kinds, Kind
<1>2. CASE Done(p)
  BY <1>0, <1>1, <1>2, Now, ExportFrame
<1>3. CASE Put(req[p].arg) /\ Become(p, "saveExport", req[p].arg, req[p].run)
  <2>1. req'[p] = Holds("saveExport", req[p].arg, req[p].run, {}, {})
    BY <1>0, <1>1, <1>3, Now DEF Op, RequestOp, Arg, For
  <2>2. /\ req'[p].op = "saveExport" /\ req'[p].arg = req[p].arg /\ req'[p].run = req[p].run
        /\ req'[p].todo = {} /\ req'[p].did = {}
    BY <2>1 DEF Holds
  <2>3. HeldOnce'
    BY <1>0, <2>2 DEF ExportInv, HeldOnce
  <2>4. HolderInv'
    BY <1>0, <1>1, <1>3, <2>2 DEF ExportInv, HolderInv, Storing, Deleting, Put
  <2> QED BY <1>1, <2>3, <2>4 DEF ExportInv, RunInv, ExportsReadable, DeletionIsThorough
<1> QED BY <1>2, <1>3 DEF PutExport

LEMMA SaveExportInv ==
  ASSUME Shape, ExportInv, NEW p \in Request, SaveExport(p)
  PROVE  ExportInv'
<1>0. p \in Process /\ \A q \in Process \ {p} : req'[q] = req[q]
  BY OnlyThis DEF Serve
<1> DEFINE e == req[p].arg
           r == req[p].run
<1>1. /\ req[p].op = "saveExport" /\ e \in Export /\ r \in Run /\ Storing(req[p])
      /\ UNCHANGED <<objects, runs>>
  BY <1>0 DEF SaveExport, Shape, Kinds, Kind, Storing
<1>2. /\ exports[e] = None /\ e \in objects
      /\ \A q \in Process : e \notin req[q].todo \union req[q].did
      /\ \A q \in Process \ {p} : req[q].arg # e
  BY <1>0, <1>1 DEF ExportInv, HolderInv, HeldOnce
<1>3. CASE Done(p) \/ Become(p, "undo", e, None)
  <2>1. /\ req'[p].op \in {"idle", "undo"} /\ req'[p].arg \in {None, e}
        /\ req'[p].todo = {} /\ req'[p].did = {}
    <3>1. Done(p) => req'[p] = Idle
      BY <1>0, Now
    <3>2. Become(p, "undo", e, None) => req'[p] = Holds("undo", e, None, {}, {})
      BY <1>0, <1>1, Now DEF Op, RequestOp, Arg, For
    <3> QED BY <1>3, <3>1, <3>2 DEF Idle, Holds
  <2>2. HeldOnce'
    BY <1>0, <1>2, <2>1, ReportStoreAssumption DEF ExportInv, HeldOnce
  <2>3. CASE UNCHANGED <<exports, unanswered, late>>
    <3>1. HolderInv'
      BY <1>0, <1>1, <1>2, <2>1, <2>3, ReportStoreAssumption
         DEF ExportInv, HolderInv, Storing, Deleting
    <3> QED BY <1>1, <2>2, <2>3, <3>1
            DEF ExportInv, RunInv, ExportsReadable, DeletionIsThorough
  <2>4. CASE /\ exports' = [exports EXCEPT ![e] = r]
             /\ late' = IF runs[r].deletion = "none" THEN late ELSE late \union {e}
             /\ req'[p].op = "undo" => e \in unanswered'
             /\ unanswered \subseteq unanswered'
    <3>1. exports'[e] = r /\ \A x \in Export \ {e} : exports'[x] = exports[x]
      BY <1>1, <2>4 DEF Shape, Typed
    <3>2. /\ late \subseteq late'
          /\ runs[r].deletion # "none" => e \in late'
      BY <2>4
    <3>3. \A q \in Process : Kind(q, req[q])
      BY DEF Shape, Kinds
    <3>4. ASSUME NEW q \in Process \ {p}
          PROVE  /\ Deleting(req'[q]) => runs'[req'[q].run].deletion # "none"
                 /\ Storing(req'[q]) =>
                      /\ exports'[req'[q].arg] = None
                      /\ \A x \in Process : req'[q].arg \notin req'[x].todo \union req'[x].did
                 /\ req'[q].op = "saveExport" => req'[q].arg \in objects'
                 /\ req'[q].op = "undo" /\ req'[q].arg \in Export =>
                      exports'[req'[q].arg] = None \/ req'[q].arg \in unanswered'
      BY <1>0, <1>1, <1>2, <2>1, <2>4, <3>1, <3>3
         DEF ExportInv, HolderInv, Storing, Deleting, Kind
    <3>5. ASSUME NEW q \in Process \ {p}, req'[q].op = "deleteReport"
          PROVE  /\ \A x \in req'[q].todo \union req'[q].did : exports'[x] \in {None, req'[q].run}
                 /\ \A x \in Export : exports'[x] = req'[q].run =>
                      x \in req'[q].todo \union req'[q].did \union late'
      <4>1. /\ req'[q] = req[q] /\ Deleting(req[q])
            /\ req[q].todo \subseteq Export /\ req[q].did \subseteq Export
        BY <1>0, <3>3, <3>5 DEF Kind, Deleting
      <4>2. runs[req[q].run].deletion # "none"
        BY <4>1 DEF ExportInv, HolderInv
      <4> QED BY <1>2, <3>1, <3>2, <3>5, <4>1, <4>2 DEF ExportInv, HolderInv
    <3>6. HolderInv'
      BY <1>1, <2>1, <2>4, <3>4, <3>5, ReportStoreAssumption
         DEF HolderInv, Storing, Deleting
    <3>7. ExportsReadable'
      BY <1>1, <1>2, <2>4, <3>1 DEF ExportInv, ExportsReadable
    <3>8. DeletionIsThorough'
      BY <1>1, <3>1, <3>2 DEF ExportInv, DeletionIsThorough, RunInv
    <3> QED BY <1>1, <2>2, <3>6, <3>7, <3>8 DEF ExportInv, RunInv
  <2>5. Done(p) => req'[p].op # "undo"
    BY <1>0, Now DEF Idle, Holds
  <2> QED BY <2>3, <2>4, <2>5 DEF SaveExport, history
<1> QED BY <1>3 DEF SaveExport

LEMMA UndoInv ==
  ASSUME Shape, ExportInv, NEW p \in Request, Undo(p)
  PROVE  ExportInv'
<1>0. p \in Process /\ \A q \in Process \ {p} : req'[q] = req[q]
  BY OnlyThis DEF Serve
<1>1. /\ req'[p] = Idle /\ req[p].op = "undo"
      /\ UNCHANGED <<runs, exports, unanswered, late>>
      /\ \A e \in Export : e \in objects => e \in objects' \/ e = req[p].arg
  BY <1>0, Now DEF Undo, Drop, history
<1>2. CASE req[p].arg \notin Export
  BY <1>0, <1>1, <1>2, ExportFrame
<1>3. CASE req[p].arg \in Export
  <2>1. /\ req'[p].op = "idle" /\ req'[p].arg \notin Export
        /\ req'[p].todo = {} /\ req'[p].did = {}
    BY <1>1, ReportStoreAssumption DEF Idle, Holds
  <2>2. HeldOnce'
    BY <1>0, <2>1 DEF ExportInv, HeldOnce
  <2>3. \A q \in Process \ {p} : req[q].arg # req[p].arg
    BY <1>0, <1>3 DEF ExportInv, HeldOnce
  <2>4. \A q \in Process : Kind(q, req[q])
    BY DEF Shape, Kinds
  <2>5. HolderInv'
    BY <1>0, <1>1, <2>1, <2>3, <2>4 DEF ExportInv, HolderInv, Storing, Deleting, Kind
  <2>6. ExportsReadable'
    BY <1>0, <1>1, <1>3 DEF ExportInv, HolderInv, ExportsReadable
  <2> QED BY <1>1, <2>2, <2>5, <2>6 DEF ExportInv, RunInv, DeletionIsThorough
<1> QED BY <1>2, <1>3

LEMMA InsertRunExports ==
  ASSUME Shape, ExportInv, NEW p \in Request, InsertRun(p)
  PROVE  ExportInv'
<1>0. p \in Process /\ \A q \in Process \ {p} : req'[q] = req[q]
  BY OnlyThis DEF Serve
<1>1. req'[p] = Idle /\ UNCHANGED <<objects, exports, unanswered, late>>
  BY <1>0, Now DEF InsertRun, history
<1>2. \A r \in Run : /\ runs'[r].deletion = runs[r].deletion
                     /\ runs'[r].deleted = runs[r].deleted
                     /\ runs[r].status \in Ended => runs'[r].status \in Ended
  <2>1. CASE UNCHANGED runs
    BY <2>1
  <2>2. CASE \E r \in Run :
               /\ runs[r].status = "none"
               /\ runs' = [runs EXCEPT ![r] = [NoRun EXCEPT !.status = "active",
                             !.upload = req[p].arg, !.retry = req[p].run # None]]
    <3>1. PICK r \in Run :
               /\ runs[r].status = "none"
               /\ runs' = [runs EXCEPT ![r] = [NoRun EXCEPT !.status = "active",
                             !.upload = req[p].arg, !.retry = req[p].run # None]]
      BY <2>2
    <3>2. /\ \A q \in Run \ {r} : runs'[q] = runs[q]
          /\ runs'[r].deletion = "none" /\ runs'[r].deleted = FALSE
      BY <3>1 DEF NoRun, Shape, Typed
    <3>3. runs[r].status \notin Ended
      BY <3>1 DEF Ended
    <3>4. runs[r] \in RunRecord
      BY DEF Shape, Typed
    <3>5. runs[r].deletion = "none" /\ runs[r].deleted = FALSE
      BY <3>3, <3>4 DEF ExportInv, RunInv, RunRecord
    <3> QED BY <3>2, <3>3, <3>5
  <2> QED BY <2>1, <2>2 DEF InsertRun
<1> QED BY <1>0, <1>1, <1>2, ExportFrame

LEMMA RequestDeletionInv ==
  ASSUME Shape, ExportInv, NEW p \in Request, RequestDeletion(p)
  PROVE  ExportInv'
<1>0. p \in Process /\ \A q \in Process \ {p} : req'[q] = req[q]
  BY OnlyThis DEF Serve
<1>1. PICK r \in Run : Deletable(r) /\ runs' = Processing(r)
                       /\ Become(p, "listExports", None, r)
  BY DEF RequestDeletion
<1>2. req'[p] = Holds("listExports", None, r, {}, {})
  BY <1>0, <1>1, Now DEF Op, RequestOp, Arg, For
<1>3. /\ req'[p].op = "listExports" /\ req'[p].arg = None /\ req'[p].run = r
      /\ req'[p].todo = {} /\ req'[p].did = {}
  BY <1>2 DEF Holds
<1>4. UNCHANGED <<objects, exports, unanswered, late>>
  BY DEF RequestDeletion, history
<1>5. /\ \A q \in Run : runs'[q].deleted = runs[q].deleted /\ runs'[q].status = runs[q].status
      /\ \A q \in Run \ {r} : runs'[q].deletion = runs[q].deletion
      /\ runs'[r].deletion = "processing"
  BY <1>1 DEF Processing, Shape, Typed, RunRecord
<1>6. \A q \in Process : Kind(q, req[q])
  BY DEF Shape, Kinds
<1>7. HeldOnce'
  BY <1>0, <1>3, ReportStoreAssumption DEF ExportInv, HeldOnce
<1>8. HolderInv'
  BY <1>0, <1>3, <1>4, <1>5, <1>6 DEF ExportInv, HolderInv, Storing, Deleting, Kind
<1>9. RunInv'
  BY <1>1, <1>5 DEF ExportInv, RunInv, Deletable
<1>10. ExportsReadable' /\ DeletionIsThorough'
  <2>1. \A e \in Export : exports[e] \in Run \union {None}
    BY DEF Shape, Typed
  <2> QED BY <1>4, <1>5, <2>1 DEF ExportInv, ExportsReadable, DeletionIsThorough
<1> QED BY <1>7, <1>8, <1>9, <1>10 DEF ExportInv

LEMMA ListExportsInv ==
  ASSUME Shape, ExportInv, NEW p \in Request, ListExports(p)
  PROVE  ExportInv'
<1>0. p \in Process /\ \A q \in Process \ {p} : req'[q] = req[q]
  BY OnlyThis DEF Serve
<1>1. /\ req[p].op = "listExports" /\ req[p].run \in Run /\ Deleting(req[p])
      /\ UNCHANGED <<objects, runs, exports, unanswered, late>>
  BY <1>0 DEF ListExports, storeVars, history, Shape, Kinds, Kind, Deleting
<1>2. req'[p] = Holds("deleteReport", None, req[p].run, Listed(req[p].run), {})
  <2>1. Listed(req[p].run) \in SUBSET Things /\ req[p].run \in For
    BY <1>1 DEF Listed, Things, For
  <2> QED BY <1>0, <2>1, Now DEF ListExports, Op, RequestOp
<1>3. /\ req'[p].op = "deleteReport" /\ req'[p].arg = None /\ req'[p].run = req[p].run
      /\ req'[p].todo = {e \in Export : exports[e] = req[p].run} /\ req'[p].did = {}
  BY <1>2 DEF Holds, Listed
<1>4. HeldOnce'
  BY <1>0, <1>3, ReportStoreAssumption DEF ExportInv, HeldOnce
<1>5. \A q \in Process : Kind(q, req[q])
  BY DEF Shape, Kinds
<1>6. req[p].run # None
  BY <1>1, ReportStoreAssumption
<1>7. HolderInv'
  BY <1>0, <1>1, <1>3, <1>5, <1>6 DEF ExportInv, HolderInv, Storing, Deleting
<1> QED BY <1>1, <1>4, <1>7 DEF ExportInv, RunInv, ExportsReadable, DeletionIsThorough

LEMMA DeleteExportInv ==
  ASSUME Shape, ExportInv, NEW p \in Request, DeleteExport(p)
  PROVE  ExportInv'
<1>0. p \in Process /\ \A q \in Process \ {p} : req'[q] = req[q]
  BY OnlyThis DEF Serve
<1>1. PICK e \in req[p].todo :
        \/ Drop(e) /\ Did(p, e)
        \/ (Drop(e) \/ UNCHANGED objects) /\ Done(p)
  BY DEF DeleteExport
<1>2. /\ req[p].op = "deleteReport" /\ req[p].run \in Run /\ Deleting(req[p])
      /\ e \in Export /\ e \in Things /\ req[p].arg = None
      /\ UNCHANGED <<runs, exports, unanswered, late>>
      /\ \A x \in Export : x \in objects => x \in objects' \/ x = e
  BY <1>0, <1>1 DEF DeleteExport, Drop, history, Shape, Kinds, Kind, Deleting, SweepOp, Things
<1>3. /\ exports[e] \in {None, req[p].run}
      /\ runs[req[p].run].deletion # "none"
  BY <1>0, <1>2 DEF ExportInv, HolderInv
<1>4. \A q \in Process : Kind(q, req[q])
  BY DEF Shape, Kinds
<1>5. /\ req'[p].arg = None
      /\ \/ req'[p].op = "idle" /\ req'[p].todo = {} /\ req'[p].did = {}
         \/ /\ req'[p].op = "deleteReport" /\ req'[p].run = req[p].run
            /\ req'[p].todo = req[p].todo \ {e} /\ req'[p].did = req[p].did \union {e}
  <2>1. Done(p) => req'[p] = Idle
    BY <1>0, Now
  <2>2. Did(p, e) => req'[p] = After(req[p], e)
    BY <1>0, <1>2, Now
  <2> QED BY <1>1, <1>2, <2>1, <2>2 DEF Idle, After, Holds
<1>6. HeldOnce'
  BY <1>0, <1>5, ReportStoreAssumption DEF ExportInv, HeldOnce
<1>7. \A q \in Process : Storing(req[q]) => req[q].arg # e
  BY <1>0, <1>1, <1>4 DEF ExportInv, HolderInv
<1>8. ASSUME NEW q \in Process \ {p}
      PROVE  /\ Deleting(req'[q]) => runs'[req'[q].run].deletion # "none"
             /\ Storing(req'[q]) =>
                  /\ exports'[req'[q].arg] = None
                  /\ \A x \in Process : req'[q].arg \notin req'[x].todo \union req'[x].did
             /\ req'[q].op = "saveExport" => req'[q].arg \in objects'
             /\ req'[q].op = "undo" /\ req'[q].arg \in Export =>
                  exports'[req'[q].arg] = None \/ req'[q].arg \in unanswered'
             /\ req'[q].op = "deleteReport" =>
                  /\ \A x \in req'[q].todo \union req'[q].did : exports'[x] \in {None, req'[q].run}
                  /\ \A x \in Export : exports'[x] = req'[q].run =>
                       x \in req'[q].todo \union req'[q].did \union late'
  <2>1. req'[q] = req[q] /\ q \in Process /\ Kind(q, req[q])
    BY <1>0, <1>4
  <2>2. Storing(req[q]) =>
          \A x \in Process : req[q].arg \notin req'[x].todo \union req'[x].did
    <3>1. Storing(req[q]) => req[q].arg \notin req'[p].todo \union req'[p].did
      BY <1>0, <1>5, <1>7, <2>1 DEF ExportInv, HolderInv
    <3> QED BY <1>0, <2>1, <3>1 DEF ExportInv, HolderInv
  <2>3. req[q].op = "saveExport" => req[q].arg \in objects'
    BY <1>2, <1>7, <2>1 DEF ExportInv, HolderInv, Storing, Kind
  <2> QED BY <1>2, <2>1, <2>2, <2>3 DEF ExportInv, HolderInv, Storing, Deleting
<1>9. /\ Deleting(req'[p]) => runs'[req'[p].run].deletion # "none"
      /\ ~Storing(req'[p]) /\ req'[p].op # "undo"
      /\ req'[p].op = "deleteReport" =>
           /\ \A x \in req'[p].todo \union req'[p].did : exports'[x] \in {None, req'[p].run}
           /\ \A x \in Export : exports'[x] = req'[p].run =>
                x \in req'[p].todo \union req'[p].did \union late'
  BY <1>0, <1>2, <1>3, <1>5 DEF ExportInv, HolderInv, Storing, Deleting
<1>10. HolderInv'
  BY <1>8, <1>9 DEF HolderInv, Storing
<1>11. ExportsReadable'
  BY <1>2, <1>3 DEF ExportInv, ExportsReadable
<1> QED BY <1>2, <1>6, <1>10, <1>11 DEF ExportInv, RunInv, DeletionIsThorough

LEMMA FinishDeletionInv ==
  ASSUME Shape, ExportInv, NEW p \in Request, FinishDeletion(p)
  PROVE  ExportInv'
<1>0. p \in Process /\ \A q \in Process \ {p} : req'[q] = req[q]
  BY OnlyThis DEF Serve
<1>1. /\ req[p].op = "deleteReport" /\ req[p].todo = {} /\ req[p].run \in Run
      /\ Deleting(req[p]) /\ req[p].did \subseteq Export
      /\ req'[p] = Idle /\ UNCHANGED <<objects, unanswered, late>>
  BY <1>0, Now DEF FinishDeletion, history, Shape, Kinds, Kind, Deleting
<1>2. CASE UNCHANGED <<exports, runs>>
  BY <1>0, <1>1, <1>2, ExportFrame
<1>3. CASE /\ exports' = [e \in Export |-> IF e \in req[p].did THEN None ELSE exports[e]]
           /\ runs' = Erased(req[p].run)
  <2>1. /\ req'[p].op = "idle" /\ req'[p].arg = None
        /\ req'[p].todo = {} /\ req'[p].did = {}
    BY <1>1 DEF Idle, Holds
  <2>2. \A e \in Export : exports'[e] = IF e \in req[p].did THEN None ELSE exports[e]
    BY <1>3
  <2>3. /\ \A q \in Run \ {req[p].run} : runs'[q] = runs[q]
        /\ runs'[req[p].run].deletion = "completed"
        /\ runs'[req[p].run].status = runs[req[p].run].status
    BY <1>1, <1>3 DEF Erased, Shape, Typed, RunRecord
  <2>4. \A q \in Process : Kind(q, req[q])
    BY DEF Shape, Kinds
  <2>5. HeldOnce'
    BY <1>0, <2>1, ReportStoreAssumption DEF ExportInv, HeldOnce
  <2>6. RunInv'
    BY <1>0, <1>1, <2>3 DEF ExportInv, RunInv, HolderInv
  <2>7. ASSUME NEW q \in Process \ {p}
        PROVE  /\ Deleting(req[q]) => runs'[req[q].run].deletion # "none"
               /\ Storing(req[q]) =>
                    /\ exports'[req[q].arg] = None
                    /\ \A x \in Process : req[q].arg \notin req'[x].todo \union req'[x].did
               /\ req[q].op = "saveExport" => req[q].arg \in objects'
               /\ req[q].op = "undo" /\ req[q].arg \in Export =>
                    exports'[req[q].arg] = None \/ req[q].arg \in unanswered'
               /\ req[q].op = "deleteReport" =>
                    /\ \A x \in req[q].todo \union req[q].did : exports'[x] \in {None, req[q].run}
                    /\ \A x \in Export : exports'[x] = req[q].run =>
                         x \in req[q].todo \union req[q].did \union late'
    <3>1. Kind(q, req[q]) /\ q \in Process
      BY <2>4
    <3>2. Deleting(req[q]) => req[q].run \in Run /\ req[q].run # None
      BY <3>1, ReportStoreAssumption DEF Kind, Deleting
    <3>3. Storing(req[q]) => req[q].arg \in Export
      BY <3>1 DEF Kind, Storing
    <3>4. req[q].op = "deleteReport" => req[q].todo \subseteq Export /\ req[q].did \subseteq Export
      BY <3>1 DEF Kind
    <3>5. Deleting(req[q]) => runs'[req[q].run].deletion # "none"
      BY <2>3, <3>1, <3>2 DEF ExportInv, HolderInv
    <3>6. Storing(req[q]) =>
                    /\ exports'[req[q].arg] = None
                    /\ \A x \in Process : req[q].arg \notin req'[x].todo \union req'[x].did
      BY <1>0, <2>1, <2>2, <3>1, <3>3 DEF ExportInv, HolderInv
    <3>7. req[q].op = "deleteReport" =>
                    /\ \A x \in req[q].todo \union req[q].did : exports'[x] \in {None, req[q].run}
                    /\ \A x \in Export : exports'[x] = req[q].run =>
                         x \in req[q].todo \union req[q].did \union late'
      <4> SUFFICES ASSUME req[q].op = "deleteReport"
                   PROVE  /\ \A x \in req[q].todo \union req[q].did :
                               exports'[x] \in {None, req[q].run}
                          /\ \A x \in Export : exports'[x] = req[q].run =>
                               x \in req[q].todo \union req[q].did \union late'
        OBVIOUS
      <4>1. req[q].run # None
        BY <3>2 DEF Deleting
      <4> QED BY <1>1, <2>2, <3>1, <3>4, <4>1 DEF ExportInv, HolderInv
    <3>8. /\ req[q].op = "saveExport" => req[q].arg \in objects'
          /\ req[q].op = "undo" /\ req[q].arg \in Export =>
               exports'[req[q].arg] = None \/ req[q].arg \in unanswered'
      BY <1>1, <2>2, <3>1 DEF ExportInv, HolderInv
    <3> QED BY <3>5, <3>6, <3>7, <3>8
  <2>8. HolderInv'
    BY <1>0, <2>1, <2>7 DEF HolderInv, Storing, Deleting
  <2>9. ExportsReadable'
    <3>1. \A e \in Export : exports[e] \in Run \union {None}
      BY DEF Shape, Typed
    <3> SUFFICES ASSUME NEW e \in Export, exports'[e] # None,
                        runs'[exports'[e]].deletion = "none", e \notin unanswered'
                 PROVE  e \in objects'
      BY DEF ExportsReadable
    <3>2. exports'[e] = exports[e] /\ exports[e] \in Run \ {req[p].run}
      BY <2>2, <2>3, <3>1
    <3>3. runs[exports[e]].deletion = "none"
      BY <2>3, <3>2
    <3> QED BY <1>1, <3>2, <3>3 DEF ExportInv, ExportsReadable
  <2>10. DeletionIsThorough'
    <3>1. \A e \in Export : exports'[e] = req[p].run => e \in late
      BY <1>0, <1>1, <2>2, ReportStoreAssumption DEF ExportInv, HolderInv
    <3>2. \A e \in Export : exports'[e] \in {None, exports[e]} /\ exports[e] \in Run \union {None}
      BY <2>2 DEF Shape, Typed
    <3> QED BY <1>1, <2>3, <3>1, <3>2 DEF ExportInv, DeletionIsThorough
  <2> QED BY <2>5, <2>6, <2>8, <2>9, <2>10 DEF ExportInv
<1> QED BY <1>2, <1>3 DEF FinishDeletion

LEMMA ExportNext ==
  ASSUME Shape, ExportInv, [Next]_vars
  PROVE  ExportInv'
<1>1. ASSUME NEW p \in Request, Serve(p)
      PROVE  ExportInv'
  <2>0. /\ p \in Process /\ \A q \in Process \ {p} : req'[q] = req[q]
        /\ Kind(p, req[p]) /\ None \in Arg /\ None \in For
    BY <1>1, OnlyThis DEF Shape, Kinds, Arg, For
  <2>1. CASE PutUpload(p)
    <3>1. PICK u \in Upload : Become(p, "saveUpload", u, None) \/ Done(p)
      BY <2>1 DEF PutUpload
    <3>2. Become(p, "saveUpload", u, None) => req'[p] = Holds("saveUpload", u, None, {}, {})
      BY <2>0, Now DEF Op, RequestOp, Arg
    <3>3. Done(p) => req'[p] = Idle
      BY <2>0, Now
    <3>4. \/ req'[p] = Idle
          \/ /\ req'[p].op = "saveUpload" /\ req'[p].arg \notin Export
             /\ req'[p].todo = {} /\ req'[p].did = {}
      BY <3>1, <3>2, <3>3, ReportStoreAssumption DEF Holds
    <3>5. /\ \A e \in Export : e \in objects => e \in objects'
          /\ UNCHANGED <<runs, exports, unanswered, late>>
      BY <2>1 DEF PutUpload, Put, history
    <3> QED BY <2>0, <3>4, <3>5, ExportFrame
  <2>2. CASE SaveUpload(p)
    <3>1. req[p].arg \in Upload
      BY <2>0, <2>2 DEF SaveUpload, Kind
    <3>2. Become(p, "undo", req[p].arg, None) => req'[p] = Holds("undo", req[p].arg, None, {}, {})
      BY <2>0, <3>1, Now DEF Op, RequestOp, Arg
    <3>3. Done(p) => req'[p] = Idle
      BY <2>0, Now
    <3>4. \/ req'[p] = Idle
          \/ /\ req'[p].op = "undo" /\ req'[p].arg \notin Export
             /\ req'[p].todo = {} /\ req'[p].did = {}
      BY <2>2, <3>1, <3>2, <3>3, ReportStoreAssumption DEF SaveUpload, Holds
    <3>5. UNCHANGED <<objects, runs, exports, unanswered, late>>
      BY <2>2 DEF SaveUpload, history
    <3> QED BY <2>0, <3>4, <3>5, ExportFrame
  <2>3. CASE Undo(p)
    BY <2>3, UndoInv
  <2>4. CASE Admit(p)
    <3>1. PICK u \in Upload \union {None}, r \in For : Become(p, "insertRun", u, r)
      BY <2>0, <2>4 DEF Admit, Shape, Typed, RunRecord, For
    <3>2. req'[p] = Holds("insertRun", u, r, {}, {})
      BY <2>0, <3>1, Now DEF Op, RequestOp, Arg
    <3>3. /\ req'[p].op = "insertRun" /\ req'[p].arg \notin Export
          /\ req'[p].todo = {} /\ req'[p].did = {}
      BY <3>2, ReportStoreAssumption DEF Holds
    <3>4. UNCHANGED <<objects, runs, exports, unanswered, late>>
      BY <2>4 DEF Admit, storeVars, history
    <3> QED BY <2>0, <3>3, <3>4, ExportFrame
  <2>5. CASE InsertRun(p)
    BY <2>5, InsertRunExports
  <2>6. CASE StartExport(p)
    BY <2>6, StartExportInv
  <2>7. CASE PutExport(p)
    BY <2>7, PutExportInv
  <2>8. CASE SaveExport(p)
    BY <2>8, SaveExportInv
  <2>9. CASE RequestDeletion(p)
    BY <2>9, RequestDeletionInv
  <2>10. CASE ListExports(p)
    BY <2>10, ListExportsInv
  <2>11. CASE DeleteExport(p)
    BY <2>11, DeleteExportInv
  <2>12. CASE FinishDeletion(p)
    BY <2>12, FinishDeletionInv
  <2> QED BY <1>1, <2>1, <2>2, <2>3, <2>4, <2>5, <2>6, <2>7, <2>8, <2>9, <2>10, <2>11, <2>12
          DEF Serve
<1>2. CASE Sweep
  <2>0. Sweeper \in Process /\ Kind(Sweeper, req[Sweeper]) /\ Kind(Sweeper, req'[Sweeper])
        /\ (req'[Sweeper].op = "idle" => req'[Sweeper].todo = {} /\ req'[Sweeper].did = {})
    BY <1>2, SweepShape DEF Process, Shape, Kinds, Kind
  <2>1. /\ \A q \in Process \ {Sweeper} : req'[q] = req[q]
        /\ req'[Sweeper].op \in {"idle"} \union SweepOp
    BY <1>2, SweepOps
  <2>2. /\ req'[Sweeper].arg \notin Export
        /\ \A e \in Export : e \notin req'[Sweeper].todo \union req'[Sweeper].did
    BY <2>0, <2>1, ReportStoreAssumption DEF Kind, SweepOp
  <2>3. UNCHANGED <<runs, exports, unanswered, late>>
    BY <1>2 DEF Sweep, SelectUploads, SweepUpload, CommitUploads, SelectRows, SweepRow,
                CommitRows, storeVars, history
  <2>4. \A e \in Export : e \in objects => e \in objects'
    <3>1. CASE UNCHANGED objects
      BY <3>1
    <3>2. CASE SweepUpload
      <4>1. req[Sweeper].todo \subseteq Upload
        BY <2>0, <3>2 DEF SweepUpload, Kind
      <4> QED BY <3>2, <4>1, ReportStoreAssumption DEF SweepUpload, Drop
    <3>3. CASE SweepRow
      <4>1. \A s \in req[Sweeper].todo : rows[s] \in Content \union {None}
        BY <2>0, <3>3 DEF SweepRow, Kind, Shape, Typed
      <4> QED BY <3>3, <4>1, ReportStoreAssumption DEF SweepRow, Drop
    <3> QED BY <1>2, <3>1, <3>2, <3>3 DEF Sweep, SelectUploads, CommitUploads, SelectRows,
                CommitRows, storeVars
  <2> QED BY <2>1, <2>2, <2>3, <2>4, ExportFrame DEF SweepOp
<1>3. ASSUME NEW r \in Run, Work(r)
      PROVE  ExportInv'
  <2>1. UNCHANGED <<req, exports, unanswered, late>> /\ objects \subseteq objects'
    BY <1>3 DEF Work, Fetch, PersistSources, EndRun, Put, history
  <2>2. \A q \in Run : /\ runs'[q].deletion = runs[q].deletion
                       /\ runs'[q].deleted = runs[q].deleted
                       /\ runs[q].status \in Ended => runs'[q].status \in Ended
    <3>1. CASE Fetch(r) \/ PersistSources(r)
      BY <3>1 DEF Fetch, PersistSources
    <3>2. CASE EndRun(r)
      <4>1. PICK how \in Ended : runs' = [runs EXCEPT ![r].status = how]
        BY <3>2 DEF EndRun
      <4> QED BY <4>1 DEF Shape, Typed, RunRecord
    <3> QED BY <1>3, <3>1, <3>2 DEF Work
  <2> QED BY <2>1, <2>2, ExportFrame
<1>4. ASSUME NEW u \in Upload, Expires(u)
      PROVE  ExportInv'
  BY <1>4, ExportFrame DEF Expires, history
<1>5. ASSUME NEW s \in Row, Age(s)
      PROVE  ExportInv'
  BY <1>5, ExportFrame DEF Age, history
<1>6. ASSUME NEW p \in Process, Crash(p)
      PROVE  ExportInv'
  <2>1. req'[p] = Idle /\ \A q \in Process \ {p} : req'[q] = req[q]
    BY <1>6, Steps DEF Crash, Shape, Step
  <2> QED BY <1>6, <2>1, ExportFrame DEF Crash, storeVars, history
<1>7. CASE UNCHANGED vars
  BY <1>7, ExportFrame DEF vars, storeVars, history
<1> QED BY <1>1, <1>2, <1>3, <1>4, <1>5, <1>6, <1>7 DEF Next

LEMMA ExportAlways == Spec => []ExportInv
<1>1. Init => Shape /\ ExportInv
  <2> SUFFICES ASSUME Init PROVE ExportInv
    BY ShapeInit
  <2>1. \A p \in Process : req[p].op = "idle" /\ req[p].arg = None
    BY DEF Init, Idle, Holds
  <2>2. \A r \in Run : runs[r].deletion = "none" /\ runs[r].deleted = FALSE
    BY DEF Init, NoRun
  <2>3. \A e \in Export : exports[e] = None
    BY DEF Init
  <2> QED BY <2>1, <2>2, <2>3, ReportStoreAssumption
          DEF ExportInv, HolderInv, HeldOnce, RunInv, ExportsReadable, DeletionIsThorough,
              Storing, Deleting
<1>2. Shape /\ ExportInv /\ [Next]_vars => (Shape /\ ExportInv)'
  BY ShapeNext, ExportNext
<1> QED BY <1>1, <1>2, PTL DEF Spec

\* What a report offers for download is in the storage, whatever calls and
\* commits have failed and whoever else is deleting.
THEOREM Readable == Spec => []ExportsReadable
<1>1. ExportInv => ExportsReadable
  BY DEF ExportInv
<1> QED BY ExportAlways, <1>1, PTL

\* A deleted report keeps no export but those that were committed meanwhile.
THEOREM Thorough == Spec => []DeletionIsThorough
<1>1. ExportInv => DeletionIsThorough
  BY DEF ExportInv
<1> QED BY ExportAlways, <1>1, PTL

------------------------------------------------------------------------------
(* The number of active runs *)

Admitted == {p \in Request : req[p].op = "insertRun"}

LEMMA Counting ==
  ASSUME NEW S, IsFiniteSet(S), NEW T \in SUBSET S
  PROVE  /\ IsFiniteSet(T) /\ Cardinality(T) \in Nat /\ Cardinality(S) \in Nat
         /\ Cardinality(T) <= Cardinality(S)
         /\ \A x \in S : /\ Cardinality(S \ {x}) = Cardinality(S) - 1
                         /\ T \subseteq S \ {x} => Cardinality(T) <= Cardinality(S) - 1
<1>1. IsFiniteSet(T) /\ Cardinality(T) <= Cardinality(S)
  BY FS_Subset
<1>2. Cardinality(T) \in Nat /\ Cardinality(S) \in Nat
  BY <1>1, FS_CardinalityType
<1>3. ASSUME NEW x \in S
      PROVE  Cardinality(S \ {x}) = Cardinality(S) - 1 /\ IsFiniteSet(S \ {x})
  BY FS_RemoveElement
<1>4. ASSUME NEW x \in S, T \subseteq S \ {x}
      PROVE  Cardinality(T) <= Cardinality(S) - 1
  <2>1. IsFiniteSet(S \ {x}) /\ Cardinality(S \ {x}) = Cardinality(S) - 1
    BY <1>3
  <2>2. Cardinality(T) <= Cardinality(S \ {x})
    BY <1>4, <2>1, FS_Subset
  <2> QED BY <2>1, <2>2
<1> QED BY <1>1, <1>2, <1>3, <1>4

LEMMA Finite ==
  /\ IsFiniteSet(Request) /\ IsFiniteSet(Run)
  /\ IsFiniteSet(Active) /\ IsFiniteSet(Admitted)
  /\ Cardinality(Active) \in Nat /\ Cardinality(Admitted) \in Nat
  /\ Cardinality(Request) \in Nat /\ MaxActive \in Nat \ {0}
<1>1. Active \in SUBSET Run /\ Admitted \in SUBSET Request
  BY DEF Active, Admitted
<1> QED BY <1>1, Counting, ReportStoreAssumption

\* The counts change with an admission and with an insertion; any other step
\* leaves them or makes them smaller.
LEMMA Calm ==
  ASSUME ActiveRunsBounded, Active' \in SUBSET Active, Admitted' \in SUBSET Admitted
  PROVE  ActiveRunsBounded'
<1>1. /\ Cardinality(Active') <= Cardinality(Active) /\ Cardinality(Active') \in Nat
      /\ Cardinality(Admitted') <= Cardinality(Admitted) /\ Cardinality(Admitted') \in Nat
  BY Finite, Counting
<1>2. Cardinality(Active) + Cardinality(Admitted) <= MaxActive + Cardinality(Request) - 1
  BY DEF ActiveRunsBounded, Admitted
<1>3. Cardinality(Active') + Cardinality(Admitted') <= MaxActive + Cardinality(Request) - 1
  BY <1>1, <1>2, Finite
<1> QED BY <1>3 DEF ActiveRunsBounded, Admitted

LEMMA AdmitBounded ==
  ASSUME Shape, NEW p \in Request, Admit(p)
  PROVE  ActiveRunsBounded'
<1>1. Cardinality(Active) < MaxActive /\ Active' = Active
  BY DEF Admit, BelowLimit, storeVars, Active
<1>2. Admitted' \in SUBSET Request
  BY DEF Admitted
<1>3. Cardinality(Admitted') <= Cardinality(Request) /\ Cardinality(Admitted') \in Nat
  BY <1>2, Finite, Counting
<1>4. Cardinality(Active') + Cardinality(Admitted') <= MaxActive + Cardinality(Request) - 1
  BY <1>1, <1>3, Finite
<1> QED BY <1>4 DEF ActiveRunsBounded, Admitted

LEMMA InsertBounded ==
  ASSUME Shape, ActiveRunsBounded, NEW p \in Request, InsertRun(p)
  PROVE  ActiveRunsBounded'
<1>1. req'[p] = Idle /\ \A q \in Process \ {p} : req'[q] = req[q]
  <2>1. p \in Process /\ Done(p)
    BY DEF Process, InsertRun
  <2> QED BY <2>1, Steps DEF Shape, Step
<1>2. p \in Admitted /\ Admitted' \in SUBSET (Admitted \ {p})
  BY <1>1, ReportStoreAssumption DEF Admitted, InsertRun, Idle, Holds, Process
<1>3. Cardinality(Admitted') <= Cardinality(Admitted) - 1 /\ Cardinality(Admitted') \in Nat
  <2>1. Admitted' \in SUBSET Admitted
    BY <1>2
  <2> QED BY <1>2, <2>1, Finite, Counting
<1>4. Active' = Active \/ \E r \in Run : Active' \in SUBSET (Active \union {r})
  <2>1. CASE runs' = runs
    BY <2>1 DEF Active
  <2>2. ASSUME NEW r \in Run, NEW x, runs' = [runs EXCEPT ![r] = x]
        PROVE  Active' \in SUBSET (Active \union {r})
    BY <2>2 DEF Active, Shape, Typed
  <2> QED BY <2>1, <2>2 DEF InsertRun
<1>5. Cardinality(Active') <= Cardinality(Active) + 1 /\ Cardinality(Active') \in Nat
  <2> SUFFICES ASSUME NEW r \in Run, Active' \in SUBSET (Active \union {r})
               PROVE  /\ Cardinality(Active') <= Cardinality(Active) + 1
                      /\ Cardinality(Active') \in Nat
    BY <1>4, Finite
  <2>1. /\ IsFiniteSet(Active \union {r})
        /\ Cardinality(Active \union {r}) <= Cardinality(Active) + 1
        /\ Cardinality(Active \union {r}) \in Nat
    <3>1. IsFiniteSet(Active \union {r})
          /\ \/ Cardinality(Active \union {r}) = Cardinality(Active)
             \/ Cardinality(Active \union {r}) = Cardinality(Active) + 1
      BY Finite, FS_AddElement
    <3> QED BY <3>1, Finite
  <2>2. Cardinality(Active') <= Cardinality(Active \union {r}) /\ Cardinality(Active') \in Nat
    BY <2>1, Counting
  <2> QED BY <2>1, <2>2, Finite
<1>6. Cardinality(Active) + Cardinality(Admitted) <= MaxActive + Cardinality(Request) - 1
  BY DEF ActiveRunsBounded, Admitted
<1>7. Cardinality(Active') + Cardinality(Admitted') <= MaxActive + Cardinality(Request) - 1
  BY <1>3, <1>5, <1>6, Finite
<1> QED BY <1>7 DEF ActiveRunsBounded, Admitted

LEMMA BoundedNext ==
  ASSUME Shape, ActiveRunsBounded, [Next]_vars
  PROVE  ActiveRunsBounded'
<1>1. ASSUME NEW p \in Request, Serve(p), ~Admit(p), ~InsertRun(p)
      PROVE  ActiveRunsBounded'
  <2>1. p \in Process /\ \A q \in Process \ {p} : req'[q] = req[q]
    BY <1>1, OnlyThis
  <2>2. req'[p].op # "insertRun"
    <3>1. \A op, arg, run : Become(p, op, arg, run) => req'[p].op = op
      BY <2>1 DEF Become, Holds, Shape, Typed
    <3>2. \A op, run, todo : WorkOff(p, op, run, todo) => req'[p].op = op
      BY <2>1 DEF WorkOff, Holds, Shape, Typed
    <3>3. \A x : Did(p, x) => req'[p].op = req[p].op
      BY <2>1 DEF Did, After, Holds, Shape, Typed
    <3>4. Done(p) => req'[p].op = "idle"
      BY <2>1 DEF Done, Idle, Holds, Shape, Typed
    <3>5. CASE PutUpload(p) \/ SaveUpload(p) \/ Undo(p)
      BY <3>1, <3>4, <3>5 DEF PutUpload, SaveUpload, Undo
    <3>6. CASE StartExport(p) \/ PutExport(p) \/ SaveExport(p)
      BY <3>1, <3>4, <3>6 DEF StartExport, PutExport, SaveExport
    <3>7. CASE RequestDeletion(p) \/ ListExports(p) \/ DeleteExport(p) \/ FinishDeletion(p)
      BY <3>1, <3>2, <3>3, <3>4, <3>7
         DEF RequestDeletion, ListExports, DeleteExport, FinishDeletion
    <3> QED BY <1>1, <3>5, <3>6, <3>7 DEF Serve
  <2>3. Admitted' \in SUBSET Admitted
    BY <2>1, <2>2 DEF Admitted, Process
  <2>4. Active' \in SUBSET Active
    <3>1. CASE runs' = runs
      BY <3>1 DEF Active
    <3>2. ASSUME NEW r \in Run, runs' = Processing(r) PROVE Active' \in SUBSET Active
      BY <3>2 DEF Processing, Active, Shape, Typed, RunRecord
    <3>3. ASSUME NEW r \in Run, runs' = Erased(r) PROVE Active' \in SUBSET Active
      BY <3>3 DEF Erased, Active, Shape, Typed, RunRecord
    <3>4. CASE PutUpload(p) \/ SaveUpload(p) \/ Undo(p) \/ StartExport(p)
               \/ PutExport(p) \/ SaveExport(p) \/ ListExports(p) \/ DeleteExport(p)
      BY <3>1, <3>4 DEF PutUpload, SaveUpload, Undo, StartExport, PutExport, SaveExport,
                        ListExports, DeleteExport, storeVars
    <3>5. CASE RequestDeletion(p)
      BY <3>2, <3>5 DEF RequestDeletion
    <3>6. CASE FinishDeletion(p)
      <4>1. req[p].run \in Run
        BY <2>1, <3>6 DEF FinishDeletion, Shape, Kinds, Kind
      <4> QED BY <3>1, <3>3, <3>6, <4>1 DEF FinishDeletion
    <3> QED BY <1>1, <3>4, <3>5, <3>6 DEF Serve
  <2> QED BY <2>3, <2>4, Calm
<1>2. ASSUME NEW p \in Request, Serve(p) PROVE ActiveRunsBounded'
  BY <1>1, <1>2, AdmitBounded, InsertBounded
<1>3. CASE Sweep
  <2>1. runs' = runs
    BY <1>3 DEF Sweep, SelectUploads, SweepUpload, CommitUploads, SelectRows, SweepRow,
                CommitRows, storeVars
  <2>2. \A q \in Process \ {Sweeper} : req'[q] = req[q]
    BY <1>3 DEF Sweep, SelectUploads, SweepUpload, CommitUploads, SelectRows, SweepRow,
                CommitRows, WorkOff, Become, Did, Done, Shape, Typed
  <2>3. Active' = Active /\ Admitted' = Admitted
    BY <2>1, <2>2, ReportStoreAssumption DEF Active, Admitted, Process
  <2> QED BY <2>3, Calm
<1>4. ASSUME NEW r \in Run, Work(r) PROVE ActiveRunsBounded'
  <2>1. Admitted' = Admitted
    BY <1>4 DEF Work, Fetch, PersistSources, EndRun, Admitted
  <2>2. Active' \in SUBSET Active
    <3>1. CASE Fetch(r) \/ PersistSources(r)
      BY <3>1 DEF Fetch, PersistSources, Active
    <3>2. CASE EndRun(r)
      <4>1. PICK how \in Ended : runs' = [runs EXCEPT ![r].status = how]
        BY <3>2 DEF EndRun
      <4> QED BY <4>1 DEF Active, Ended, Shape, Typed, RunRecord
    <3> QED BY <1>4, <3>1, <3>2 DEF Work
  <2> QED BY <2>1, <2>2, Calm
<1>5. CASE \/ \E u \in Upload : Expires(u)
           \/ \E s \in Row : Age(s)
           \/ UNCHANGED vars
  <2>1. req' = req /\ runs' = runs
    BY <1>5 DEF Expires, Age, vars, storeVars
  <2>2. Active' = Active /\ Admitted' = Admitted
    BY <2>1 DEF Active, Admitted
  <2> QED BY <2>2, Calm
<1>6. ASSUME NEW p \in Process, Crash(p) PROVE ActiveRunsBounded'
  <2>1. req'[p] = Idle /\ \A q \in Process \ {p} : req'[q] = req[q]
    BY <1>6, Steps DEF Crash, Shape, Step
  <2>2. Active' = Active
    BY <1>6 DEF Crash, storeVars, Active
  <2>3. Admitted' \in SUBSET Admitted
    BY <2>1 DEF Admitted, Idle, Holds, Process
  <2> QED BY <2>2, <2>3, Calm
<1> QED BY <1>2, <1>3, <1>4, <1>5, <1>6 DEF Next

\* However many creations and retries of one owner run at once, each reads the
\* count before the others have inserted, and yet the limit is exceeded by at most
\* one run for each of the other requests.
THEOREM LimitBounded == Spec => []ActiveRunsBounded
<1>1. Init => Shape /\ ActiveRunsBounded
  <2> SUFFICES ASSUME Init PROVE ActiveRunsBounded
    BY ShapeInit
  <2>1. Active = {} /\ Admitted = {}
    BY DEF Init, Active, Admitted, NoRun, Idle, Holds, Process
  <2>2. Cardinality({}) = 0
    BY FS_EmptySet
  <2>3. Cardinality(Active) + Cardinality(Admitted) <= MaxActive + Cardinality(Request) - 1
    BY <2>1, <2>2, Finite
  <2> QED BY <2>3 DEF ActiveRunsBounded, Admitted
<1>2. Shape /\ ActiveRunsBounded /\ [Next]_vars => (Shape /\ ActiveRunsBounded)'
  BY ShapeNext, BoundedNext
<1> QED BY <1>1, <1>2, PTL DEF Spec
==============================================================================
