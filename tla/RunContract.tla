----------------------------- MODULE RunContract -----------------------------
(***************************************************************************)
(* What a verification run promises to everyone who reads its row and its  *)
(* event log, with no worker, broker or lock in sight.                     *)
(*                                                                         *)
(* `stages' is the stage column of agent_events in sequence order.  Every  *)
(* change of the row commits together with exactly one event, statuses     *)
(* only move forward, a run completed without a reviewer was not cancelled *)
(* first, and a report with an allegation is published only by an          *)
(* approval.  A terminal status is final for everybody but the reviewer:   *)
(* the approval of a held report completes a run that has meanwhile failed *)
(* or was cancelled, or whose cancellation is requested.                   *)
(***************************************************************************)
EXTENDS RunStatus, Sequences

CONSTANT Allegation   \* BOOLEAN: does the run hold an allegation claim?

VARIABLES status, cancelRequested, publication, stages

vars == <<status, cancelRequested, publication, stages>>

Init ==
  /\ status = "QUEUED"
  /\ cancelRequested = FALSE
  /\ publication = "unreviewed"
  /\ stages = <<"QUEUED">>

Log(s) == stages' = Append(stages, s)

\* The run advances, or reports more progress in the stage it is in, until its
\* report is handed to governance.
Progress(s) ==
  /\ s \notin Terminal
  /\ MayMove(status, s)
  /\ publication = "unreviewed"
  /\ status' = s
  /\ Log(s)
  /\ UNCHANGED <<cancelRequested, publication>>

Fail ==
  /\ status \notin Terminal
  /\ status' = "FAILED"
  /\ Log("FAILED")
  /\ UNCHANGED <<cancelRequested, publication>>

\* The user asks to stop: at once while the run is queued, otherwise a request.
RequestCancel ==
  /\ status \notin Terminal
  /\ ~cancelRequested
  /\ cancelRequested' = TRUE
  /\ status' = IF status = "QUEUED" THEN "CANCELLED" ELSE status
  /\ Log(status')
  /\ UNCHANGED publication

\* A run stops as cancelled only when its owner asked for it.
Cancel ==
  /\ status \notin Terminal
  /\ cancelRequested
  /\ status' = "CANCELLED"
  /\ Log("CANCELLED")
  /\ UNCHANGED <<cancelRequested, publication>>

Complete ==
  /\ status = "AUDITING"
  /\ ~Allegation
  /\ ~cancelRequested
  /\ publication = "unreviewed"
  /\ publication' = "published"
  /\ status' = "COMPLETED"
  /\ Log("COMPLETED")
  /\ UNCHANGED cancelRequested

Hold ==
  /\ status = "AUDITING"
  /\ Allegation
  /\ ~cancelRequested
  /\ publication = "unreviewed"
  /\ publication' = "review_required"
  /\ Log("AUDITING")
  /\ UNCHANGED <<status, cancelRequested>>

\* A reviewer settles a held report.  The decision looks at the publication
\* state alone: an approval writes COMPLETED over FAILED and CANCELLED, and over
\* a cancellation that is requested, as it does over AUDITING.
Decide(decision) ==
  /\ publication = "review_required"
  /\ publication' = decision
  /\ status' = IF decision = "approved" THEN "COMPLETED" ELSE status
  /\ Log(status')
  /\ UNCHANGED cancelRequested

Next ==
  \/ \E s \in Status : Progress(s)
  \/ Fail
  \/ RequestCancel
  \/ Cancel
  \/ Complete
  \/ Hold
  \/ \E d \in {"approved", "rejected", "revision_required"} : Decide(d)

Spec == Init /\ [][Next]_vars

------------------------------------------------------------------------------
\* The row and the log of a run keep their types.
TypeOK ==
  /\ status \in Status
  /\ cancelRequested \in BOOLEAN
  /\ publication \in Publication
  /\ stages \in Seq(Status)
==============================================================================
