------------------------------ MODULE RunStatus ------------------------------
(***************************************************************************)
(* The durable status of a verification run: the values of                 *)
(* verification_runs.status, the order the worker may move through them,   *)
(* and the transition rule every writer of the row applies under the row   *)
(* lock (api/app/services/run_lifecycle.py).                               *)
(***************************************************************************)
EXTENDS Naturals

Terminal == {"COMPLETED", "FAILED", "CANCELLED"}

Status == {"QUEUED", "VALIDATING", "DECOMPOSING", "RESEARCHING", "EXTRACTING",
           "ANALYZING_PROVENANCE", "SCORING", "SYNTHESIZING", "AUDITING"}
          \union Terminal

\* RUN_STATUS_ORDER; FAILED and CANCELLED are absent from the table and every
\* lookup that can meet them defaults to 0.
Rank(s) ==
  CASE s = "VALIDATING"           -> 1
    [] s = "DECOMPOSING"          -> 2
    [] s = "RESEARCHING"          -> 3
    [] s = "EXTRACTING"           -> 4
    [] s = "ANALYZING_PROVENANCE" -> 5
    [] s = "SCORING"              -> 6
    [] s = "SYNTHESIZING"         -> 7
    [] s = "AUDITING"             -> 8
    [] s = "COMPLETED"            -> 9
    [] OTHER                      -> 0

\* _validate_transition: nothing leaves a terminal status, a run may always
\* fail or be cancelled, and otherwise it never moves backward.
MayMove(current, target) ==
  /\ current \notin Terminal
  /\ \/ target \in {"FAILED", "CANCELLED"}
     \/ Rank(target) >= Rank(current)

Publication == {"unreviewed", "published", "review_required", "approved",
                "rejected", "revision_required"}

\* A report that governance holds or has decided on.
Held == {"review_required", "rejected", "revision_required"}
==============================================================================
