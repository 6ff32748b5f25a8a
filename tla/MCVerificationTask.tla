------------------------- MODULE MCVerificationTask -------------------------
(***************************************************************************)
(* Values of the constants of VerificationTask for TLC.                    *)
(***************************************************************************)
EXTENDS VerificationTask, TLC

\* Every stage of build_workflow, in the order of its edges.
FullPipeline ==
  <<"intake", "decomposition", "planner", "discovery_source_selection",
    "secure_retrieval", "extraction", "passage_segmentation_embedding",
    "provenance_dependency_analysis", "evidence_classification",
    "deterministic_scoring", "numerical_audit", "synthesis",
    "citation_audit">>

\* The statuses of the stages never go back, so no stage is refused by the order
\* of RUN_STATUS_ORDER in the course of one execution.
ASSUME StagesAdvance ==
  \A i, j \in DOMAIN FullPipeline :
    i <= j => Rank(StageStatus(FullPipeline[i])) <= Rank(StageStatus(FullPipeline[j]))

\* A reloaded stage, one that is executed again, and the audit.
ShortPipeline == <<"intake", "synthesis", "citation_audit">>

\* The smallest pipeline with a stage that is reloaded and one that is not.
TinyPipeline == <<"intake", "citation_audit">>

WorkerSymmetry == Permutations(Worker)
==============================================================================
