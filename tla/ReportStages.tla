----------------------------- MODULE ReportStages -----------------------------
(***************************************************************************)
(* The stages that make a report of the passages a run has found: the      *)
(* model's judgments pass deterministic gates and are scored, a draft is   *)
(* written of approved evidence, every cited sentence is audited against   *)
(* its passages, and an unsupported draft is revised a bounded number of   *)
(* times. Each stage leaves rows; a later delivery of the run starts over  *)
(* from its claims and meets the rows of the earlier one.                  *)
(*                                                                         *)
(* The stages begin with the provenance of the sources that were read; the  *)
(* report is followed for the documents of Features only.                  *)
(*                                                                         *)
(* A draft is a main sentence and at most one on the contradiction, with   *)
(* the passages each cites; its wording is the number of its revision.     *)
(***************************************************************************)
EXTENDS Scoring

CONSTANTS
  Task,             \* claim and passage pairs to classify
  JudgmentsOf(_),   \* what the model may answer of a task
  Legible,          \* passages with an extraction certainty of at least 0.65
  RevisionLimit,    \* citation_revision_limit
  MaxAttempts,      \* bound: deliveries of the run
  None              \* not there

ASSUME StagesAssumption ==
  /\ Task \subseteq [claim : Claim, passage : Passage] /\ Task # {}
  /\ Legible \subseteq Passage
  /\ RevisionLimit \in Nat /\ MaxAttempts \in Nat \ {0}

VARIABLES
  features,  \* what the documents of the run have in common, and their dates
  stage,     \* the stage the task is in, or how it ended
  attempt,   \* deliveries so far
  mem,       \* the VerificationState of this delivery
  rows       \* evidence_items, report_citations and the run's scores

vars == <<features, stage, attempt, mem, rows>>

Ended == {"done", "failed", "cancelled"}
Sentence == {"main", "against"}
Entailment == {"entailed", "partial", "not_entailed", "insufficient"}
Fresh == [evidence |-> {}, scores |-> None, draft |-> None, audit |-> None, revisions |-> 0]

Init ==
  /\ features \in Inputs \union {Features}
  /\ stage = "provenance" /\ attempt = 1
  /\ mem = Fresh
  /\ rows = [status |-> <<>>, citations |-> {}, scores |-> None]

\* What a stage leaves in memory, and where the graph goes next.
Goto(next, state) == stage' = next /\ mem' = state /\ UNCHANGED <<features, attempt>>
Keep(next, state) == Goto(next, state) /\ UNCHANGED rows

------------------------------------------------------------------------------
(* Provenance, classification and scoring *)

\* ProvenancePipeline.process, with its clusters and its multipliers; bound: the
\* run goes on for the documents of Features.
Analyse ==
  /\ stage = "provenance"
  /\ features = Features
  /\ Keep("classification", mem)

\* The gates of the code; what the model recommends to reject is ignored. An
\* entity the passage lacks may still be contradicted by explicit text.
Refused(t, j) ==
  \/ t.passage \notin Legible
  \/ j.lacks \ {"entity"} # {}
  \/ "entity" \in j.lacks /\ ~(j.stance < 0 /\ "against" \in j.text)
  \/ j.stance = 0 /\ j.text = {}

Item(t, j) ==
  [claim |-> t.claim, passage |-> t.passage, stance |-> j.stance,
   context |-> j.context, speakerOrDate |-> j.speakerOrDate,
   rejected |-> Refused(t, j)]

Answers == {f \in [Task -> UNION {JudgmentsOf(t) : t \in Task}] :
              \A t \in Task : f[t] \in JudgmentsOf(t)}

Classify ==
  /\ stage = "classification"
  /\ \E f \in Answers :
       Keep("scoring", [mem EXCEPT !.evidence = {Item(t, f[t]) : t \in Task}])

\* _persist_scoring: the rows of the evidence and the scores are replaced.
ScoringRows(state) ==
  [rows EXCEPT !.scores = state.scores,
               !.status = [i \in state.evidence |->
                             IF i.rejected THEN "rejected" ELSE "pending"]]

Published(s) ==
  [support |-> (s.article.support + 5) \div 10,
   confidence |-> (s.article.confidence + 5) \div 10,
   context |-> s.article.context,
   label |-> s.article.label,
   labels |-> [c \in Claim |-> s.claims[c].label]]

ScoresOf == [e \in {{Item(t, f[t]) : t \in Task} : f \in Answers} |-> Published(Scores(e))]

Score ==
  /\ stage = "scoring"
  /\ LET scored == [mem EXCEPT !.scores = ScoresOf[mem.evidence]] IN
     /\ Goto("synthesis", scored)
     /\ rows' = ScoringRows(scored)

------------------------------------------------------------------------------
(* Synthesis *)

\* _approved_passage_ids: a passage is approved by any accepted item on it.
Approved(evidence) == {i.passage : i \in Accepted(evidence)}

Drafts ==
  [main : {P \in SUBSET Passage : Cardinality(P) \in 1..2},
   against : {P \in SUBSET Passage : Cardinality(P) <= 1}]
Cites(draft) == draft.main \union draft.against
Pairs(draft) == {p \in Sentence \X Passage : p[2] \in draft[p[1]]}

ASSUME NoneAssumption ==
  None \notin Drafts /\ \A d \in Drafts : None \notin [Pairs(d) -> Entailment]

Grounded(draft) == Cites(draft) \subseteq Approved(mem.evidence)
Contradicted(evidence) ==
  \E i \in evidence : i.passage \in Approved(evidence) /\ i.stance < 0
Omits(draft) == Contradicted(mem.evidence) /\ draft.against = {}

NoApprovedEvidence ==
  /\ stage = "synthesis"
  /\ Approved(mem.evidence) = {}
  /\ Keep("failed", mem)

\* A draft that cites what is not approved is asked for once more.
Draft(draft) ==
  /\ stage \in {"synthesis", "repair"}
  /\ Approved(mem.evidence) # {}
  /\ IF ~Grounded(draft)
       THEN Keep(IF stage = "synthesis" THEN "repair" ELSE "failed", mem)
     ELSE IF Omits(draft)
       THEN Keep("failed", mem)
     ELSE Keep("audit", [mem EXCEPT !.draft = draft])

------------------------------------------------------------------------------
(* Citation audit and revision *)

\* Mutant of Unsupported.
UnsupportedOnlyIfDenied(audit) ==
  {p[1] : p \in {q \in DOMAIN audit : audit[q] = "not_entailed"}}
Unsupported(audit) ==
  {p[1] : p \in {q \in DOMAIN audit : audit[q] \in {"not_entailed", "insufficient"}}}
NeedsRevision(audit) == Unsupported(audit) # {}

PartialSentences(audit) == {p[1] : p \in {q \in DOMAIN audit : audit[q] = "partial"}}

\* _apply_partial_citation_penalty: the scores, and not the labels.
Penalised(scores, audit) ==
  LET n == Cardinality(PartialSentences(audit)) IN
  [scores EXCEPT !.support = Most(0, @ - Least(20, 5 * n)),
                 !.confidence = Most(0, @ - Least(25, 7 * n))]

\* Mutant of Audited: every audit lowers the scores.
AuditedEveryTime(audit) ==
  [mem EXCEPT !.audit = audit, !.scores = Penalised(@, audit)]
Audited(audit) ==
  [mem EXCEPT !.audit = audit,
              !.scores = IF NeedsRevision(audit) THEN @ ELSE Penalised(@, audit)]

\* _persist_citation_audit, after the scoring rows were written once more.
StatusOf(i, audit) ==
  LET found == {audit[p] : p \in {q \in DOMAIN audit : q[2] = i.passage}} IN
  IF i.rejected THEN "rejected"
  ELSE IF "entailed" \in found THEN "accepted"
  ELSE IF "partial" \in found THEN "partial"
  ELSE "pending"

\* Mutant of AuditRows: the citations of earlier audits stay.
AuditRowsAdded(state) ==
  [rows EXCEPT !.scores = state.scores,
               !.status = [i \in state.evidence |-> StatusOf(i, state.audit)],
               !.citations = @ \union
                 {<<p, state.audit[p], state.revisions>> : p \in DOMAIN state.audit}]
AuditRows(state) ==
  [rows EXCEPT !.scores = state.scores,
               !.status = [i \in state.evidence |-> StatusOf(i, state.audit)],
               !.citations = {<<p, state.audit[p], state.revisions>> : p \in DOMAIN state.audit}]

\* _citation_revision_route
Route(audit) == IF NeedsRevision(audit) THEN "revision" ELSE "done"

\* The revision audits its own draft, and the graph then visits the audit again.
Audit(audit) ==
  /\ stage \in {"audit", "reaudit"}
  /\ mem.audit = None
  /\ Goto(IF stage = "reaudit" THEN "audit" ELSE Route(audit), Audited(audit))
  /\ rows' = AuditRows(Audited(audit))

AlreadyAudited ==
  /\ stage \in {"audit", "reaudit"}
  /\ mem.audit # None
  /\ Keep(IF stage = "reaudit" THEN "audit" ELSE Route(mem.audit), mem)

RevisionExhausted ==
  /\ stage = "revision"
  /\ mem.revisions >= RevisionLimit
  /\ Keep("failed", mem)

\* The revised draft loses the audit of the one before it.
Revised(draft) ==
  [mem EXCEPT !.draft = draft, !.audit = None, !.revisions = @ + 1]

\* Mutant of Revise.
ReviseAwayContradiction(draft) ==
  /\ stage = "revision"
  /\ mem.revisions < RevisionLimit
  /\ Keep(IF Grounded(draft) THEN "reaudit" ELSE "failed",
          IF Grounded(draft) THEN Revised(draft) ELSE mem)
Revise(draft) ==
  /\ stage = "revision"
  /\ mem.revisions < RevisionLimit
  /\ IF ~Grounded(draft) \/ Omits(draft)
       THEN Keep("failed", mem)
       ELSE Keep("reaudit", Revised(draft))

------------------------------------------------------------------------------
(* Any stage *)

Cancelled ==  \* _begin, once a cancellation is requested
  /\ stage \notin Ended \union {"repair"}
  /\ ~(stage = "audit" /\ mem.audit # None)
  /\ Keep("cancelled", mem)

Fails ==  \* a model call fails for good, or its answers do not cover the tasks
  /\ stage \notin Ended \union {"scoring"}
  /\ Keep("failed", mem)

\* The worker dies, or the failure of a call is retried with the task.
StartOver ==
  /\ stage \notin Ended
  /\ attempt < MaxAttempts
  /\ features = Features
  /\ stage' = "provenance" /\ mem' = Fresh /\ attempt' = attempt + 1
  /\ UNCHANGED <<features, rows>>

Synthesise == \E d \in Drafts : Draft(d)
JudgeCitations ==
  /\ mem.draft # None
  /\ \E audit \in [Pairs(mem.draft) -> Entailment] : Audit(audit)
ReviseReport == \E d \in Drafts : Revise(d)

Work ==
  \/ Analyse \/ Classify \/ Score \/ NoApprovedEvidence \/ Synthesise \/ JudgeCitations
  \/ AlreadyAudited \/ RevisionExhausted \/ ReviseReport

Next == Work \/ Cancelled \/ Fails \/ StartOver

Spec == Init /\ [][Next]_vars
------------------------------------------------------------------------------
(* Properties *)

\* The state in memory and the stored rows are records of their fields.
TypeOK ==
  /\ stage \in Ended \union {"provenance", "classification", "scoring", "synthesis", "repair", "audit",
                            "reaudit", "revision"}
  /\ attempt \in 1..MaxAttempts
  /\ mem.revisions \in 0..RevisionLimit
  /\ mem.draft # None => mem.draft \in Drafts
  /\ \A i \in DOMAIN rows.status :
       rows.status[i] \in {"pending", "accepted", "partial", "rejected"}
  /\ rows.scores # None => rows.scores.support \in 0..100 /\ rows.scores.confidence \in 0..100

Citations(s) == {c \in rows.citations : c[1][1] = s}

\* A report that is done shows no sentence without a citation, and every cited
\* passage was found to support its sentence at least in part and carries
\* evidence that passed the gates (citation_audit, citation_revision).
SentencesAreSupported ==
  stage = "done" =>
    /\ \A s \in Sentence : mem.draft[s] # {} => Citations(s) # {}
    /\ \A c \in rows.citations :
         /\ c[2] \in {"entailed", "partial"}
         /\ \E i \in DOMAIN rows.status :
              i.passage = c[1][2] /\ rows.status[i] \in {"accepted", "partial"}

\* The rows a reader is shown are those of the last draft of the last delivery,
\* whatever an earlier audit or an earlier delivery had stored: the citations,
\* the status of each item of evidence and the scores agree with each other.
RowsAreOfTheFinalReport ==
  stage = "done" =>
    /\ {<<c[1], c[3]>> : c \in rows.citations} = Pairs(mem.draft) \X {mem.revisions}
    /\ DOMAIN rows.status = mem.evidence
    /\ \A i \in mem.evidence :
         /\ rows.status[i] = "rejected" <=> i.rejected
         /\ rows.status[i] = "accepted" <=>
              ~i.rejected /\ \E c \in rows.citations : c[1][2] = i.passage /\ c[2] = "entailed"
    /\ rows.scores = mem.scores

\* A report whose accepted evidence contradicts a claim is not done without its
\* sentence on the contradiction, with evidence that passed the gates and that the
\* audit of the last wording found to bear the sentence out; a revision cannot drop
\* the sentence to satisfy the audit.  Which evidence it cites is the draft's
\* choice: the code does not hold it to the passage that contradicts.
ContradictionHasItsSentence ==
  stage = "done" =>
    ((\E i \in DOMAIN rows.status : rows.status[i] # "rejected" /\ i.stance < 0) =>
       \E c \in Citations("against") :
         /\ c[2] \in {"entailed", "partial"} /\ c[3] = mem.revisions
         /\ \E i \in DOMAIN rows.status :
              i.passage = c[1][2] /\ rows.status[i] \in {"accepted", "partial"})

\* Partial citations lower the scores once, from the scores of the evidence,
\* however many audits, revisions and deliveries the run went through.
PenaltyOnce ==
  stage = "done" =>
    LET n == Cardinality({c[1][1] : c \in {d \in rows.citations : d[2] = "partial"}})
        base == ScoresOf[DOMAIN rows.status] IN
    /\ rows.scores.support = Most(0, base.support - Least(20, 5 * n))
    /\ rows.scores.confidence = Most(0, base.confidence - Least(25, 7 * n))

\* Whatever the order in which the dependencies were detected, the clusters are
\* the connected components of the sources (union and find of cluster_sources).
ClustersAreComponents ==
  stage = "provenance" =>
    LET links == Links(Edges(features)) IN
    \A order \in Orders(links) : Groups(order) = Components(links)

\* An information origin is never silenced: however its sources copy each other,
\* one of them keeps a weight (dependency_multipliers).
OriginIsHeard ==
  stage = "provenance" =>
    \A C \in Clusters(features) : \E s \in C : Multipliers(features)[s] > 0

\* The graph shows every source in its cluster and in no other, although only
\* edges and representatives are stored (_persist_provenance, build_source_graph).
GraphShowsTheClusters ==
  stage = "provenance" =>
    \A s \in Source : ShownClusters(features, s) = {ClusterOf(features, s)}

\* What the gates reject neither raises nor lowers a score or a label: the
\* scores are those of the accepted evidence alone.
RejectedEvidenceIsMute ==
  stage = "synthesis" => mem.scores = Published(Scores(Accepted(mem.evidence)))

\* No decision is taken on the audit of an earlier wording: an audit in memory
\* is of the pairs of the draft in memory (the comment at the end of
\* citation_revision).
AuditIsOfThisDraft ==
  mem.audit # None => DOMAIN mem.audit = Pairs(mem.draft)
==============================================================================
