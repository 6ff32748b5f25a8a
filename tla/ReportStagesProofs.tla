-------------------------- MODULE ReportStagesProofs --------------------------
(***************************************************************************)
(* Proofs about ReportStages: the report a reader is shown, for every      *)
(* number of claims, passages, revisions and deliveries, and whatever the  *)
(* model answers; and about the provenance of its sources, for every       *)
(* number of sources and whatever their documents have in common.          *)
(***************************************************************************)
EXTENDS ReportStages, FiniteSetTheorems, WellFoundedInduction, TLAPS

------------------------------------------------------------------------------
(* What the gates reject *)

\* The scores are those of the accepted evidence: each formula is applied to the
\* items of a claim or of the article, and neither set holds a rejected item.
LEMMA OfAccepted ==
  ASSUME NEW evidence
  PROVE  /\ Accepted(Accepted(evidence)) = Accepted(evidence)
         /\ \A c : OfClaim(c, Accepted(evidence)) = OfClaim(c, evidence)
BY DEF Accepted, OfClaim

LEMMA ScoresOfAccepted ==
  ASSUME NEW evidence
  PROVE  Scores(Accepted(evidence)) = Scores(evidence)
<1>1. [c \in Claim |-> OfClaim(c, Accepted(evidence))] = [c \in Claim |-> OfClaim(c, evidence)]
  BY OfAccepted
<1> QED BY <1>1, OfAccepted DEF Scores

------------------------------------------------------------------------------
(* The inductive invariant *)

Evidences == {{Item(t, f[t]) : t \in Task} : f \in Answers}

Shape ==
  /\ mem = [evidence |-> mem.evidence, scores |-> mem.scores, draft |-> mem.draft,
            audit |-> mem.audit, revisions |-> mem.revisions]
  /\ rows = [status |-> rows.status, citations |-> rows.citations, scores |-> rows.scores]

\* A draft that went to the audit cites approved evidence only, and shows the
\* contradiction if there is one.
DraftPassed == mem.draft \in Drafts /\ Grounded(mem.draft) /\ ~Omits(mem.draft)

\* The stored report is the one in memory, with its penalty taken once.
AuditStored ==
  /\ mem.evidence \in Evidences
  /\ DraftPassed
  /\ mem.audit \in [Pairs(mem.draft) -> Entailment]
  /\ mem.scores = IF NeedsRevision(mem.audit) THEN ScoresOf[mem.evidence]
                  ELSE Penalised(ScoresOf[mem.evidence], mem.audit)
  /\ rows.scores = mem.scores
  /\ rows.status = [i \in mem.evidence |-> StatusOf(i, mem.audit)]
  /\ rows.citations =
       {<<p, mem.audit[p], mem.revisions>> : p \in DOMAIN mem.audit}

StageInv ==
  /\ stage \in {"provenance", "classification"} => mem = Fresh
  /\ stage \in {"scoring", "synthesis", "repair"} => mem.audit = None
  /\ stage \in {"scoring", "synthesis", "repair", "audit", "reaudit", "revision"}
       => mem.evidence \in Evidences
  /\ stage \in {"synthesis", "repair", "audit", "reaudit"} /\ mem.audit = None
       => mem.scores = ScoresOf[mem.evidence]
  /\ stage \in {"audit", "reaudit", "revision"} => DraftPassed
  /\ stage = "revision" => mem.audit # None /\ NeedsRevision(mem.audit)
  /\ stage = "done" => mem.audit # None /\ ~NeedsRevision(mem.audit)

IInv == Shape /\ StageInv /\ (mem.audit # None => AuditStored)

LEMMA InitInv == Init => IInv
BY DEF Init, IInv, Shape, StageInv, Fresh

\* A stage that leaves the memory alone and ends in failure or cancellation.
LEMMA StopInv ==
  ASSUME IInv, stage' \in {"failed", "cancelled"}, UNCHANGED <<mem, rows>>
  PROVE  IInv'
BY DEF IInv, Shape, StageInv, AuditStored, DraftPassed, Grounded, Omits, Contradicted

LEMMA AnalyseInv ==
  ASSUME IInv, Analyse
  PROVE  IInv'
BY DEF Analyse, Keep, Goto, IInv, Shape, StageInv, Fresh

LEMMA ClassifyInv ==
  ASSUME IInv, Classify
  PROVE  IInv'
<1>1. PICK f \in Answers :
        Keep("scoring", [mem EXCEPT !.evidence = {Item(t, f[t]) : t \in Task}])
  BY DEF Classify
<1>2. mem = Fresh
  BY DEF Classify, IInv, StageInv
<1>3. mem' = [evidence |-> {Item(t, f[t]) : t \in Task}, scores |-> None, draft |-> None,
              audit |-> None, revisions |-> 0]
  BY <1>1, <1>2 DEF Keep, Goto, Fresh
<1>4. stage' = "scoring" /\ rows' = rows
  BY <1>1 DEF Keep, Goto
<1>5. mem'.evidence \in Evidences
  BY <1>3 DEF Evidences
<1> QED BY <1>3, <1>4, <1>5 DEF IInv, Shape, StageInv

LEMMA ScoreInv ==
  ASSUME IInv, Score
  PROVE  IInv'
<1>1. mem' = [evidence |-> mem.evidence, scores |-> ScoresOf[mem.evidence],
              draft |-> mem.draft, audit |-> mem.audit, revisions |-> mem.revisions]
  BY DEF Score, Goto, IInv, Shape
<1>2. stage' = "synthesis" /\ rows' = ScoringRows(mem')
  BY DEF Score, Goto
<1>3. mem.audit = None /\ mem.evidence \in Evidences
  BY DEF Score, IInv, StageInv
<1>4. rows' = [status |-> rows'.status, citations |-> rows'.citations,
               scores |-> rows'.scores]
  BY <1>2 DEF IInv, Shape, ScoringRows
<1> QED BY <1>1, <1>2, <1>3, <1>4 DEF IInv, Shape, StageInv

LEMMA DraftInv ==
  ASSUME IInv, NEW d \in Drafts, Draft(d)
  PROVE  IInv'
<1>1. CASE ~Grounded(d)
  <2>1. stage' \in {"repair", "failed"} /\ UNCHANGED <<mem, rows>>
        /\ (stage' = "repair" => stage = "synthesis")
    BY <1>1 DEF Draft, Keep, Goto
  <2> QED BY <2>1, StopInv DEF IInv, Shape, StageInv, AuditStored, DraftPassed, Grounded, Omits, Contradicted
<1>2. CASE Grounded(d) /\ Omits(d)
  BY <1>2, StopInv DEF Draft, Keep, Goto
<1>3. CASE Grounded(d) /\ ~Omits(d)
  <2>1. /\ stage' = "audit" /\ rows' = rows
        /\ mem' = [mem EXCEPT !.draft = d]
        /\ stage \in {"synthesis", "repair"}
    BY <1>3 DEF Draft, Keep, Goto
  <2>2. mem' = [evidence |-> mem.evidence, scores |-> mem.scores, draft |-> d,
                audit |-> mem.audit, revisions |-> mem.revisions]
    BY <2>1 DEF IInv, Shape
  <2>3. /\ mem.audit = None /\ mem.evidence \in Evidences
        /\ mem.scores = ScoresOf[mem.evidence]
    BY <2>1 DEF IInv, StageInv
  <2>4. DraftPassed'
    BY <1>3, <2>2 DEF DraftPassed, Grounded, Omits, Contradicted
  <2> QED BY <2>1, <2>2, <2>3, <2>4 DEF IInv, Shape, StageInv
<1> QED BY <1>1, <1>2, <1>3

LEMMA AuditInv ==
  ASSUME IInv, mem.draft # None, NEW a \in [Pairs(mem.draft) -> Entailment], Audit(a)
  PROVE  IInv'
<1>1. /\ stage \in {"audit", "reaudit"} /\ mem.audit = None
      /\ mem' = Audited(a) /\ rows' = AuditRows(mem')
      /\ stage' = IF stage = "reaudit" THEN "audit" ELSE Route(a)
  BY DEF Audit, Goto
<1>2. /\ mem.evidence \in Evidences /\ DraftPassed
      /\ mem.scores = ScoresOf[mem.evidence]
  BY <1>1 DEF IInv, StageInv
<1>3. mem' = [evidence |-> mem.evidence,
              scores |-> IF NeedsRevision(a) THEN mem.scores ELSE Penalised(mem.scores, a),
              draft |-> mem.draft, audit |-> a, revisions |-> mem.revisions]
  BY <1>1 DEF Audited, IInv, Shape
<1>4. rows' = [status |-> [i \in mem'.evidence |-> StatusOf(i, mem'.audit)],
               citations |-> {<<p, mem'.audit[p], mem'.revisions>> : p \in DOMAIN mem'.audit},
               scores |-> mem'.scores]
  BY <1>1 DEF AuditRows, IInv, Shape
<1>5. a # None
  BY <1>2, NoneAssumption DEF DraftPassed
<1>6. DraftPassed'
  BY <1>2, <1>3 DEF DraftPassed, Grounded, Omits, Contradicted
<1>7. AuditStored'
  BY <1>2, <1>3, <1>4, <1>6 DEF AuditStored
<1>8. Shape'
  BY <1>3, <1>4 DEF Shape
<1>9. StageInv'
  BY <1>1, <1>2, <1>3, <1>5, <1>6 DEF StageInv, Route
<1> QED BY <1>7, <1>8, <1>9 DEF IInv

LEMMA AlreadyAuditedInv ==
  ASSUME IInv, AlreadyAudited
  PROVE  IInv'
<1>1. /\ UNCHANGED <<mem, rows>> /\ mem.audit # None
      /\ stage \in {"audit", "reaudit"}
      /\ stage' = IF stage = "reaudit" THEN "audit" ELSE Route(mem.audit)
  BY DEF AlreadyAudited, Keep, Goto
<1>2. DraftPassed /\ mem.evidence \in Evidences
  BY <1>1 DEF IInv, StageInv
<1>3. AuditStored' /\ DraftPassed' /\ Shape'
  BY <1>1, <1>2 DEF IInv, AuditStored, DraftPassed, Grounded, Omits, Contradicted, Shape
<1>4. StageInv'
  BY <1>1, <1>2, <1>3 DEF StageInv, Route
<1> QED BY <1>3, <1>4 DEF IInv

LEMMA ReviseInv ==
  ASSUME IInv, NEW d \in Drafts, Revise(d)
  PROVE  IInv'
<1>1. CASE ~Grounded(d) \/ Omits(d)
  BY <1>1, StopInv DEF Revise, Keep, Goto
<1>2. CASE Grounded(d) /\ ~Omits(d)
  <2>1. /\ stage = "revision" /\ stage' = "reaudit"
        /\ mem' = Revised(d) /\ rows' = rows
    BY <1>2 DEF Revise, Keep, Goto
  <2>2. mem' = [evidence |-> mem.evidence, scores |-> mem.scores, draft |-> d,
                audit |-> None, revisions |-> mem.revisions + 1]
    BY <2>1 DEF Revised, IInv, Shape
  <2>3. mem.evidence \in Evidences /\ mem.scores = ScoresOf[mem.evidence]
    BY <2>1 DEF IInv, StageInv, AuditStored
  <2>4. DraftPassed'
    BY <1>2, <2>2 DEF DraftPassed, Grounded, Omits, Contradicted
  <2> QED BY <2>1, <2>2, <2>3, <2>4 DEF IInv, Shape, StageInv
<1> QED BY <1>1, <1>2

LEMMA StartOverInv ==
  ASSUME IInv, StartOver
  PROVE  IInv'
BY DEF StartOver, IInv, Shape, StageInv, Fresh

LEMMA StutterInv ==
  ASSUME IInv, UNCHANGED vars
  PROVE  IInv'
BY DEF vars, IInv, Shape, StageInv, AuditStored, DraftPassed, Grounded, Omits, Contradicted

LEMMA NextInv ==
  ASSUME IInv, [Next]_vars
  PROVE  IInv'
<1>1. CASE Classify BY <1>1, ClassifyInv
<1>2. CASE Score BY <1>2, ScoreInv
<1>3. CASE NoApprovedEvidence
  BY <1>3, StopInv DEF NoApprovedEvidence, Keep, Goto
<1>4. CASE Synthesise BY <1>4, DraftInv DEF Synthesise
<1>5. CASE JudgeCitations BY <1>5, AuditInv DEF JudgeCitations
<1>6. CASE AlreadyAudited BY <1>6, AlreadyAuditedInv
<1>7. CASE RevisionExhausted
  BY <1>7, StopInv DEF RevisionExhausted, Keep, Goto
<1>8. CASE ReviseReport BY <1>8, ReviseInv DEF ReviseReport
<1>9. CASE Cancelled
  BY <1>9, StopInv DEF Cancelled, Keep, Goto
<1>10. CASE Fails
  BY <1>10, StopInv DEF Fails, Keep, Goto
<1>11. CASE StartOver BY <1>11, StartOverInv
<1>12. CASE UNCHANGED vars BY <1>12, StutterInv
<1>13. CASE Analyse BY <1>13, AnalyseInv
<1> QED
  BY <1>13, <1>1, <1>2, <1>3, <1>4, <1>5, <1>6, <1>7, <1>8, <1>9, <1>10, <1>11, <1>12
     DEF Next, Work

\* The strengthening all theorems below rest on.
THEOREM Inductive == Spec => []IInv
<1>1. IInv /\ [Next]_vars => IInv'
  BY NextInv
<1> QED BY InitInv, <1>1, PTL DEF Spec

------------------------------------------------------------------------------
(* Theorems *)

\* The rows of a done report are what AuditRows stored of the memory, and its
\* audit left no sentence unsupported.
LEMMA DoneIsStored ==
  ASSUME IInv, stage = "done"
  PROVE  AuditStored /\ ~NeedsRevision(mem.audit) /\ DOMAIN mem.audit = Pairs(mem.draft)
BY DEF IInv, StageInv, AuditStored

LEMMA PairsOfDraft ==
  ASSUME NEW draft \in Drafts
  PROVE  /\ Pairs(draft) \subseteq Sentence \X Passage
         /\ \A s \in Sentence : draft[s] # {} => \E x \in Passage : <<s, x>> \in Pairs(draft)
<1>1. draft.main \subseteq Passage /\ draft.against \subseteq Passage
  BY DEF Drafts
<1>2. draft["main"] \subseteq Passage /\ draft["against"] \subseteq Passage
  BY <1>1
<1> QED BY <1>2 DEF Pairs, Sentence

\* What a passage of a cited pair contributes to the status of its evidence.
LEMMA Found ==
  ASSUME IInv, stage = "done", NEW p \in Pairs(mem.draft)
  PROVE  /\ p[1] \in Sentence /\ p[2] \in Passage
         /\ mem.audit[p] \in {"entailed", "partial"}
         /\ \E i \in mem.evidence : i.passage = p[2] /\ ~i.rejected
<1>1. AuditStored /\ ~NeedsRevision(mem.audit) /\ DOMAIN mem.audit = Pairs(mem.draft)
  BY DoneIsStored
<1>2. mem.draft \in Drafts
  BY <1>1 DEF AuditStored, DraftPassed
<1>3. p[1] \in Sentence /\ p[2] \in Passage /\ p[2] \in mem.draft[p[1]]
  BY <1>2, PairsOfDraft DEF Pairs
<1>4. mem.audit[p] \in Entailment
  BY <1>1 DEF AuditStored
<1>5. mem.audit[p] \notin {"not_entailed", "insufficient"}
  BY <1>1 DEF NeedsRevision, Unsupported
<1>6. p[2] \in Cites(mem.draft)
  BY <1>3 DEF Cites, Sentence
<1>7. p[2] \in Approved(mem.evidence)
  BY <1>1, <1>6 DEF AuditStored, DraftPassed, Grounded
<1> QED BY <1>3, <1>4, <1>5, <1>7 DEF Entailment, Approved, Accepted

\* The stored citations are the pairs of the draft, with their verdicts.
LEMMA StoredCitations ==
  ASSUME IInv, stage = "done"
  PROVE  /\ \A c \in rows.citations :
              /\ c[1] \in Pairs(mem.draft) /\ c[1] \in Sentence \X Passage
              /\ c[2] = mem.audit[c[1]] /\ c[3] = mem.revisions
         /\ \A p \in Pairs(mem.draft) : \E c \in rows.citations :
              c[1] = p /\ c[2] = mem.audit[p] /\ c[3] = mem.revisions
<1>1. rows.citations = {<<p, mem.audit[p], mem.revisions>> : p \in Pairs(mem.draft)}
  BY DoneIsStored DEF AuditStored
<1>2. Pairs(mem.draft) \subseteq Sentence \X Passage
  BY DoneIsStored, PairsOfDraft DEF AuditStored, DraftPassed
<1>3. ASSUME NEW c \in rows.citations
      PROVE  /\ c[1] \in Pairs(mem.draft) /\ c[1] \in Sentence \X Passage
             /\ c[2] = mem.audit[c[1]] /\ c[3] = mem.revisions
  <2>1. PICK p \in Pairs(mem.draft) : c = <<p, mem.audit[p], mem.revisions>>
    BY <1>1
  <2>2. c[1] = p /\ c[2] = mem.audit[p] /\ c[3] = mem.revisions
    BY <2>1
  <2> QED BY <1>2, <2>2
<1>4. ASSUME NEW p \in Pairs(mem.draft)
      PROVE  \E c \in rows.citations : c[1] = p /\ c[2] = mem.audit[p] /\ c[3] = mem.revisions
  <2>1. <<p, mem.audit[p], mem.revisions>> \in rows.citations
    BY <1>1
  <2> QED BY <2>1
<1> QED BY <1>3, <1>4

\* A reader is shown no sentence without a citation and no citation that was
\* not found to support it, for any drafts and any verdicts.
THEOREM Supported == Spec => []SentencesAreSupported
<1>1. ASSUME IInv PROVE SentencesAreSupported
  <2> SUFFICES ASSUME stage = "done"
        PROVE  /\ \A s \in Sentence : mem.draft[s] # {} => Citations(s) # {}
               /\ \A c \in rows.citations :
                    /\ c[2] \in {"entailed", "partial"}
                    /\ \E i \in DOMAIN rows.status :
                         i.passage = c[1][2] /\ rows.status[i] \in {"accepted", "partial"}
    BY DEF SentencesAreSupported
  <2>1. AuditStored /\ DOMAIN mem.audit = Pairs(mem.draft) /\ mem.draft \in Drafts
    BY <1>1, DoneIsStored DEF AuditStored, DraftPassed
  <2>2. rows.citations = {<<p, mem.audit[p], mem.revisions>> : p \in Pairs(mem.draft)}
    BY <2>1 DEF AuditStored
  <2>3. \A s \in Sentence : mem.draft[s] # {} => Citations(s) # {}
    <3>1. SUFFICES ASSUME NEW s \in Sentence, mem.draft[s] # {}
                   PROVE  Citations(s) # {}
      OBVIOUS
    <3>2. PICK x \in Passage : <<s, x>> \in Pairs(mem.draft)
      BY <2>1, <3>1, PairsOfDraft
    <3>3. <<<<s, x>>, mem.audit[<<s, x>>], mem.revisions>> \in rows.citations
      BY <2>2, <3>2
    <3> QED BY <3>3 DEF Citations
  <2>4. ASSUME NEW c \in rows.citations
        PROVE  /\ c[2] \in {"entailed", "partial"}
               /\ \E i \in DOMAIN rows.status :
                    i.passage = c[1][2] /\ rows.status[i] \in {"accepted", "partial"}
    <3>1. PICK p \in Pairs(mem.draft) : c = <<p, mem.audit[p], mem.revisions>>
      BY <2>2
    <3>2. c[1] = p /\ c[2] = mem.audit[p] /\ mem.audit[p] \in {"entailed", "partial"}
      BY <1>1, <3>1, Found
    <3>3. PICK i \in mem.evidence : i.passage = p[2] /\ ~i.rejected
      BY <1>1, Found
    <3>4. rows.status[i] = StatusOf(i, mem.audit) /\ i \in DOMAIN rows.status
      BY <2>1 DEF AuditStored
    <3>5. StatusOf(i, mem.audit) \in {"accepted", "partial"}
      BY <2>1, <3>2, <3>3 DEF StatusOf
    <3> QED BY <3>2, <3>3, <3>4, <3>5
  <2> QED BY <2>3, <2>4
<1> QED BY Inductive, <1>1, PTL

\* The stored rows are those of the last draft and agree with each other,
\* whatever earlier audits and deliveries have stored.
THEOREM FinalRows == Spec => []RowsAreOfTheFinalReport
<1>1. ASSUME IInv PROVE RowsAreOfTheFinalReport
  <2> SUFFICES ASSUME stage = "done"
        PROVE  /\ {<<c[1], c[3]>> : c \in rows.citations} = Pairs(mem.draft) \X {mem.revisions}
               /\ DOMAIN rows.status = mem.evidence
               /\ \A i \in mem.evidence :
                    /\ rows.status[i] = "rejected" <=> i.rejected
                    /\ rows.status[i] = "accepted" <=>
                         ~i.rejected /\ \E c \in rows.citations :
                                          c[1][2] = i.passage /\ c[2] = "entailed"
               /\ rows.scores = mem.scores
    BY DEF RowsAreOfTheFinalReport
  <2>1. AuditStored /\ DOMAIN mem.audit = Pairs(mem.draft)
    BY <1>1, DoneIsStored
  <2>2. ASSUME NEW x \in Pairs(mem.draft) \X {mem.revisions}
        PROVE  x \in {<<c[1], c[3]>> : c \in rows.citations}
    <3>1. PICK c \in rows.citations : c[1] = x[1] /\ c[3] = mem.revisions
      BY <1>1, StoredCitations
    <3>2. x = <<c[1], c[3]>>
      BY <3>1
    <3> QED BY <3>2
  <2>3. {<<c[1], c[3]>> : c \in rows.citations} = Pairs(mem.draft) \X {mem.revisions}
    <3>1. \A c \in rows.citations : <<c[1], c[3]>> \in Pairs(mem.draft) \X {mem.revisions}
      BY <1>1, StoredCitations
    <3> QED BY <2>2, <3>1
  <2>4. ASSUME NEW i \in mem.evidence
        PROVE  /\ rows.status[i] = "rejected" <=> i.rejected
               /\ rows.status[i] = "accepted" <=>
                    ~i.rejected /\ \E c \in rows.citations :
                                     c[1][2] = i.passage /\ c[2] = "entailed"
    <3>1. rows.status[i] = StatusOf(i, mem.audit)
      BY <2>1 DEF AuditStored
    <3>2. (\E c \in rows.citations : c[1][2] = i.passage /\ c[2] = "entailed")
            <=> \E p \in Pairs(mem.draft) : p[2] = i.passage /\ mem.audit[p] = "entailed"
      BY <1>1, StoredCitations
    <3> QED BY <2>1, <3>1, <3>2 DEF StatusOf
  <2> QED BY <2>1, <2>3, <2>4 DEF AuditStored
<1> QED BY Inductive, <1>1, PTL

\* A done report whose accepted evidence contradicts a claim has a sentence on the
\* contradiction, and accepted evidence that the last audit found to bear it out.
THEOREM ContradictionAddressed == Spec => []ContradictionHasItsSentence
<1>1. ASSUME IInv PROVE ContradictionHasItsSentence
  <2> SUFFICES ASSUME stage = "done", NEW i \in DOMAIN rows.status,
                      rows.status[i] # "rejected", i.stance < 0
               PROVE  \E c \in Citations("against") :
                        /\ c[2] \in {"entailed", "partial"} /\ c[3] = mem.revisions
                        /\ \E j \in DOMAIN rows.status :
                             j.passage = c[1][2] /\ rows.status[j] \in {"accepted", "partial"}
    BY DEF ContradictionHasItsSentence
  <2>1. AuditStored /\ DOMAIN mem.audit = Pairs(mem.draft) /\ mem.draft \in Drafts
    BY <1>1, DoneIsStored DEF AuditStored, DraftPassed
  <2>2. i \in mem.evidence /\ ~i.rejected
    BY <2>1 DEF AuditStored, StatusOf
  <2>3. Contradicted(mem.evidence)
    BY <2>2 DEF Contradicted, Approved, Accepted
  <2>4. mem.draft["against"] # {}
    BY <2>1, <2>3 DEF AuditStored, DraftPassed, Omits
  <2>5. PICK x \in Passage : <<"against", x>> \in Pairs(mem.draft)
    BY <2>1, <2>4, PairsOfDraft DEF Sentence
  <2> DEFINE p == <<"against", x>>
  <2>6. <<p, mem.audit[p], mem.revisions>> \in Citations("against")
    BY <2>1, <2>5 DEF AuditStored, Citations
  <2>7. mem.audit[p] \in {"entailed", "partial"}
    BY <1>1, <2>5, Found
  <2>8. PICK j \in mem.evidence : j.passage = x /\ ~j.rejected
    BY <1>1, <2>5, Found
  <2>9. rows.status[j] = StatusOf(j, mem.audit) /\ j \in DOMAIN rows.status
    BY <2>1 DEF AuditStored
  <2>10. StatusOf(j, mem.audit) \in {"accepted", "partial"}
    BY <2>1, <2>5, <2>7, <2>8 DEF StatusOf
  <2> QED BY <2>6, <2>7, <2>8, <2>9, <2>10
<1> QED BY Inductive, <1>1, PTL

\* Partial citations are paid for once, from the scores of the evidence.
THEOREM PenaltyTakenOnce == Spec => []PenaltyOnce
<1>1. ASSUME IInv PROVE PenaltyOnce
  <2> SUFFICES ASSUME stage = "done"
        PROVE  LET n == Cardinality({c[1][1] : c \in {d \in rows.citations : d[2] = "partial"}})
                   base == ScoresOf[DOMAIN rows.status] IN
               /\ rows.scores.support = Most(0, base.support - Least(20, 5 * n))
               /\ rows.scores.confidence = Most(0, base.confidence - Least(25, 7 * n))
    BY DEF PenaltyOnce
  <2>1. /\ AuditStored /\ DOMAIN mem.audit = Pairs(mem.draft)
        /\ ~NeedsRevision(mem.audit)
    BY <1>1, DoneIsStored
  <2>2. DOMAIN rows.status = mem.evidence
    BY <2>1 DEF AuditStored
  <2> DEFINE Shown == {c[1][1] : c \in {d \in rows.citations : d[2] = "partial"}}
  <2>3. ASSUME NEW c \in rows.citations, c[2] = "partial"
        PROVE  c[1][1] \in PartialSentences(mem.audit)
    <3>1. c[1] \in DOMAIN mem.audit /\ mem.audit[c[1]] = "partial"
      BY <1>1, <2>1, <2>3, StoredCitations
    <3> QED BY <3>1 DEF PartialSentences
  <2>4. Shown = PartialSentences(mem.audit)
    <3>1. ASSUME NEW s \in PartialSentences(mem.audit)
          PROVE  s \in Shown
      <4>1. PICK p \in DOMAIN mem.audit : mem.audit[p] = "partial" /\ s = p[1]
        BY DEF PartialSentences
      <4>2. PICK c \in rows.citations : c[1] = p /\ c[2] = "partial"
        BY <1>1, <2>1, <4>1, StoredCitations
      <4> QED BY <4>1, <4>2
    <3> QED BY <2>3, <3>1
  <2>5. rows.scores = Penalised(ScoresOf[mem.evidence], mem.audit)
    BY <2>1 DEF AuditStored
  <2>6. ScoresOf[mem.evidence] = Published(Scores(mem.evidence))
    BY <2>1 DEF AuditStored, ScoresOf, Evidences
  <2>7. /\ rows.scores.support
             = Most(0, ScoresOf[mem.evidence].support
                         - Least(20, 5 * Cardinality(PartialSentences(mem.audit))))
        /\ rows.scores.confidence
             = Most(0, ScoresOf[mem.evidence].confidence
                         - Least(25, 7 * Cardinality(PartialSentences(mem.audit))))
    BY <2>5, <2>6 DEF Penalised, Published
  <2> QED BY <2>2, <2>4, <2>7
<1> QED BY Inductive, <1>1, PTL

\* The scores a report is written from are those of the accepted evidence.
THEOREM RejectedIsMute == Spec => []RejectedEvidenceIsMute
<1>1. ASSUME IInv PROVE RejectedEvidenceIsMute
  <2> SUFFICES ASSUME stage = "synthesis"
               PROVE  mem.scores = Published(Scores(Accepted(mem.evidence)))
    BY DEF RejectedEvidenceIsMute
  <2>1. mem.evidence \in Evidences /\ mem.scores = ScoresOf[mem.evidence]
    BY <1>1 DEF IInv, StageInv
  <2>2. ScoresOf[mem.evidence] = Published(Scores(mem.evidence))
    BY <2>1 DEF ScoresOf, Evidences
  <2> QED BY <2>1, <2>2, ScoresOfAccepted
<1> QED BY Inductive, <1>1, PTL

\* No audit is of another wording than that of the draft next to it.
THEOREM AuditOfThisDraft == Spec => []AuditIsOfThisDraft
<1>1. IInv => AuditIsOfThisDraft
  BY DEF IInv, AuditStored, AuditIsOfThisDraft
<1> QED BY Inductive, <1>1, PTL

------------------------------------------------------------------------------
(* Least members, and induction over sources and links *)

\* A set of numbers that is not empty has a least member.
LEMMA LeastOf ==
  ASSUME NEW S \in SUBSET Nat, S # {}
  PROVE  \E m \in S : \A x \in S : m <= x
<1> DEFINE F == {0..n : n \in S}
<1>1. \A n \in Nat : IsFiniteSet(0..n)
  BY FS_Interval
<1>2. F \subseteq FiniteSubsetsOf(Nat) /\ F # {}
  <2>1. \A n \in S : 0..n \in FiniteSubsetsOf(Nat)
    BY <1>1 DEF FiniteSubsetsOf
  <2> QED
    BY <2>1
<1> HIDE DEF F
<1>3. IsWellFoundedOn(StrictSubsetOrdering(Nat), FiniteSubsetsOf(Nat))
  BY FS_StrictSubsetOrderingWellFounded
<1>4. PICK b \in F : \A c \in F : <<c, b>> \notin StrictSubsetOrdering(Nat)
  BY <1>2, <1>3, WFMin
<1>5. PICK m \in S : b = 0..m
  BY <1>4 DEF F
<1>6. ASSUME NEW x \in S, x < m PROVE FALSE
  <2>1. 0..x \in F /\ 0..x \subseteq Nat /\ 0..m \subseteq Nat
    BY DEF F
  <2>2. 0..x \subseteq 0..m /\ m \in 0..m /\ m \notin 0..x
    BY <1>6
  <2> QED
    BY <1>4, <1>5, <2>1, <2>2 DEF StrictSubsetOrdering
<1> QED
  BY <1>6

\* Induction over the sources: the set of those for which a claim holds is all of
\* them if each is in it whose smaller ones are.
LEMMA SourceInduction ==
  ASSUME NEW S,
         \A s \in Source : (\A t \in Source : t < s => t \in S) => s \in S
  PROVE  Source \subseteq S
<1>1. SUFFICES ASSUME Source \ S # {} PROVE FALSE
  OBVIOUS
<1>2. Source \ S \in SUBSET Nat
  BY SourceAssumption
<1>3. PICK m \in Source \ S : \A x \in Source \ S : m <= x
  BY <1>1, <1>2, LeastOf
<1>4. \A t \in Source : t < m => t \in S
  <2>1. SUFFICES ASSUME NEW t \in Source, t < m, t \notin S PROVE FALSE
    OBVIOUS
  <2>2. m <= t /\ t \in Nat /\ m \in Nat
    BY <1>2, <1>3, <2>1
  <2> QED
    BY <2>1, <2>2
<1> QED
  BY <1>3, <1>4

\* Induction over the links that are taken one after the other.
LEMMA StepInduction ==
  ASSUME NEW n \in Nat, NEW S, 0 \in S, \A i \in 1..n : i - 1 \in S => i \in S
  PROVE  0..n \subseteq S
<1>1. SUFFICES ASSUME (0..n) \ S # {} PROVE FALSE
  OBVIOUS
<1>2. PICK m \in (0..n) \ S : \A x \in (0..n) \ S : m <= x
  <2>1. (0..n) \ S \in SUBSET Nat
    OBVIOUS
  <2> QED
    BY <1>1, <2>1, LeastOf
<1>3. m # 0 /\ m \in 1..n
  BY <1>2
<1>4. m - 1 \in 0..n /\ ~(m <= m - 1)
  BY <1>3
<1>5. m - 1 \in S
  BY <1>2, <1>4
<1> QED
  BY <1>2, <1>3, <1>5

------------------------------------------------------------------------------
(* Roots of a forest *)

\* No source has a parent above itself.
IsForest(p) == p \in [Source -> Source] /\ \A s \in Source : p[s] <= s

Reach(p, x) ==
  {y \in Source : \A S \in SUBSET Source :
                    x \in S /\ (\A z \in S : p[z] \in S) => y \in S}

LEMMA ReachOfParent ==
  ASSUME NEW p, IsForest(p), NEW x \in Source
  PROVE  /\ x \in Reach(p, x) /\ p[x] \in Reach(p, x)
         /\ Reach(p, p[x]) \subseteq Reach(p, x)
         /\ Reach(p, x) \subseteq Reach(p, p[x]) \cup {x}
<1>1. p[x] \in Source
  BY DEF IsForest
<1>2. x \in Reach(p, x) /\ p[x] \in Reach(p, x)
  BY <1>1 DEF Reach
<1>3. Reach(p, p[x]) \subseteq Reach(p, x)
  <2>1. SUFFICES ASSUME NEW y \in Reach(p, p[x]), NEW S \in SUBSET Source,
                        x \in S, \A z \in S : p[z] \in S
                 PROVE  y \in S
    BY DEF Reach
  <2>2. p[x] \in S
    BY <2>1
  <2> QED
    BY <2>1, <2>2 DEF Reach
<1>4. Reach(p, x) \subseteq Reach(p, p[x]) \cup {x}
  <2> DEFINE T == Reach(p, p[x]) \cup {x}
  <2>1. T \in SUBSET Source /\ x \in T
    BY DEF Reach
  <2>2. \A z \in Reach(p, p[x]) : p[z] \in Reach(p, p[x])
    <3>1. SUFFICES ASSUME NEW z \in Reach(p, p[x]) PROVE p[z] \in Reach(p, p[x])
      OBVIOUS
    <3>2. z \in Source /\ p[z] \in Source
      BY DEF Reach, IsForest
    <3>3. SUFFICES ASSUME NEW S \in SUBSET Source, p[x] \in S, \A u \in S : p[u] \in S
                   PROVE  p[z] \in S
      BY <3>2 DEF Reach
    <3>4. z \in S
      BY <3>3 DEF Reach
    <3> QED
      BY <3>3, <3>4
  <2>3. p[x] \in Reach(p, p[x])
    BY <1>1 DEF Reach
  <2>4. \A z \in T : p[z] \in T
    BY <2>2, <2>3
  <2> HIDE DEF T
  <2>5. Reach(p, x) \subseteq T
    BY <2>1, <2>4 DEF Reach
  <2> QED
    BY <2>5 DEF T
<1> QED
  BY <1>2, <1>3, <1>4

\* The root of a source is the least of those it leads to.
IsLeast(m, S) == m \in S /\ \A x \in S : m <= x

LEMMA LeastExists ==
  ASSUME NEW S \in SUBSET Source, S # {}
  PROVE  \E m \in Source : IsLeast(m, S)
BY LeastOf, SourceAssumption DEF IsLeast

LEMMA LeastIsOne ==
  ASSUME NEW S \in SUBSET Source, NEW m, NEW n, IsLeast(m, S), IsLeast(n, S)
  PROVE  m = n
<1>1. m \in Nat /\ n \in Nat /\ m <= n /\ n <= m
  BY SourceAssumption DEF IsLeast
<1> QED
  BY <1>1

AreRoots(p, r) == r = [x \in Source |-> IF p[x] = x THEN x ELSE r[p[x]]]

LEMMA RootsExist ==
  ASSUME NEW p, IsForest(p)
  PROVE  \E r : AreRoots(p, r)
<1> DEFINE r == [x \in Source |-> CHOOSE m \in Source : IsLeast(m, Reach(p, x))]
<1>1. \A x \in Source : Reach(p, x) \in SUBSET Source /\ Reach(p, x) # {}
  BY ReachOfParent DEF Reach
<1>2. \A x \in Source : r[x] \in Source /\ IsLeast(r[x], Reach(p, x))
  BY <1>1, LeastExists
<1> HIDE DEF r
<1>3. ASSUME NEW x \in Source PROVE r[x] = IF p[x] = x THEN x ELSE r[p[x]]
  <2>1. p[x] \in Source /\ p[x] <= x /\ x \in Nat /\ p[x] \in Nat
    BY SourceAssumption DEF IsForest
  <2>2. CASE p[x] = x
    <3>1. \A y \in Reach(p, x) : y \in {x}
      BY <2>2 DEF Reach
    <3>2. r[x] \in Reach(p, x)
      BY <1>2 DEF IsLeast
    <3> QED
      BY <2>2, <3>1, <3>2
  <2>3. CASE p[x] # x
    <3>1. IsLeast(r[p[x]], Reach(p, p[x]))
      BY <1>2, <2>1
    <3>2. r[p[x]] \in Reach(p, x)
      BY <3>1, ReachOfParent DEF IsLeast
    <3>3. p[x] \in Reach(p, p[x])
      BY <2>1, ReachOfParent
    <3>4. r[p[x]] <= p[x]
      BY <3>1, <3>3 DEF IsLeast
    <3>5. r[p[x]] \in Nat
      BY <1>2, <2>1, SourceAssumption
    <3>6. r[p[x]] <= x
      BY <2>1, <3>4, <3>5
    <3>7. \A y \in Reach(p, x) : r[p[x]] <= y
      <4>1. \A y \in Reach(p, p[x]) : r[p[x]] <= y
        BY <3>1 DEF IsLeast
      <4>2. \A y \in Reach(p, x) : y \in Reach(p, p[x]) \/ y = x
        BY ReachOfParent
      <4> QED
        BY <3>6, <4>1, <4>2
    <3>8. IsLeast(r[p[x]], Reach(p, x))
      BY <3>2, <3>7 DEF IsLeast
    <3>9. IsLeast(r[x], Reach(p, x))
      BY <1>2
    <3>10. r[x] = r[p[x]]
      BY <1>1, <3>8, <3>9, LeastIsOne
    <3> QED
      BY <2>3, <3>10
  <2> QED
    BY <2>2, <2>3
<1>4. r = [x \in Source |-> r[x]]
  BY DEF r
<1>5. r = [x \in Source |-> IF p[x] = x THEN x ELSE r[p[x]]]
  BY <1>3, <1>4
<1> QED
  BY <1>5 DEF AreRoots

LEMMA FindFollowsParents ==
  ASSUME NEW p, IsForest(p), NEW s \in Source
  PROVE  Find(p, s) = IF p[s] = s THEN s ELSE Find(p, p[s])
<1> DEFINE root == CHOOSE r : r = [x \in Source |-> IF p[x] = x THEN x ELSE r[p[x]]]
<1>1. \A x : Find(p, x) = root[x]
  BY DEF Find
<1>2. \E r : r = [x \in Source |-> IF p[x] = x THEN x ELSE r[p[x]]]
  BY RootsExist DEF AreRoots
<1>3. root = [x \in Source |-> IF p[x] = x THEN x ELSE root[p[x]]]
  BY <1>2
<1> HIDE DEF root
<1>4. root[s] = IF p[s] = s THEN s ELSE root[p[s]]
  BY <1>3
<1> QED
  BY <1>1, <1>4

LEMMA ParentIsSmaller ==
  ASSUME NEW p, IsForest(p), NEW s \in Source, p[s] # s
  PROVE  p[s] \in Source /\ p[s] < s
<1>1. p[s] \in Source /\ p[s] <= s /\ p[s] \in Nat /\ s \in Nat
  BY SourceAssumption DEF IsForest
<1> QED
  BY <1>1

LEMMA FindIsRoot ==
  ASSUME NEW p, IsForest(p), NEW s \in Source
  PROVE  Find(p, s) \in Source /\ p[Find(p, s)] = Find(p, s)
<1> DEFINE Good == {x \in Source : Find(p, x) \in Source /\ p[Find(p, x)] = Find(p, x)}
<1>1. ASSUME NEW x \in Source, \A t \in Source : t < x => t \in Good PROVE x \in Good
  <2>1. CASE p[x] = x
    BY <2>1, FindFollowsParents
  <2>2. CASE p[x] # x
    <3>1. p[x] \in Source /\ p[x] < x
      BY <2>2, ParentIsSmaller
    <3>2. Find(p, x) = Find(p, p[x])
      BY <2>2, FindFollowsParents
    <3> QED
      BY <1>1, <3>1, <3>2
  <2> QED
    BY <2>1, <2>2
<1> HIDE DEF Good
<1>2. Source \subseteq Good
  BY <1>1, SourceInduction
<1> QED
  BY <1>2 DEF Good

\* A source may be taken to the parent of its parent, as find does on its way: no
\* root changes.
LEMMA ShorterPath ==
  ASSUME NEW p, IsForest(p), NEW v \in Source
  PROVE  LET q == [p EXCEPT ![v] = p[p[v]]]
         IN  IsForest(q) /\ \A s \in Source : Find(q, s) = Find(p, s)
<1> DEFINE q == [p EXCEPT ![v] = p[p[v]]]
<1>1. p[v] \in Source /\ p[p[v]] \in Source /\ p[p[v]] <= v
  <2>1. \A s \in Source : p[s] \in Source /\ p[s] <= s /\ s \in Nat
    BY SourceAssumption DEF IsForest
  <2>2. p[v] \in Source /\ p[v] <= v /\ p[p[v]] \in Source /\ p[p[v]] <= p[v]
    BY <2>1
  <2> QED
    BY <2>1, <2>2
<1>2. q \in [Source -> Source] /\ q[v] = p[p[v]] /\ \A s \in Source \ {v} : q[s] = p[s]
  BY <1>1 DEF IsForest
<1>3. IsForest(q)
  BY <1>1, <1>2 DEF IsForest
<1> HIDE DEF q
<1> DEFINE Good == {x \in Source : Find(q, x) = Find(p, x)}
<1>4. ASSUME NEW x \in Source, \A t \in Source : t < x => t \in Good PROVE x \in Good
  <2>1. CASE p[x] = x
    <3>1. q[x] = x
      BY <1>2, <2>1
    <3> QED
      BY <1>3, <2>1, <3>1, FindFollowsParents
  <2>2. CASE p[x] # x
    <3>1. p[x] \in Source /\ p[x] < x /\ Find(p, x) = Find(p, p[x])
      BY <2>2, ParentIsSmaller, FindFollowsParents
    <3>2. q[x] # x => q[x] \in Source /\ q[x] < x /\ Find(q, x) = Find(q, q[x])
      BY <1>3, ParentIsSmaller, FindFollowsParents
    <3>3. q[x] = p[x] \/ q[x] = p[p[x]]
      BY <1>2
    <3>4. Find(p, p[p[x]]) = Find(p, p[x])
      <4>1. p[p[x]] = p[x] \/ Find(p, p[x]) = Find(p, p[p[x]])
        BY <3>1, FindFollowsParents
      <4> QED
        BY <4>1
    <3>5. q[x] # x
      <4>1. p[p[x]] <= p[x] /\ p[x] \in Nat /\ x \in Nat /\ p[p[x]] \in Nat
        BY <3>1, SourceAssumption DEF IsForest
      <4>2. p[p[x]] < x
        BY <3>1, <4>1
      <4> QED
        BY <2>2, <3>3, <4>1, <4>2
    <3>6. Find(q, q[x]) = Find(p, q[x])
      BY <1>4, <3>2, <3>5
    <3>7. Find(p, q[x]) = Find(p, p[x])
      BY <3>3, <3>4
    <3> QED
      BY <3>1, <3>2, <3>5, <3>6, <3>7
  <2> QED
    BY <2>1, <2>2
<1> HIDE DEF Good
<1>5. Source \subseteq Good
  BY <1>4, SourceInduction
<1>6. \A s \in Source : Find(q, s) = Find(p, s)
  BY <1>5 DEF Good
<1> QED
  BY <1>3, <1>6 DEF q

\* A union moves two roots to the smaller of them, and nothing else.
LEMMA UnionOfRoots ==
  ASSUME NEW p, IsForest(p), NEW a \in Source, NEW b \in Source
  PROVE  /\ IsForest(United(p, a, b))
         /\ \A s \in Source :
              Find(United(p, a, b), s) =
                IF Find(p, s) \in {Find(p, a), Find(p, b)}
                  THEN Smaller(Find(p, a), Find(p, b)) ELSE Find(p, s)
<1>1. PICK l \in Source : l = Find(p, a) /\ p[l] = l
  BY FindIsRoot
<1>2. PICK r \in Source : r = Find(p, b) /\ p[r] = r
  BY FindIsRoot
<1>3. PICK low \in Source : low = Smaller(l, r)
  BY DEF Smaller
<1>4. PICK high \in Source : high = Larger(l, r)
  BY DEF Larger
<1>5. {low, high} = {l, r} /\ low <= high /\ p[low] = low /\ p[high] = high
  BY <1>1, <1>2, <1>3, <1>4, SourceAssumption DEF Smaller, Larger
<1> DEFINE q == [p EXCEPT ![high] = low]
<1>6. United(p, a, b) = q
  BY <1>1, <1>2, <1>3, <1>4 DEF United
<1>7. q \in [Source -> Source] /\ q[high] = low /\ \A s \in Source \ {high} : q[s] = p[s]
  BY DEF IsForest
<1>8. IsForest(q)
  BY <1>5, <1>7 DEF IsForest
<1> HIDE DEF q
<1> DEFINE New(s) == IF Find(p, s) \in {l, r} THEN low ELSE Find(p, s)
           Good == {x \in Source : Find(q, x) = New(x)}
<1>9. ASSUME NEW x \in Source, \A t \in Source : t < x => t \in Good PROVE x \in Good
  <2>1. CASE x = high
    <3>1. Find(p, x) \in {l, r}
      BY <1>5, <2>1, FindFollowsParents
    <3>2. Find(q, low) = low
      <4>1. q[low] = low
        BY <1>5, <1>7
      <4> QED
        BY <1>8, <4>1, FindFollowsParents
    <3>3. Find(q, x) = low
      BY <1>7, <1>8, <2>1, <3>2, FindFollowsParents
    <3> QED
      BY <3>1, <3>3
  <2>2. CASE x # high /\ p[x] = x
    <3>1. Find(q, x) = x /\ Find(p, x) = x
      BY <1>7, <1>8, <2>2, FindFollowsParents
    <3>2. x \in {l, r} => x = low
      BY <1>5, <2>2
    <3> QED
      BY <3>1, <3>2
  <2>3. CASE x # high /\ p[x] # x
    <3>1. p[x] \in Source /\ p[x] < x /\ q[x] = p[x]
      BY <1>7, <2>3, ParentIsSmaller
    <3>2. Find(q, x) = Find(q, p[x]) /\ Find(p, x) = Find(p, p[x])
      BY <1>8, <2>3, <3>1, FindFollowsParents
    <3> QED
      BY <1>9, <3>1, <3>2
  <2> QED
    BY <2>1, <2>2, <2>3
<1> HIDE DEF Good
<1>10. Source \subseteq Good
  BY <1>9, SourceInduction
<1>11. \A s \in Source : Find(q, s) = New(s)
  BY <1>10 DEF Good
<1> QED
  BY <1>1, <1>2, <1>3, <1>6, <1>8, <1>11

------------------------------------------------------------------------------
(* The clusters are the connected components *)

IsLinks(links) == links \in SUBSET (Source \X Source) /\ IsFiniteSet(links)

LEMMA OrderExists ==
  ASSUME NEW links, IsFiniteSet(links)
  PROVE  \E order : order \in Orders(links)
<1>1. PICK f : f \in Bijection(1..Cardinality(links), links)
  BY FS_CardinalityType DEF ExistsBijection
<1>2. f \in [1..Cardinality(links) -> links] /\ \A l \in links : \E i \in 1..Cardinality(links) : f[i] = l
  BY <1>1 DEF Bijection, Surjection
<1> QED
  BY <1>2 DEF Orders

\* The forest after each number of links.
Step(order, i, h) ==
  IF i = 0 THEN [s \in Source |-> s] ELSE United(h[i - 1], order[i][1], order[i][2])
AreForests(order, n, h) == h = [i \in 0..n |-> Step(order, i, h)]

LEMMA ForestsExist ==
  ASSUME NEW order, NEW n \in Nat
  PROVE  \E h : AreForests(order, n, h)
<1> DEFINE S == {m \in 0..n : \E h : AreForests(order, m, h)}
<1>1. 0 \in S
  <2> DEFINE h == [i \in 0..0 |-> [s \in Source |-> s]]
  <2>1. \A i \in 0..0 : i = 0
    OBVIOUS
  <2>2. h = [i \in 0..0 |-> Step(order, i, h)]
    BY <2>1 DEF Step
  <2> QED
    BY <2>2 DEF AreForests
<1>2. ASSUME NEW m \in 1..n, m - 1 \in S PROVE m \in S
  <2>1. PICK g : AreForests(order, m - 1, g)
    BY <1>2
  <2> DEFINE last == United(g[m - 1], order[m][1], order[m][2])
             h == [i \in 0..m |-> IF i = m THEN last ELSE g[i]]
  <2>2. g = [i \in 0..(m - 1) |-> Step(order, i, g)]
    BY <2>1 DEF AreForests
  <2>3. \A i \in 0..(m - 1) : g[i] = Step(order, i, g)
    BY <2>2
  <2>4. \A i \in 0..(m - 1) : h[i] = g[i] /\ i \in 0..m /\ i # m
    OBVIOUS
  <2>5. h[m] = last /\ m - 1 \in 0..(m - 1) /\ m # 0
    OBVIOUS
  <2>6. h = [i \in 0..m |-> h[i]]
    OBVIOUS
  <2> HIDE DEF h
  <2>7. ASSUME NEW i \in 0..m PROVE h[i] = Step(order, i, h)
    <3>1. CASE i = m
      <4>1. h[m - 1] = g[m - 1]
        BY <2>4, <2>5
      <4> QED
        BY <2>5, <3>1, <4>1 DEF Step
    <3>2. CASE i # m
      <4>1. i \in 0..(m - 1)
        BY <3>2
      <4>2. i # 0 => i - 1 \in 0..(m - 1)
        BY <4>1
      <4>3. h[i] = Step(order, i, g)
        BY <2>3, <2>4, <4>1
      <4>4. Step(order, i, g) = Step(order, i, h)
        BY <2>4, <4>2 DEF Step
      <4> QED
        BY <4>3, <4>4
    <3> QED
      BY <3>1, <3>2
  <2>8. AreForests(order, m, h)
    BY <2>6, <2>7 DEF AreForests
  <2> QED
    BY <2>8
<1> HIDE DEF S
<1>3. 0..n \subseteq S
  BY <1>1, <1>2, StepInduction
<1>4. n \in S
  BY <1>3
<1> QED
  BY <1>4 DEF S

LEMMA ForestIsLast ==
  ASSUME NEW order, Len(order) \in Nat
  PROVE  \E h : AreForests(order, Len(order), h) /\ Forest(order) = h[Len(order)]
<1> DEFINE h == CHOOSE h : h = [i \in 0..Len(order) |->
                    IF i = 0 THEN [s \in Source |-> s]
                    ELSE United(h[i - 1], order[i][1], order[i][2])]
<1>1. Forest(order) = h[Len(order)]
  BY DEF Forest
<1>2. \E g : g = [i \in 0..Len(order) |->
                    IF i = 0 THEN [s \in Source |-> s]
                    ELSE United(g[i - 1], order[i][1], order[i][2])]
  BY ForestsExist DEF AreForests, Step
<1>3. h = [i \in 0..Len(order) |->
                    IF i = 0 THEN [s \in Source |-> s]
                    ELSE United(h[i - 1], order[i][1], order[i][2])]
  BY <1>2
<1> HIDE DEF h
<1>4. AreForests(order, Len(order), h)
  BY <1>3 DEF AreForests, Step
<1> QED
  BY <1>1, <1>4

\* What holds of the forest after some of the links: they are joined, and no set
\* that the links do not leave is left on the way to a root.
Joined(p, done) == \A l \in done : Find(p, l[1]) = Find(p, l[2])
Within(p, links) ==
  \A S \in SUBSET Source : Closed(S, links) => \A s \in Source : s \in S <=> Find(p, s) \in S

LEMMA NothingJoined ==
  LET p == [s \in Source |-> s]
  IN  IsForest(p) /\ \A s \in Source : Find(p, s) = s
<1> DEFINE p == [s \in Source |-> s]
<1>1. IsForest(p)
  BY SourceAssumption DEF IsForest
<1>2. \A s \in Source : p[s] = s
  OBVIOUS
<1> HIDE DEF p
<1>3. \A s \in Source : Find(p, s) = s
  BY <1>1, <1>2, FindFollowsParents
<1> QED
  BY <1>1, <1>3 DEF p

LEMMA OneMoreLink ==
  ASSUME NEW p, NEW links, NEW done \in SUBSET links, NEW l \in links, IsLinks(links),
         IsForest(p), Joined(p, done), Within(p, links)
  PROVE  LET q == United(p, l[1], l[2])
         IN  IsForest(q) /\ Joined(q, done \cup {l}) /\ Within(q, links)
<1> DEFINE q == United(p, l[1], l[2])
           low == Smaller(Find(p, l[1]), Find(p, l[2]))
<1>1. l[1] \in Source /\ l[2] \in Source /\ \A k \in done : k[1] \in Source /\ k[2] \in Source
  BY DEF IsLinks
<1>2. /\ IsForest(q)
      /\ \A s \in Source : Find(q, s) = IF Find(p, s) \in {Find(p, l[1]), Find(p, l[2])}
                                         THEN low ELSE Find(p, s)
  BY <1>1, UnionOfRoots
<1>3. low \in {Find(p, l[1]), Find(p, l[2])}
  BY DEF Smaller
<1> HIDE DEF q, low
<1>4. Joined(q, done \cup {l})
  <2>1. Find(q, l[1]) = Find(q, l[2])
    BY <1>1, <1>2
  <2>2. \A k \in done : Find(q, k[1]) = Find(q, k[2])
    BY <1>1, <1>2 DEF Joined
  <2> QED
    BY <2>1, <2>2 DEF Joined
<1>5. Within(q, links)
  <2>1. SUFFICES ASSUME NEW S \in SUBSET Source, Closed(S, links), NEW s \in Source
                 PROVE  s \in S <=> Find(q, s) \in S
    BY DEF Within
  <2>2. \A t \in Source : t \in S <=> Find(p, t) \in S
    BY <2>1 DEF Within
  <2>3. l[1] \in S <=> l[2] \in S
    BY <2>1 DEF Closed
  <2>4. Find(p, l[1]) \in S <=> Find(p, l[2]) \in S
    BY <1>1, <2>2, <2>3
  <2> QED
    BY <1>2, <1>3, <2>2, <2>4
<1> QED
  BY <1>2, <1>4, <1>5 DEF q

LEMMA ForestOfOrder ==
  ASSUME NEW links, IsLinks(links), NEW order \in Orders(links)
  PROVE  IsForest(Forest(order)) /\ Joined(Forest(order), links) /\ Within(Forest(order), links)
<1> DEFINE n == Cardinality(links)
<1>1. n \in Nat
  BY FS_CardinalityType DEF IsLinks
<1>2. order \in [1..n -> links] /\ \A l \in links : \E i \in 1..n : order[i] = l
  BY DEF Orders
<1> HIDE DEF n
<1>3. Len(order) = n
  BY <1>1, <1>2
<1>4. PICK h : AreForests(order, n, h) /\ Forest(order) = h[n]
  BY <1>1, <1>3, ForestIsLast
<1>5. \A i \in 0..n : h[i] = Step(order, i, h)
  BY <1>4 DEF AreForests
<1> DEFINE Done(i) == {order[j] : j \in 1..i}
           S == {i \in 0..n : IsForest(h[i]) /\ Joined(h[i], Done(i)) /\ Within(h[i], links)}
<1>6. 0 \in S
  <2>1. h[0] = [s \in Source |-> s] /\ 0 \in 0..n
    BY <1>1, <1>5 DEF Step
  <2>2. IsForest(h[0]) /\ \A s \in Source : Find(h[0], s) = s
    BY <2>1, NothingJoined
  <2>3. Done(0) = {}
    OBVIOUS
  <2>4. Joined(h[0], Done(0))
    BY <2>3 DEF Joined
  <2>5. Within(h[0], links)
    BY <2>2 DEF Within
  <2> QED
    BY <2>1, <2>2, <2>4, <2>5
<1>7. ASSUME NEW i \in 1..n, i - 1 \in S PROVE i \in S
  <2>1. PICK l \in links : l = order[i]
    BY <1>2
  <2>2. h[i] = United(h[i - 1], l[1], l[2])
    <3>1. i # 0 /\ i \in 0..n
      BY <1>1
    <3>2. h[i] = Step(order, i, h)
      BY <1>5, <3>1
    <3> QED
      BY <2>1, <3>1, <3>2 DEF Step
  <2>3. Done(i - 1) \in SUBSET links
    BY <1>1, <1>2
  <2>4. Done(i) = Done(i - 1) \cup {l}
    <3>1. 1..i = 1..(i - 1) \cup {i}
      BY <1>1
    <3> QED
      BY <2>1, <3>1
  <2>5. IsForest(h[i - 1]) /\ Joined(h[i - 1], Done(i - 1)) /\ Within(h[i - 1], links)
    BY <1>7
  <2> HIDE DEF Done
  <2>6. IsForest(h[i]) /\ Joined(h[i], Done(i)) /\ Within(h[i], links)
    <3> DEFINE q == United(h[i - 1], l[1], l[2])
    <3>1. IsForest(q) /\ Joined(q, Done(i - 1) \cup {l}) /\ Within(q, links)
      BY <2>3, <2>5, OneMoreLink
    <3> QED
      BY <2>2, <2>4, <3>1
  <2>7. i \in 0..n
    BY <1>1
  <2> QED
    BY <2>6, <2>7
<1> HIDE DEF S
<1>8. 0..n \subseteq S
  BY <1>1, <1>6, <1>7, StepInduction
<1>9. n \in S
  BY <1>1, <1>8
<1>10. Done(n) = links
  BY <1>2
<1> HIDE DEF Done
<1> QED
  BY <1>4, <1>9, <1>10 DEF S

\* The group of a source.
GroupOf(p, s) == {t \in Source : Find(p, t) = Find(p, s)}

LEMMA GroupsAreComponents ==
  ASSUME NEW links, IsLinks(links), NEW p, IsForest(p), Joined(p, links), Within(p, links)
  PROVE  {GroupOf(p, s) : s \in Source} = Components(links)
<1>1. ASSUME NEW s \in Source
      PROVE  s \in GroupOf(p, s) /\ GroupOf(p, s) \in SUBSET Source /\ Closed(GroupOf(p, s), links)
  BY DEF GroupOf, Joined, Closed, IsLinks
<1>2. ASSUME NEW s \in Source, NEW T \in SUBSET Source, Closed(T, links),
             NEW t \in T, t \in GroupOf(p, s)
      PROVE  GroupOf(p, s) \subseteq T
  <2>1. \A u \in Source : u \in T <=> Find(p, u) \in T
    BY <1>2 DEF Within
  <2>2. \A u \in GroupOf(p, s) : u \in Source /\ Find(p, u) = Find(p, t)
    BY <1>2 DEF GroupOf
  <2> QED
    BY <2>1, <2>2
<1>3. ASSUME NEW s \in Source PROVE GroupOf(p, s) \in Components(links)
  <2>1. ASSUME NEW T \in (SUBSET GroupOf(p, s)) \ {{}, GroupOf(p, s)}, Closed(T, links)
        PROVE  FALSE
    <3>1. PICK t \in T : t \in GroupOf(p, s)
      BY <2>1
    <3>2. T \in SUBSET Source
      BY <1>1, <2>1
    <3>3. GroupOf(p, s) \subseteq T
      BY <1>2, <2>1, <3>1, <3>2
    <3> QED
      BY <2>1, <3>3
  <2> QED
    BY <1>1, <2>1 DEF Components
<1>4. ASSUME NEW C \in Components(links) PROVE \E s \in Source : C = GroupOf(p, s)
  <2>1. C \in SUBSET Source /\ C # {} /\ Closed(C, links)
        /\ \A T \in (SUBSET C) \ {{}, C} : ~Closed(T, links)
    BY DEF Components
  <2>2. PICK s \in Source : s \in C
    BY <2>1
  <2>3. GroupOf(p, s) \subseteq C
    BY <1>1, <1>2, <2>1, <2>2
  <2>4. GroupOf(p, s) = C
    BY <1>1, <2>1, <2>2, <2>3
  <2> QED
    BY <2>2, <2>4
<1> QED
  BY <1>3, <1>4

\* Union and find leave the connected components, whatever the order.
LEMMA ClustersOfLinks ==
  ASSUME NEW links, IsLinks(links), NEW order \in Orders(links)
  PROVE  Groups(order) = Components(links)
<1>1. Groups(order) = {GroupOf(Forest(order), s) : s \in Source}
  BY DEF Groups, GroupOf
<1> QED
  BY <1>1, ForestOfOrder, GroupsAreComponents

------------------------------------------------------------------------------
(* The clusters of a run's sources *)

LEMMA EdgeForms ==
  ASSUME NEW f \in FeatureRecord, NEW e \in Edges(f)
  PROVE  /\ e.parent \in Source /\ e.child \in Source
         /\ e.relationship # "CITES" => Before(f, e.parent, e.child)
<1>1. CASE e \in CitesOf(f)
  <2>1. PICK c \in f.cites : e = Edge(c[2], c[1], "CITES")
    BY <1>1 DEF CitesOf
  <2>2. f.cites \subseteq Source \X Source
    BY DEF FeatureRecord
  <2>3. e.parent = c[2] /\ e.child = c[1] /\ e.relationship = "CITES"
    BY <2>1 DEF Edge
  <2> QED
    BY <2>2, <2>3
<1>2. CASE e \notin CitesOf(f)
  <2>1. PICK p \in {q \in f.read \X f.read : Before(f, q[1], q[2])} :
          e \in {Edge(p[1], p[2], r) : r \in Dependency(f, p[1], p[2])}
    BY <1>2 DEF Edges
  <2>2. e.parent = p[1] /\ e.child = p[2]
    BY <2>1 DEF Edge
  <2>3. f.read \subseteq Source
    BY DEF FeatureRecord
  <2> QED
    BY <2>1, <2>2, <2>3
<1> QED
  BY <1>1, <1>2

LEMMA LinksAreLinks ==
  ASSUME NEW f \in FeatureRecord
  PROVE  IsLinks(Links(Edges(f)))
<1>1. Links(Edges(f)) \in SUBSET (Source \X Source)
  <2>1. SUFFICES ASSUME NEW e \in Edges(f) PROVE Pair(e.parent, e.child) \in Source \X Source
    BY DEF Links
  <2> QED
    BY EdgeForms DEF Pair, Smaller, Larger
<1>2. IsFiniteSet(Source \X Source)
  BY SourceAssumption, FS_Product
<1> QED
  BY <1>1, <1>2, FS_Subset DEF IsLinks

\* The ends of a link are those of its edge.
LEMMA LinkEnds ==
  ASSUME NEW a \in Source, NEW b \in Source
  PROVE  \A S : (Pair(a, b)[1] \in S <=> Pair(a, b)[2] \in S) <=> (a \in S <=> b \in S)
BY DEF Pair, Smaller, Larger

LEMMA ClustersAreGroups ==
  ASSUME NEW f \in FeatureRecord
  PROVE  \E p : IsForest(p) /\ Clusters(f) = {GroupOf(p, s) : s \in Source}
<1> DEFINE links == Links(Edges(f))
           order == CHOOSE o \in Orders(links) : TRUE
<1>1. IsLinks(links)
  BY LinksAreLinks
<1>2. order \in Orders(links)
  BY <1>1, OrderExists DEF IsLinks
<1>3. Clusters(f) = Groups(order)
  BY DEF Clusters
<1> HIDE DEF links, order
<1>4. IsForest(Forest(order))
  BY <1>1, <1>2, ForestOfOrder
<1> QED
  BY <1>3, <1>4 DEF Groups, GroupOf

LEMMA ClustersAreTheComponents ==
  ASSUME NEW f \in FeatureRecord
  PROVE  Clusters(f) = Components(Links(Edges(f)))
<1> DEFINE links == Links(Edges(f))
           order == CHOOSE o \in Orders(links) : TRUE
<1>1. IsLinks(links)
  BY LinksAreLinks
<1>2. order \in Orders(links)
  BY <1>1, OrderExists DEF IsLinks
<1>3. Clusters(f) = Groups(order)
  BY DEF Clusters
<1> HIDE DEF links, order
<1> QED
  BY <1>1, <1>2, <1>3, ClustersOfLinks DEF links

\* Every source is in one cluster.
LEMMA OneClusterEach ==
  ASSUME NEW f \in FeatureRecord
  PROVE  /\ \A C \in Clusters(f) : C \in SUBSET Source /\ C # {}
         /\ \A s \in Source : \E C \in Clusters(f) : s \in C
         /\ \A C, D \in Clusters(f) : \A s \in C : s \in D => C = D
<1>1. PICK p : IsForest(p) /\ Clusters(f) = {GroupOf(p, s) : s \in Source}
  BY ClustersAreGroups
<1>2. \A s \in Source : GroupOf(p, s) \in SUBSET Source /\ s \in GroupOf(p, s)
  BY DEF GroupOf
<1>3. \A s, t, u \in Source : u \in GroupOf(p, s) /\ u \in GroupOf(p, t)
                               => GroupOf(p, s) = GroupOf(p, t)
  BY DEF GroupOf
<1>4. ASSUME NEW C \in Clusters(f), NEW D \in Clusters(f), NEW u \in C, u \in D PROVE C = D
  <2>1. PICK s \in Source : C = GroupOf(p, s)
    BY <1>1
  <2>2. PICK t \in Source : D = GroupOf(p, t)
    BY <1>1
  <2> QED
    BY <1>2, <1>3, <1>4, <2>1, <2>2
<1> QED
  BY <1>1, <1>2, <1>4

LEMMA ClusterOfIsOne ==
  ASSUME NEW f \in FeatureRecord, NEW s \in Source
  PROVE  /\ ClusterOf(f, s) \in Clusters(f) /\ s \in ClusterOf(f, s)
         /\ \A C \in Clusters(f) : s \in C => C = ClusterOf(f, s)
BY OneClusterEach DEF ClusterOf

\* Dependent sources share their cluster, and a source on which no other depends
\* and that depends on no other has one of its own.
LEMMA ClustersFollowEdges ==
  ASSUME NEW f \in FeatureRecord, NEW C \in Clusters(f)
  PROVE  /\ \A e \in Edges(f) : e.relationship # "CITES" => (e.parent \in C <=> e.child \in C)
         /\ \A s \in C : \/ C = {s}
                         \/ \E e \in Edges(f) : e.relationship # "CITES" /\ s \in {e.parent, e.child}
<1> DEFINE links == Links(Edges(f))
<1>1. /\ Closed(C, links)
      /\ \A T \in (SUBSET C) \ {{}, C} : ~Closed(T, links)
  BY ClustersAreTheComponents DEF Components
<1>2. ASSUME NEW e \in Edges(f), e.relationship # "CITES"
      PROVE  Pair(e.parent, e.child) \in links
  BY <1>2 DEF Links
<1>3. ASSUME NEW l \in links
      PROVE  \E e \in Edges(f) : e.relationship # "CITES" /\ l = Pair(e.parent, e.child)
  BY DEF Links
<1> HIDE DEF links
<1>4. ASSUME NEW e \in Edges(f), e.relationship # "CITES"
      PROVE  e.parent \in C <=> e.child \in C
  BY <1>1, <1>2, <1>4, EdgeForms, LinkEnds DEF Closed
<1>5. ASSUME NEW s \in C, C # {s},
             \A e \in Edges(f) : e.relationship # "CITES" => s \notin {e.parent, e.child}
      PROVE  FALSE
  <2>1. \A l \in links : l[1] \in {s} <=> l[2] \in {s}
    <3>1. SUFFICES ASSUME NEW l \in links PROVE l[1] \in {s} <=> l[2] \in {s}
      OBVIOUS
    <3>2. PICK e \in Edges(f) : e.relationship # "CITES" /\ l = Pair(e.parent, e.child)
      BY <1>3
    <3>3. e.parent \notin {s} /\ e.child \notin {s}
      BY <1>5, <3>2
    <3>4. e.parent \in Source /\ e.child \in Source
      BY EdgeForms
    <3>5. Pair(e.parent, e.child)[1] # s /\ Pair(e.parent, e.child)[2] # s
      BY <3>3 DEF Pair, Smaller, Larger
    <3> QED
      BY <3>2, <3>5
  <2>2. Closed({s}, links)
    BY <2>1 DEF Closed
  <2> QED
    BY <1>1, <1>5, <2>2
<1> QED
  BY <1>4, <1>5

\* In a set of sources, one comes first by a date and then by its place.
LEMMA OneIsFirst ==
  ASSUME NEW C \in SUBSET Source, C # {}, NEW g \in [Source -> Nat]
  PROVE  \E s \in C : \A t \in C \ {s} : g[s] < g[t] \/ (g[s] = g[t] /\ s < t)
<1>1. PICK d \in Nat : (\E s \in C : g[s] = d) /\ \A t \in C : d <= g[t]
  <2> DEFINE D == {g[s] : s \in C}
  <2>1. D \in SUBSET Nat /\ D # {}
    OBVIOUS
  <2> HIDE DEF D
  <2>2. PICK d \in D : \A x \in D : d <= x
    BY <2>1, LeastOf
  <2> QED
    BY <2>1, <2>2 DEF D
<1> DEFINE F == {s \in C : g[s] = d}
<1>2. F \in SUBSET Nat /\ F # {}
  BY <1>1, SourceAssumption
<1>3. PICK s \in F : \A t \in F : s <= t
  BY <1>2, LeastOf
<1>4. ASSUME NEW t \in C \ {s} PROVE g[s] < g[t] \/ (g[s] = g[t] /\ s < t)
  <2>1. s \in Nat /\ t \in Nat /\ g[t] \in Nat /\ g[s] = d /\ d <= g[t]
    BY <1>1, SourceAssumption
  <2>2. CASE g[t] = d
    <3>1. s <= t /\ s # t
      BY <1>3, <2>2
    <3> QED
      BY <2>1, <2>2, <3>1
  <2>3. CASE g[t] # d
    BY <2>1, <2>3
  <2> QED
    BY <2>2, <2>3
<1> QED
  BY <1>4

\* The source of an origin that was known first depends on no other.
LEMMA FirstIsHeard ==
  ASSUME NEW f \in FeatureRecord, NEW C \in Clusters(f)
  PROVE  \E s \in C : Multipliers(f)[s] > 0
<1> DEFINE g == [s \in Source |-> FirstKnown(f, s)]
<1>1. C \in SUBSET Source /\ C # {}
  BY OneClusterEach
<1>2. g \in [Source -> Nat]
  BY DEF FeatureRecord, FirstKnown
<1>3. PICK s \in C : \A t \in C \ {s} : g[s] < g[t] \/ (g[s] = g[t] /\ s < t)
  BY <1>1, <1>2, OneIsFirst
<1>4. ASSUME NEW e \in Edges(f), e.child = s, e.relationship # "CITES" PROVE FALSE
  <2>1. e.parent \in Source /\ s \in Source /\ Before(f, e.parent, s)
    BY <1>4, EdgeForms
  <2>2. e.parent \in C
    BY <1>4, ClustersFollowEdges
  <2>3. g[e.parent] \in Nat /\ g[s] \in Nat /\ e.parent \in Nat /\ s \in Nat
    BY <1>2, <2>1, SourceAssumption
  <2>4. g[e.parent] < g[s] \/ (g[e.parent] = g[s] /\ e.parent < s)
    BY <2>1 DEF Before
  <2>5. e.parent # s
    BY <2>3, <2>4
  <2>6. g[s] < g[e.parent] \/ (g[s] = g[e.parent] /\ s < e.parent)
    BY <1>3, <2>2, <2>5
  <2> QED
    BY <2>3, <2>4, <2>6
<1>5. RelationshipsOf(Edges(f), s) \subseteq {"CITES"}
  BY <1>4 DEF RelationshipsOf
<1>6. MultiplierOf(RelationshipsOf(Edges(f), s), f.kind[s]) \in {7, 20}
  <2>1. "REPUBLISHES" \notin RelationshipsOf(Edges(f), s)
        /\ "POSSIBLE_DUPLICATE" \notin RelationshipsOf(Edges(f), s)
    BY <1>5
  <2> QED
    BY <1>5, <2>1 DEF MultiplierOf
<1>7. Multipliers(f)[s] \in {7, 20}
  BY <1>1, <1>6 DEF Multipliers
<1> QED
  BY <1>7

\* A source that a cluster is stored for is shown in it; one without stored edges
\* represents the cluster it alone is in.
LEMMA RepresentativeIsIn ==
  ASSUME NEW f \in FeatureRecord, NEW C \in Clusters(f)
  PROVE  Representative(f, C) \in C
<1> DEFINE g == [s \in Source |-> Appearance(f, s)]
<1>1. C \in SUBSET Source /\ C # {}
  BY OneClusterEach
<1>2. g \in [Source -> Nat]
  BY DEF FeatureRecord, Appearance
<1>3. PICK s \in C : \A t \in C \ {s} : g[s] < g[t] \/ (g[s] = g[t] /\ s < t)
  BY <1>1, <1>2, OneIsFirst
<1>4. \A t \in C \ {s} : \/ Appearance(f, s) < Appearance(f, t)
                         \/ Appearance(f, s) = Appearance(f, t) /\ s < t
  <2>1. \A t \in C : g[t] = Appearance(f, t)
    BY <1>1
  <2> HIDE DEF g
  <2> QED
    BY <1>3, <2>1
<1> QED
  BY <1>4 DEF Representative

LEMMA ShownInItsCluster ==
  ASSUME NEW f \in FeatureRecord, NEW s \in Source
  PROVE  ShownClusters(f, s) = {ClusterOf(f, s)}
<1> DEFINE own == {e \in Edges(f) : s \in {e.parent, e.child}}
           stored == {StoredCluster(f, e) : e \in own} \ {{}}
<1>1. ASSUME NEW e \in own, StoredCluster(f, e) # {} PROVE StoredCluster(f, e) = ClusterOf(f, s)
  BY <1>1 DEF StoredCluster
<1>2. stored \subseteq {ClusterOf(f, s)}
  BY <1>1
<1>3. CASE stored # {}
  BY <1>2, <1>3 DEF ShownClusters
<1>4. CASE stored = {}
  <2>1. ShownClusters(f, s) = {C \in Clusters(f) : Representative(f, C) = s}
    BY <1>4 DEF ShownClusters
  <2>2. ClusterOf(f, s) = {s}
    <3>1. SUFFICES ASSUME NEW e \in Edges(f), e.relationship # "CITES", s \in {e.parent, e.child}
                   PROVE  FALSE
      BY ClusterOfIsOne, ClustersFollowEdges
    <3>2. e.parent \in Source /\ e.child \in Source
      BY EdgeForms
    <3>3. ClusterOf(f, e.parent) = ClusterOf(f, e.child)
      <4>1. e.child \in ClusterOf(f, e.parent)
        BY <3>1, <3>2, ClusterOfIsOne, ClustersFollowEdges
      <4> QED
        BY <3>2, <4>1, ClusterOfIsOne
    <3>4. StoredCluster(f, e) = ClusterOf(f, e.child) /\ e.child \in ClusterOf(f, e.child)
      BY <3>2, <3>3, ClusterOfIsOne DEF StoredCluster
    <3>5. StoredCluster(f, e) \in stored
      BY <3>1, <3>4
    <3> QED
      BY <1>4, <3>5
  <2>3. \A C \in Clusters(f) : Representative(f, C) = s => C = ClusterOf(f, s)
    BY ClusterOfIsOne, RepresentativeIsIn
  <2>4. ClusterOf(f, s) \in Clusters(f) /\ Representative(f, ClusterOf(f, s)) = s
    BY <2>2, ClusterOfIsOne, RepresentativeIsIn
  <2> QED
    BY <2>1, <2>3, <2>4
<1> QED
  BY <1>3, <1>4

------------------------------------------------------------------------------
(* What a reader is shown of the provenance *)

\* What the documents of the run have in common does not change.
LEMMA FeaturesStay == Spec => [](features \in FeatureRecord)
<1>1. Init => features \in FeatureRecord
  BY FeaturesAssumption DEF Init
<1>2. features \in FeatureRecord /\ [Next]_vars => (features \in FeatureRecord)'
  <2> SUFFICES ASSUME [Next]_vars PROVE features' = features
    OBVIOUS
  <2> QED
    BY DEF vars, Next, Work, Analyse, Classify, Score, NoApprovedEvidence, Synthesise, Draft,
           JudgeCitations, Audit, AlreadyAudited, RevisionExhausted, ReviseReport, Revise,
           Cancelled, Fails, StartOver, Goto, Keep
<1> QED
  BY <1>1, <1>2, PTL DEF Spec

\* Whatever the dependencies between any number of sources and the order in which
\* they are found, union and find group the sources into the connected components
\* of the dependencies, every one of them (cluster_sources).
THEOREM ComponentsFound == Spec => []ClustersAreComponents
<1>1. features \in FeatureRecord => ClustersAreComponents
  BY LinksAreLinks, ClustersOfLinks DEF ClustersAreComponents
<1> QED
  BY <1>1, FeaturesStay, PTL

\* However the sources of an information origin copy, quote and cite each other,
\* one of them keeps a weight, the first known (dependency_multipliers).
THEOREM OriginHeard == Spec => []OriginIsHeard
<1>1. features \in FeatureRecord => OriginIsHeard
  BY FirstIsHeard DEF OriginIsHeard
<1> QED
  BY <1>1, FeaturesStay, PTL

\* The source graph shows each source in its own cluster and in no other, from
\* the stored edges and representatives (_persist_provenance, build_source_graph).
THEOREM GraphIsTrue == Spec => []GraphShowsTheClusters
<1>1. features \in FeatureRecord => GraphShowsTheClusters
  BY ShownInItsCluster DEF GraphShowsTheClusters
<1> QED
  BY <1>1, FeaturesStay, PTL
==============================================================================
