------------------------------- MODULE Scoring -------------------------------
(***************************************************************************)
(* The deterministic scoring of classified evidence: what the accepted     *)
(* items of a claim weigh for and against it, which gates its label has to *)
(* pass, and the scores and the label of the whole article.  How much a    *)
(* source may contribute and which share an origin is up to Provenance.    *)
(*                                                                         *)
(* Scores are tenths of a percent, rounded down where the code keeps 28    *)
(* digits; for a comparison with a threshold of the code that is the same. *)
(* An item weighs its quality, in tenths, times its source's dependency    *)
(* multiplier, in twentieths; a stance is in halves, from -2 to 2.         *)
(***************************************************************************)
EXTENDS Provenance, FiniteSetsExt

CONSTANTS
  Claim, Essential,     \* the claims, and those marked as essential
  Ambiguous,            \* the claims that own an unresolved ambiguity
  Attributed,           \* quotations, attributions and claims with a period
  Checkable,            \* the claims that are fact-checkable
  Importance,           \* importance_weight of each claim
  Passage,              \* passages of fetched sources
  SourceOf, Quality,    \* per passage
  Domain,               \* per source
  Primary, SelfReport,  \* sources by source_type
  ContextPenalty        \* CONTEXT_PENALTIES, of the issues in use

ASSUME ScoringAssumption ==
  /\ Essential \subseteq Claim /\ Ambiguous \subseteq Claim /\ Attributed \subseteq Claim
  /\ Checkable \subseteq Claim
  /\ IsFiniteSet(Claim) /\ Claim # {}
  /\ Importance \in [Claim -> 1..3]
  /\ SourceOf \in [Passage -> Source]
  /\ Quality \in [Passage -> 0..10]
  /\ Primary \subseteq Source /\ SelfReport \subseteq Source
  /\ \A i \in DOMAIN ContextPenalty : ContextPenalty[i] \in 0..1000

\* source_dependency_multipliers and information_clusters of the run
Multiplier == Multipliers(Features)
Cluster == [s \in Source |-> ClusterOf(Features, s)]

Full == 1000
Minimum == 200   \* minimum_adjusted_evidence, 0.50 in the unit of Balance

Sum(f(_), S) == MapThenSumSet(f, S)
Most(a, b) == IF a >= b THEN a ELSE b
Least(a, b) == IF a <= b THEN a ELSE b
Clamp(x) == Most(0, Least(Full, x))
Share(a, b) == IF b = 0 THEN 0 ELSE (Full * a) \div b

------------------------------------------------------------------------------
(* Formulas: an item is the claim, the passage and its classification. *)

Weight(i) == Quality[i.passage] * Multiplier[SourceOf[i.passage]]

Balance(items) ==
  [for     |-> Sum(LAMBDA i : Most(i.stance, 0) * Weight(i), items),
   against |-> Sum(LAMBDA i : Most(-i.stance, 0) * Weight(i), items)]
Total(b) == b.for + b.against

Support(b) == Share(b.for, Total(b))
Consistency(b) == Share(Most(b.for - b.against, b.against - b.for), Total(b))

AverageQuality(items) ==
  Share(Sum(LAMBDA i : Quality[i.passage] * Weight(i), items),
        10 * Sum(Weight, items))

Diversity(S) == Least(Full, 500 * Cardinality(S))
Independence(sources) ==
  LET origins == {Cluster[s] : s \in sources}
      independent == {s \in sources : Multiplier[s] = 20} IN
  (40 * Diversity(origins) + 25 * Diversity(sources \intersect Primary)
     + 20 * Diversity({Domain[s] : s \in sources})
     + 15 * Most(Diversity(origins), Diversity(independent))) \div 100

\* CONFIDENCE_PENALTIES
ConfidencePenalty ==
  [ambiguous |-> 105, speakerOrDate |-> 100, oneCluster |-> 150, noPrimary |-> 0]

Confidence(coverage, items, sources, consistency, issues) ==
  Clamp((30 * coverage + 25 * AverageQuality(items) + 20 * Independence(sources)
           + 15 * consistency
           + 10 * (IF sources \intersect Primary # {} THEN Full ELSE 0)) \div 100
        - Sum(LAMBDA i : ConfidencePenalty[i], issues))

Context(items) ==
  Clamp(Full - Sum(LAMBDA x : ContextPenalty[x], UNION {i.context : i \in items}))

------------------------------------------------------------------------------
(* Labels *)

Insufficient == {"insufficient", "insufficient: leans supported",
                 "insufficient: leans contradicted", "insufficient: mixed"}
SupportLabels == <<"contradicted", "mostly contradicted", "leaning contradicted", "mixed",
                   "leaning supported", "mostly supported", "supported">>
Misleading == "misleading"

SupportLabel(support) ==
  SupportLabels[1 + Cardinality({x \in {110, 260, 400, 600, 750, 900} : support >= x})]

InsufficientLabel(known, support) ==
  IF ~known THEN "insufficient"
  ELSE IF support >= 600 THEN "insufficient: leans supported"
  ELSE IF support < 400 THEN "insufficient: leans contradicted"
  ELSE "insufficient: mixed"

\* final_claim_label, and article_label before its last rule: below 90 the
\* claim's rule for "Supported" and support_label say the same.
Label(known, support, confidence, context, gated) ==
  IF ~known \/ confidence < 350 \/ gated THEN InsufficientLabel(known, support)
  ELSE IF support >= 700 /\ context < 500 THEN Misleading
  ELSE SupportLabel(support)

------------------------------------------------------------------------------
(* DeterministicScoringService.process *)

Accepted(evidence) == {i \in evidence : ~i.rejected}

\* by_claim, and its mutant that forgets the gates.
OfClaimRejectedToo(c, evidence) == {i \in evidence : i.claim = c}
OfClaim(c, evidence) == {i \in evidence : i.claim = c /\ ~i.rejected}

SourcesOf(items) == {SourceOf[i.passage] : i \in items}
OneOrigin(sources) == Cardinality({Cluster[s] : s \in sources}) = 1
Interested(sources) == Cardinality(sources) = 1 /\ sources \subseteq SelfReport
SpeakerOrDate(items) == \E i \in items : i.speakerOrDate

Issues(c, items) ==
  {x \in DOMAIN ConfidencePenalty :
     CASE x = "ambiguous"     -> c \in Ambiguous
       [] x = "speakerOrDate" -> SpeakerOrDate(items)
       [] x = "oneCluster"    -> OneOrigin(SourcesOf(items))
       [] x = "noPrimary"     -> SourcesOf(items) \intersect Primary = {}}

\* An owned ambiguity does not block a claim that is well supported and hardly
\* contradicted: at most 15 parts of contradiction to 100 of support.
NonBlocking(c, b) ==
  /\ c \in Ambiguous
  /\ Total(b) >= Minimum
  /\ Support(b) >= 700
  /\ b.for > 0 /\ 100 * b.against <= 15 * b.for

ClaimScore(c, items) ==
  LET b       == Balance(items)
      sources == SourcesOf(items)
      enough  == Total(b) >= Minimum
      confidence == Confidence(IF enough THEN Full ELSE 0, items, sources,
                               Consistency(b), Issues(c, items))
      gated == \/ ~enough
               \/ Interested(sources)
               \/ c \in Ambiguous /\ ~NonBlocking(c, b)
               \/ SpeakerOrDate(items) /\ c \in Attributed
  IN [known |-> Total(b) > 0, balance |-> b, enough |-> enough,
      confidence |-> confidence, context |-> Context(items),
      nonBlocking |-> NonBlocking(c, b),
      label |-> Label(Total(b) > 0, Support(b), confidence, Context(items), gated)]

\* Fact-checkable claims whose evidence says something decide the article's accuracy.
Known(claims) == {c \in Checkable : claims[c].known}
Accuracy(claims) ==
  Sum(LAMBDA c : Support(claims[c].balance) * Importance[c], Known(claims))
    \div Sum(LAMBDA c : Importance[c], Known(claims))

Coverage(claims) ==
  LET counted == Checkable \intersect (IF Essential = {} THEN Claim ELSE Essential) IN
  Share(Sum(LAMBDA c : Importance[c], {c \in counted : claims[c].enough}),
        Sum(LAMBDA c : Importance[c], counted))

\* Support of at most 10 and confidence of at least 70.
StronglyRefuted(s) == s.known /\ 10 * s.balance.for <= Total(s.balance) /\ s.confidence >= 700

\* weighted_average(...) or Decimal("100"): a mean of zero counts as no mean.
OrFull(mean) == IF mean = 0 THEN Full ELSE mean
MeanContext(claims) ==
  OrFull(Sum(LAMBDA c : claims[c].context * Importance[c], Claim)
           \div Sum(LAMBDA c : Importance[c], Claim))

ArticleScore(claims, of, items) ==
  LET sources == SourcesOf(items)
      b       == Balance(items)
      issues  == UNION {Issues(c, of[c]) : c \in Claim} \ {"ambiguous"}
      context == MeanContext(claims)
      known   == Known(claims) # {}
      support == IF known THEN Accuracy(claims) ELSE 0
      confidence == Confidence(Coverage(claims), items, sources, Consistency(b), issues)
      gated == \/ Total(b) < Minimum
               \/ Essential # {} /\ \A c \in Essential : ~claims[c].enough
               \/ Interested(sources)
               \/ \E c \in Attributed : SpeakerOrDate(of[c])
      label == Label(known, support, confidence, context, gated)
      refuted == \E c \in Essential : StronglyRefuted(claims[c])
  IN [support |-> support, confidence |-> confidence, context |-> context,
      label |-> IF refuted /\ label = "supported" THEN "mostly supported" ELSE label]

Scores(evidence) ==
  LET of     == [c \in Claim |-> OfClaim(c, evidence)]
      claims == [c \in Claim |-> ClaimScore(c, of[c])]
  IN  [claims |-> claims, article |-> ArticleScore(claims, of, Accepted(evidence))]

==============================================================================
