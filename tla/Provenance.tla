------------------------------ MODULE Provenance ------------------------------
(***************************************************************************)
(* Which of a run's sources repeat each other: the dependencies that are   *)
(* detected between documents, the information origins they group into,    *)
(* how much each source may contribute, and what the source graph of the   *)
(* report shows of it, which the API works out again from the stored rows. *)
(*                                                                         *)
(* A source is its place in the order of the source refs.  What the texts  *)
(* have in common is given per pair: an element of features is a record of *)
(*   read       the sources with a document                                *)
(*   published, updated, fetched   dates; 0: unknown                       *)
(*   kind       "analysis" (INDEPENDENT_ANALYSIS), "report" (SECONDARY_,   *)
(*              DERIVATIVE_ and OFFICIAL_SELF_REPORT) or "other"           *)
(*   cites      <<child, parent>>: the child links to or names the parent  *)
(*   copy, near, quote, data, error   the pairs (smaller source first) of  *)
(*              documents that are copies, near copies, share a quotation, *)
(*              a table or statistics, or the same error                   *)
(***************************************************************************)
EXTENDS FiniteSets, Integers, Sequences

CONSTANTS
  Source,    \* candidate sources
  Features,  \* what was found in the run at hand
  Inputs     \* bound: what may be found in a run

FeatureRecord ==
  [read : SUBSET Source, kind : [Source -> {"analysis", "report", "other"}],
   published : [Source -> Nat], updated : [Source -> Nat], fetched : [Source -> Nat],
   cites : SUBSET (Source \X Source),
   copy : SUBSET (Source \X Source), near : SUBSET (Source \X Source),
   quote : SUBSET (Source \X Source), data : SUBSET (Source \X Source),
   error : SUBSET (Source \X Source)]

ASSUME SourceAssumption == Source \subseteq Nat /\ IsFiniteSet(Source)
ASSUME FeaturesAssumption == Inputs \subseteq FeatureRecord /\ Features \in FeatureRecord

Smaller(a, b) == IF a < b THEN a ELSE b
Larger(a, b) == IF a < b THEN b ELSE a
Pair(a, b) == <<Smaller(a, b), Larger(a, b)>>

------------------------------------------------------------------------------
(* SourceDependencyAnalyzer.analyze *)

\* The time a document is first known at, and the earlier of two documents.
FirstKnown(f, s) ==
  IF f.published[s] # 0 THEN f.published[s]
  ELSE IF f.updated[s] # 0 THEN f.updated[s] ELSE f.fetched[s]

\* Mutant of Before: sources of the same time are both before each other.
BeforeOrEqual(f, a, b) == a # b /\ FirstKnown(f, a) <= FirstKnown(f, b)
Before(f, a, b) ==
  \/ FirstKnown(f, a) < FirstKnown(f, b)
  \/ FirstKnown(f, a) = FirstKnown(f, b) /\ a < b

Edge(a, b, relationship) == [parent |-> a, child |-> b, relationship |-> relationship]

CitesOf(f) ==
  {Edge(c[2], c[1], "CITES") : c \in {x \in f.cites : x[1] # x[2] /\ x[1] \in f.read}}

\* What the later document of a pair is to the earlier one.
Dependency(f, a, b) ==
  LET pair   == Pair(a, b)
      shares == pair \in f.quote \cup f.data
      cited  == Edge(a, b, "CITES") \in CitesOf(f)
  IN  {r \in {"REPUBLISHES", "POSSIBLE_DUPLICATE", "QUOTES", "USES_SAME_DATA", "DERIVES_FROM"} :
         CASE r = "REPUBLISHES"        -> pair \in f.copy
           [] r = "POSSIBLE_DUPLICATE" -> pair \in f.near \ f.copy
           [] r = "QUOTES"             -> pair \in f.quote
           [] r = "USES_SAME_DATA"     -> pair \in f.data
           [] r = "DERIVES_FROM"       -> pair \in f.error \/ (cited /\ shares)}

Edges(f) ==
  CitesOf(f) \cup
    UNION {{Edge(p[1], p[2], r) : r \in Dependency(f, p[1], p[2])} :
             p \in {q \in f.read \X f.read : Before(f, q[1], q[2])}}

------------------------------------------------------------------------------
(* cluster_sources.  Every edge but a citation unites two sources: none of  *)
(* them has a confidence below the threshold.                               *)

Links(edges) ==
  {Pair(e.parent, e.child) : e \in {x \in edges : x.relationship # "CITES"}}

\* The root of a source in a forest whose roots are their own parents.  The code
\* shortens the path on its way, which changes no root.
Find(parent, s) ==
  LET root[x \in Source] == IF parent[x] = x THEN x ELSE root[parent[x]] IN root[s]

\* Mutant of United: the sources are joined, not their roots.
UnitedBelowTheRoots(parent, a, b) == [parent EXCEPT ![Larger(a, b)] = Smaller(a, b)]
United(parent, a, b) ==
  LET left == Find(parent, a)
      right == Find(parent, b)
  IN  [parent EXCEPT ![Larger(left, right)] = Smaller(left, right)]

\* The forest that a sequence of links leaves, and its groups.
Forest(order) ==
  LET forest[i \in 0..Len(order)] ==
        IF i = 0 THEN [s \in Source |-> s]
        ELSE United(forest[i - 1], order[i][1], order[i][2])
  IN  forest[Len(order)]

Groups(order) ==
  LET forest == Forest(order)
  IN  {{t \in Source : Find(forest, t) = Find(forest, s)} : s \in Source}

\* The orders in which links may be found; the groups are those of one of them.
Orders(links) ==
  {o \in [1..Cardinality(links) -> links] : \A l \in links : \E i \in DOMAIN o : o[i] = l}

Clusters(f) == Groups(CHOOSE order \in Orders(Links(Edges(f))) : TRUE)
ClusterOf(f, s) == CHOOSE C \in Clusters(f) : s \in C

\* The date a cluster's representative is chosen by: a date of change is no
\* help here, and a source without a document has only its retrieval.
Appearance(f, s) ==
  IF s \in f.read /\ f.published[s] # 0 THEN f.published[s] ELSE f.fetched[s]

Representative(f, C) ==
  CHOOSE s \in C : \A t \in C \ {s} :
    \/ Appearance(f, s) < Appearance(f, t)
    \/ Appearance(f, s) = Appearance(f, t) /\ s < t

------------------------------------------------------------------------------
(* dependency_multipliers, in twentieths *)

RelationshipsOf(edges, s) == {e.relationship : e \in {x \in edges : x.child = s}}

MultiplierOf(relationships, kind) ==
  IF "REPUBLISHES" \in relationships THEN 0
  ELSE IF kind = "analysis" /\ "POSSIBLE_DUPLICATE" \notin relationships THEN 7
  ELSE IF relationships \subseteq {"CITES"} THEN 20
  ELSE IF relationships = {"USES_SAME_DATA"} /\ kind # "report" THEN 7 ELSE 2

Multipliers(f) ==
  [s \in Source |-> MultiplierOf(RelationshipsOf(Edges(f), s), f.kind[s])]

------------------------------------------------------------------------------
(* What is stored, and the source graph that build_source_graph makes of it *)

\* Mutant of StoredCluster: the cluster of the child is stored in any case.
ClusterOfTheChild(f, e) == ClusterOf(f, e.child)
\* An edge is stored with its cluster if it has both its ends in it.
StoredCluster(f, e) ==
  IF ClusterOf(f, e.parent) = ClusterOf(f, e.child) THEN ClusterOf(f, e.child) ELSE {}

\* The clusters the graph may show a source in: those of its stored edges, or
\* the one it represents.
ShownClusters(f, s) ==
  LET stored == {StoredCluster(f, e) : e \in {x \in Edges(f) : s \in {x.parent, x.child}}} \ {{}}
  IN  IF stored # {} THEN stored
      ELSE {C \in Clusters(f) : Representative(f, C) = s}

------------------------------------------------------------------------------
(* The sources that links connect, directly or not                          *)

Closed(S, links) == \A l \in links : l[1] \in S <=> l[2] \in S
Components(links) ==
  {S \in (SUBSET Source) \ {{}} :
     Closed(S, links) /\ \A T \in (SUBSET S) \ {{}, S} : ~Closed(T, links)}
==============================================================================
