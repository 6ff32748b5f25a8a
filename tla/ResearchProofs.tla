--------------------------- MODULE ResearchProofs ---------------------------
(***************************************************************************)
(* Proofs about Research: types, what becomes of the submitted article and *)
(* of authority records, in memory and in the rows a later delivery starts *)
(* from, which gaps are told, and how often the gate is evaluated.         *)
(***************************************************************************)
EXTENDS Research, FiniteSetTheorems, TLAPS

-----------------------------------------------------------------------------
(* The inductive invariant.                                                *)

Early == {"intake", "decomposition", "planner", "repair"}
BeforeSearch == {"discovery", "phase_one"}
Selected == {"retrieval", "extraction", "segmentation", "provenance"}
Stages == Early \cup BeforeSearch \cup {"gate"} \cup Selected \cup {"ended"}

QueryStates == [status : {"planned", "answered", "not_needed"}, asked : BOOLEAN]
Executions ==
  {Fresh} \cup UNION {[DOMAIN d -> QueryStates] : d \in Drafts}
Preflights == [Profiles -> {"planned"} \cup PreflightOutcomes]
Gaps == {"none", "PROVIDER_FAILURE", "NO_SEARCH_RESULTS", "NO_VERIFIED_RESULT",
         "INACCESSIBLE_OR_BLOCKED", "NO_EXACT_CLAIM_EVIDENCE",
         "PREFLIGHT_BUDGET_EXHAUSTED", "AUTHORITY_PROFILE_AMBIGUOUS"}
Shelf == [Urls -> Candidates \cup {None}]
Rows == [exec : Executions, auth : Preflights, gap : [Claims -> Gaps], cands : Shelf]

\* What is in memory and in rows, before and after there is a plan.
PlanInv ==
  /\ leadsTo \in Webs /\ seed \in Submitted \cup {None}
  /\ resume \in {"intake", "decomposition", "planner", "discovery"}
  /\ pc \in Stages /\ delivery \in 1..MaxDeliveries /\ rounds \in 0..MaxRounds
  /\ saved \in Rows /\ auth \in Preflights /\ gap \in [Claims -> Gaps]
  /\ cands \in Shelf
  /\ pc \in {"phase_one", "gate"} \cup Selected => \A p \in Profiles : auth[p] # "planned"
  /\ (plan = None) = (resume # "discovery")
  /\ plan = None =>
       /\ pc \in Early \cup {"ended"}
       /\ exec = Fresh /\ saved = Unsaved /\ cands = Blank
  /\ plan # None =>
       /\ plan \in Drafts /\ pc \notin Early
       /\ exec \in [DOMAIN plan -> QueryStates]
       /\ saved.exec \in [DOMAIN plan -> QueryStates]

\* A shelf whose authority records have a claim and come from its record holder,
\* and whose submitted candidates are the article and the page it leads to.
ShelfInv(c) ==
  \A u \in Known(c) :
    /\ (c[u].claim # None) = (c[u].origin = "authority")
    /\ c[u].covers \subseteq Paths
    /\ c[u].origin = "authority" /\ c[u].match # "rejected" =>
         c[u].canon \in Registered[c[u].claim]
    /\ c[u].origin = "submitted" => seed # None /\ u \in {seed, leadsTo[seed]}
    /\ c[u].canon \in {u, leadsTo[u]}

\* Until it is fetched a candidate answers to the URL it was found at.
Keyed(c) == \A u \in Known(c) : c[u].canon = u

CandInv ==
  /\ ShelfInv(cands) /\ ShelfInv(saved.cands) /\ Keyed(saved.cands)
  /\ pc \in BeforeSearch \cup {"gate", "retrieval"} => Keyed(cands)

\* The article is on the shelf as submitted from the preflight on.
SeedInv ==
  seed # None /\ pc \in {"phase_one", "gate"} \cup Selected =>
    cands[seed] # None /\ cands[seed].origin = "submitted"

\* What is selected is not empty and within the limit.
SizeInv == pc \in Selected => Cardinality(Known(cands)) \in 1..DepthLimit

\* Every evaluation of the gate but the first tries a query of the reserve, unless
\* an earlier delivery gave queries up.
RoundInv ==
  /\ pc \in Early \cup BeforeSearch => rounds = 0
  /\ plan # None =>
       \/ rounds <= 1 + Cardinality(Reserve(plan) \cap Attempted)
       \/ \E q \in DOMAIN exec : exec[q].status = "not_needed"

\* From the preflight on, a claim without a gap is one whose record the preflight
\* verified, or that a candidate serves.
GapInv ==
  /\ pc \in {"phase_one", "gate", "retrieval"} =>
       \A p \in Claims : gap[p] = "none" => p \in Profiles /\ auth[p] = "verified"
  /\ pc = "extraction" =>
       \A p \in Claims : gap[p] = "none" /\ OfProfile(cands, p) = {} =>
         p \in Profiles /\ auth[p] = "verified"

IInv == /\ PlanInv /\ CandInv /\ SeedInv /\ SizeInv /\ RoundInv /\ GapInv
        /\ AnsweredOnce /\ AuthorityIsReadAndRegistered /\ GapsAreTold

-----------------------------------------------------------------------------
(* What selection, merging and saving do to a shelf.                       *)

LEMMA PathsOfThePlan ==
  ASSUME plan \in Drafts
  PROVE  Paths \subseteq DraftPaths
BY DEF Paths, DraftPaths

\* A diverse selection of a finite pool is within its limit.
LEMMA DiverseBounds ==
  ASSUME NEW c, NEW pool, IsFiniteSet(pool), NEW n \in Nat,
         NEW S \in Diverse(c, pool, n)
  PROVE  /\ S \subseteq pool /\ IsFiniteSet(S)
         /\ Cardinality(S) \in Nat /\ Cardinality(S) <= n
BY FS_Subset, FS_CardinalityType DEF Diverse

\* The submitted article stays selected and the selection is within the limit.
LEMMA SelectionBounds ==
  ASSUME NEW c \in Shelf, NEW chosen \in Selections(c),
         Cardinality(From(c, "submitted")) < DepthLimit
  PROVE  /\ chosen \subseteq Known(c)
         /\ From(c, "submitted") \subseteq chosen
         /\ IsFiniteSet(chosen) /\ Cardinality(chosen) <= DepthLimit
<1> DEFINE submitted == From(c, "submitted")
           records == From(c, "authority")
           broad == From(c, "broad")
           places == Minus(DepthLimit, Cardinality(submitted))
           kept == Smaller(BroadReserve, Smaller(Cardinality(broad), places))
<1>1. /\ IsFiniteSet(submitted) /\ IsFiniteSet(records) /\ IsFiniteSet(broad)
      /\ submitted \subseteq Known(c) /\ records \subseteq Known(c) /\ broad \subseteq Known(c)
  BY FS_Subset, InputAssumption DEF From, Known
<1>2. /\ Cardinality(submitted) \in Nat /\ Cardinality(broad) \in Nat
      /\ DepthLimit \in Nat /\ BroadReserve \in Nat \ {0}
  BY <1>1, FS_CardinalityType, PolicyAssumption
<1>3. /\ places \in Nat /\ places = DepthLimit - Cardinality(submitted) /\ places > 0
      /\ kept \in Nat /\ kept <= places
  BY <1>2 DEF Minus, Smaller
<1>4. Minus(places, kept) \in Nat /\ Minus(places, kept) = places - kept
  BY <1>3 DEF Minus
<1> HIDE DEF places, kept
<1>5. PICK a \in Diverse(c, records, Minus(places, kept)) :
        \E b \in Diverse(c, broad, Minus(places, Cardinality(a))) :
          chosen = submitted \cup a \cup b
  BY DEF Selections, SelectionsOver, places, kept
<1>6. a \subseteq records /\ IsFiniteSet(a) /\ Cardinality(a) \in Nat
      /\ Cardinality(a) <= places - kept
  BY <1>1, <1>4, <1>5, DiverseBounds
<1>7. Minus(places, Cardinality(a)) \in Nat
      /\ Minus(places, Cardinality(a)) = places - Cardinality(a)
  BY <1>3, <1>6 DEF Minus
<1>8. PICK b \in Diverse(c, broad, Minus(places, Cardinality(a))) :
        chosen = submitted \cup a \cup b
  BY <1>5
<1>9. /\ b \subseteq broad /\ IsFiniteSet(b) /\ Cardinality(b) \in Nat
       /\ Cardinality(b) <= places - Cardinality(a)
  BY <1>1, <1>7, <1>8, DiverseBounds
<1>10. IsFiniteSet(chosen) /\ Cardinality(chosen) <= DepthLimit
  <2>1. /\ IsFiniteSet(submitted \cup a)
        /\ Cardinality(submitted \cup a) \in Nat
        /\ Cardinality(submitted \cup a) <= Cardinality(submitted) + Cardinality(a)
    <3>1. IsFiniteSet(submitted \cup a) /\ IsFiniteSet(submitted \cap a)
      BY <1>1, <1>6, FS_Union, FS_Intersection
    <3>2. Cardinality(submitted \cup a)
            = Cardinality(submitted) + Cardinality(a) - Cardinality(submitted \cap a)
      BY <1>1, <1>6, FS_Union
    <3>3. Cardinality(submitted \cap a) \in Nat /\ Cardinality(submitted \cup a) \in Nat
      BY <3>1, FS_CardinalityType
    <3> QED
      BY <1>2, <1>6, <3>1, <3>2, <3>3
  <2>2. /\ IsFiniteSet(chosen)
        /\ Cardinality(chosen) <= Cardinality(submitted \cup a) + Cardinality(b)
    <3>1. IsFiniteSet((submitted \cup a) \cup b) /\ IsFiniteSet((submitted \cup a) \cap b)
      BY <2>1, <1>9, FS_Union, FS_Intersection
    <3>2. Cardinality((submitted \cup a) \cup b) = Cardinality(submitted \cup a)
            + Cardinality(b) - Cardinality((submitted \cup a) \cap b)
      BY <2>1, <1>9, FS_Union
    <3>3. Cardinality((submitted \cup a) \cap b) \in Nat
          /\ Cardinality((submitted \cup a) \cup b) \in Nat
      BY <3>1, FS_CardinalityType
    <3> QED
      BY <1>8, <1>9, <2>1, <3>1, <3>2, <3>3
  <2>3. Cardinality(chosen) \in Nat
    BY <2>2, FS_CardinalityType
  <2> QED
    BY <1>2, <1>3, <1>6, <1>9, <2>1, <2>2, <2>3
<1> QED
  BY <1>1, <1>6, <1>8, <1>9, <1>10

\* At most two candidates are submitted ones: the article and where it leads.
LEMMA FewAreSubmitted ==
  ASSUME NEW c, ShelfInv(c)
  PROVE  Cardinality(From(c, "submitted")) < DepthLimit
<1>1. From(c, "submitted") \subseteq {seed, leadsTo[seed]}
  BY DEF From, ShelfInv
<1>2. {seed, leadsTo[seed]} = {seed} \cup {leadsTo[seed]}
  OBVIOUS
<1>3. /\ IsFiniteSet({seed}) /\ Cardinality({seed}) = 1
      /\ IsFiniteSet({leadsTo[seed]}) /\ Cardinality({leadsTo[seed]}) = 1
  BY FS_Singleton
<1>4. /\ IsFiniteSet({seed} \cup {leadsTo[seed]})
      /\ IsFiniteSet({seed} \cap {leadsTo[seed]})
      /\ Cardinality({seed} \cup {leadsTo[seed]})
           = 1 + 1 - Cardinality({seed} \cap {leadsTo[seed]})
  BY <1>3, FS_Union, FS_Intersection
<1>5. Cardinality({seed} \cap {leadsTo[seed]}) \in Nat
  BY <1>4, FS_CardinalityType
<1>6. /\ Cardinality(From(c, "submitted")) \in Nat
      /\ Cardinality(From(c, "submitted")) <= Cardinality({seed} \cup {leadsTo[seed]})
  BY <1>1, <1>2, <1>4, FS_Subset, FS_CardinalityType
<1> QED
  BY <1>4, <1>5, <1>6, PolicyAssumption

\* Of the candidates that share a key, Last finds one that no other comes after.
LEMMA LastIsThere ==
  ASSUME NEW c \in Shelf, NEW key, NEW w \in DOMAIN Last(c, key)
  PROVE  /\ Last(c, key)[w] \in Known(c) /\ key[Last(c, key)[w]] = w
         /\ \A v \in Known(c) : key[v] = w => Place(c, v) <= Place(c, Last(c, key)[w])
<1> DEFINE Sharing == {u \in Known(c) : key[u] = w}
<1>1. Last(c, key)[w] =
        CHOOSE u \in Sharing : \A v \in Sharing : Place(c, v) <= Place(c, u)
  BY DEF Last
<1>2. Sharing # {}
  BY DEF Last
<1>3. \A u \in Sharing : Place(c, u) \in 0..3
  BY DEF Known, Shelf, Candidates, Origins, Place
<1>4. \E u \in Sharing : \A v \in Sharing : Place(c, v) <= Place(c, u)
  <2> HIDE DEF Sharing
  <2>1. CASE \E u \in Sharing : Place(c, u) = 3
    BY <1>3, <2>1
  <2>2. CASE (\E u \in Sharing : Place(c, u) = 2) /\ \A u \in Sharing : Place(c, u) # 3
    BY <1>3, <2>2
  <2>3. CASE (\E u \in Sharing : Place(c, u) = 1) /\ \A u \in Sharing : Place(c, u) \notin {2, 3}
    BY <1>3, <2>3
  <2>4. CASE \A u \in Sharing : Place(c, u) = 0
    BY <1>2, <2>4
  <2> QED
    BY <1>3, <2>1, <2>2, <2>3, <2>4
<1>5. PICK last : last = Last(c, key)[w]
  OBVIOUS
<1>6. last \in Sharing /\ \A v \in Sharing : Place(c, v) <= Place(c, last)
  BY <1>1, <1>4, <1>5
<1> QED
  BY <1>5, <1>6

-----------------------------------------------------------------------------
(* Types.                                                                  *)

LEMMA NextByAction ==
  ASSUME Next
  PROVE  \/ Redeliver \/ Understand \/ Plan \/ Repair \/ Preflight
         \/ SearchPhaseOne \/ SearchReserve \/ Select
         \/ Retrieve \/ Extract \/ Segment \/ Provenance
BY DEF Next

\* A delivery takes the rows over.
LEMMA DeliveredTakesTheRows ==
  ASSUME NEW s \in Rows, Delivered(s)
  PROVE  /\ exec' = s.exec /\ cands' = s.cands /\ cands' \in Shelf
         /\ auth' \in Preflights /\ gap' \in [Claims -> Gaps]
         /\ \A p \in Profiles : (auth'[p] = "planned") = (s.auth[p] = "planned")
         /\ rounds' = 0 /\ pc' = resume /\ delivery' = delivery + 1
BY DEF Delivered, Rows, Preflights, PreflightOutcomes

\* Of any claims one is the last.
LEMMA LastClaim ==
  ASSUME NEW S, S \subseteq Profiles, S # {}
  PROVE  \E p \in S : \A q \in S : q <= p
<1>1. PICK n \in Nat : Profiles = 1..n
  BY InputAssumption
<1> DEFINE Below == {ss \in Nat \X Nat : ss[1] < ss[2]}
           distances == {n - p : p \in S}
<1>2. IsWellFoundedOn(Below, Nat)
  BY NatLessThanWellFounded DEF OpToRel
<1>3. distances \subseteq Nat /\ distances # {}
  <2>1. \A p \in S : n - p \in Nat
    BY <1>1
  <2> QED
    BY <2>1
<1>4. PICK x \in distances : \A y \in distances : <<y, x>> \notin Below
  <2> HIDE DEF Below, distances
  <2> QED
    BY <1>2, <1>3, WFMin
<1>5. PICK p \in S : x = n - p
  OBVIOUS
<1>6. ASSUME NEW q \in S
      PROVE  q <= p
  <2>1. n - q \in distances /\ n - q \in Nat /\ n - p \in Nat /\ p \in Nat /\ q \in Nat
    BY <1>1, <1>3
  <2>2. ~(n - q < n - p)
    BY <1>4, <1>5, <2>1
  <2> QED
    BY <1>1, <2>1, <2>2
<1> QED
  BY <1>6

\* A record the preflight verified for some claims answers for one of them.
LEMMA AuthorityIsOfAClaim ==
  ASSUME NEW u \in Urls, NEW claims, claims \subseteq Profiles, claims # {},
         \A p \in claims : u \in Registered[p],
         Paths \subseteq DraftPaths, cands[u] # None => cands[u].covers \subseteq Paths,
         NEW x, x = Authority(u, claims)
  PROVE  /\ x \in Candidates /\ x.claim # None /\ x.origin = "authority"
         /\ x.covers \subseteq Paths /\ x.canon = u
         /\ u \in Registered[x.claim]
<1>1. PICK p : p = CHOOSE q \in claims : \A r \in claims : r <= q
  OBVIOUS
<1>2. p \in claims
  BY <1>1, LastClaim
<1> DEFINE covers == {path \in Paths : path[1] \in claims}
                       \cup (IF cands[u] = None THEN {} ELSE cands[u].covers)
<1>3. covers \subseteq Paths
  OBVIOUS
<1>4. x = [origin |-> "authority", match |-> "matched", claim |-> p, canon |-> u,
           title |-> TitleOf[u], covers |-> covers]
  BY <1>1 DEF Authority, Candidate
<1> HIDE DEF covers
<1>5. /\ covers \in SUBSET DraftPaths /\ p # None /\ p \in Profiles
      /\ TitleOf[u] \in {TitleOf[v] : v \in Urls}
  BY <1>2, <1>3, NoneAssumption
<1> QED
  BY <1>2, <1>3, <1>4, <1>5 DEF Candidates, Origins, Matches

\* The preflight keeps the shelf: an authority record is at its own URL, which is
\* registered, and the article at its own; a claim without a gap is verified.
LEMMA PreflightKeepsTheShelf ==
  ASSUME IInv, Preflight
  PROVE  /\ cands' \in Shelf /\ ShelfInv(cands)' /\ Keyed(cands)'
         /\ auth' \in [Profiles -> PreflightOutcomes] /\ gap' \in [Claims -> Gaps]
         /\ seed # None => cands'[seed] # None /\ cands'[seed].origin = "submitted"
         /\ \A p \in Claims : gap'[p] = "none" => p \in Profiles /\ auth'[p] = "verified"
<1>1. PICK given \in [Profiles -> PreflightOutcomes],
           found \in SUBSET {x \in Profiles \X Urls : x[2] \in Registered[x[1]]} :
        /\ auth' = given
        /\ gap' = [p \in Claims |-> GapOf(p, given)]
        /\ cands' = Seeded([u \in Urls |->
             LET claims == {p \in Profiles : <<p, u>> \in found}
             IN  IF claims = {} THEN cands[u] ELSE Authority(u, claims)])
  <2>1. PICK given \in [Profiles -> PreflightOutcomes] :
          /\ \E found \in SUBSET {x \in Profiles \X Urls :
                               /\ auth[x[1]] = "planned" /\ given[x[1]] = "verified"
                               /\ x[2] \in Registered[x[1]]} :
               cands' = Seeded([u \in Urls |->
                 LET claims == {p \in Profiles : <<p, u>> \in found}
                 IN  IF claims = {} THEN cands[u] ELSE Authority(u, claims)])
          /\ auth' = given
          /\ gap' = [p \in Claims |-> GapOf(p, given)]
    BY DEF Preflight
  <2>2. PICK found \in SUBSET {x \in Profiles \X Urls : x[2] \in Registered[x[1]]} :
          cands' = Seeded([u \in Urls |->
                 LET claims == {p \in Profiles : <<p, u>> \in found}
                 IN  IF claims = {} THEN cands[u] ELSE Authority(u, claims)])
    BY <2>1
  <2> QED
    BY <2>1, <2>2
<1>2. \A p \in Claims : /\ GapOf(p, given) \in Gaps
                        /\ GapOf(p, given) = "none" => p \in Profiles /\ given[p] = "verified"
  <2> SUFFICES ASSUME NEW p \in Claims
               PROVE  /\ GapOf(p, given) \in Gaps
                      /\ GapOf(p, given) = "none" => p \in Profiles /\ given[p] = "verified"
    OBVIOUS
  <2>1. CASE p \in Ambiguous
    BY <2>1 DEF GapOf, Gaps
  <2>2. CASE p \notin Ambiguous
    <3>1. p \in Profiles /\ given[p] \in PreflightOutcomes
      BY <2>2 DEF Claims
    <3> QED
      BY <2>2, <3>1 DEF GapOf, Gaps, PreflightOutcomes
  <2> QED
    BY <2>1, <2>2
<1>3. /\ cands \in Shelf /\ ShelfInv(cands) /\ Keyed(cands) /\ plan \in Drafts
      /\ Paths \subseteq DraftPaths /\ seed \in Submitted \cup {None} /\ leadsTo \in [Urls -> Urls]
  BY PathsOfThePlan, NoneAssumption, InputAssumption DEF IInv, PlanInv, CandInv, Preflight, Early, BeforeSearch
<1> DEFINE claims(u) == {p \in Profiles : <<p, u>> \in found}
           shelf == [u \in Urls |-> IF claims(u) = {} THEN cands[u]
                                    ELSE Authority(u, claims(u))]
<1>4. ASSUME NEW u \in Urls, claims(u) # {}
      PROVE  /\ shelf[u] \in Candidates /\ shelf[u].claim # None /\ shelf[u].origin = "authority"
             /\ shelf[u].covers \subseteq Paths /\ shelf[u].canon = u
             /\ u \in Registered[shelf[u].claim]
  <2>1. shelf[u] = Authority(u, claims(u))
    BY <1>4
  <2>2. claims(u) \subseteq Profiles /\ \A p \in claims(u) : u \in Registered[p]
    OBVIOUS
  <2>3. cands[u] # None => cands[u].covers \subseteq Paths
    BY <1>3 DEF ShelfInv, Known
  <2> HIDE DEF claims, shelf
  <2> QED
    BY <1>3, <1>4, <2>1, <2>2, <2>3, AuthorityIsOfAClaim
<1>5. ASSUME NEW u \in Urls, claims(u) = {}
      PROVE  shelf[u] = cands[u]
  BY <1>5
<1>6. shelf \in [Urls -> Candidates \cup {None}]
  BY <1>3, <1>4, <1>5 DEF Shelf
<1> DEFINE article == [origin |-> "submitted", match |-> "none", claim |-> None,
                       canon |-> seed, title |-> TitleOf[seed], covers |-> Paths]
<1>7. cands' = IF seed = None THEN shelf ELSE [shelf EXCEPT ![seed] = article]
  BY <1>1 DEF Seeded, Candidate
<1>8. seed # None => article \in Candidates /\ seed \in Urls
  BY <1>3, InputAssumption DEF Candidates, Origins, Matches
<1> HIDE DEF shelf, article
<1>9. cands' \in Shelf
  BY <1>6, <1>7, <1>8 DEF Shelf
<1>10. \A u \in Urls : cands'[u] = IF u = seed /\ seed # None THEN article ELSE shelf[u]
  BY <1>6, <1>7, <1>8
<1>11. seed # None => cands'[seed] # None /\ cands'[seed].origin = "submitted"
  BY <1>8, <1>10, NoneAssumption DEF article
<1>12. UNCHANGED <<plan, seed, leadsTo>>
  BY DEF Preflight, durable
<1>13. Paths' = Paths
  BY <1>12 DEF Paths
<1>14. ASSUME NEW u \in Known(cands')
       PROVE  /\ (cands'[u].claim # None) = (cands'[u].origin = "authority")
              /\ cands'[u].covers \subseteq Paths
              /\ cands'[u].origin = "authority" /\ cands'[u].match # "rejected" =>
                   cands'[u].canon \in Registered[cands'[u].claim]
              /\ cands'[u].origin = "submitted" => seed # None /\ u \in {seed, leadsTo[seed]}
              /\ cands'[u].canon = u
  <2>0. u \in Urls /\ cands'[u] # None
    BY <1>14 DEF Known
  <2>1. CASE u = seed /\ seed # None
    BY <2>0, <2>1, <1>10 DEF article
  <2>2. CASE ~(u = seed /\ seed # None) /\ claims(u) = {}
    <3>1. cands'[u] = cands[u] /\ u \in Known(cands)
      BY <2>0, <2>2, <1>5, <1>10 DEF Known
    <3> QED
      BY <3>1, <1>3 DEF ShelfInv, Keyed
  <2>3. CASE ~(u = seed /\ seed # None) /\ claims(u) # {}
    BY <2>0, <2>3, <1>4, <1>10
  <2> QED
    BY <2>1, <2>2, <2>3
<1>15. ShelfInv(cands)' /\ Keyed(cands)'
  BY <1>12, <1>13, <1>14 DEF ShelfInv, Keyed, Known
<1> QED
  BY <1>1, <1>2, <1>9, <1>11, <1>15

\* Only a query that is still to be sent is asked, and nothing is given up.
LEMMA AskedKeepsAnswers ==
  ASSUME plan # None, exec \in [DOMAIN plan -> QueryStates], NEW batch,
         batch \subseteq DOMAIN plan,
         NEW out \in [{q \in batch : exec[q].status = "planned"} -> Outcomes]
  PROVE  /\ Asked(out) \in [DOMAIN plan -> QueryStates]
         /\ \A q \in DOMAIN plan :
              IF q \in batch /\ exec[q].status = "planned"
              THEN /\ Asked(out)[q].status \in {"planned", "answered"}
                   /\ Asked(out)[q].asked
              ELSE Asked(out)[q] = exec[q]
<1>1. ASSUME NEW q \in DOMAIN out
      PROVE  /\ [status |-> IF out[q].kind = "transient" THEN "planned" ELSE "answered",
                 asked |-> TRUE] \in QueryStates
  BY DEF QueryStates
<1>2. ASSUME NEW q \in DOMAIN plan
      PROVE  exec[q] \in QueryStates
  OBVIOUS
<1>3. Asked(out) \in [DOMAIN plan -> QueryStates]
  BY <1>1, <1>2 DEF Asked
<1> QED
  BY <1>3 DEF Asked

\* A search adds candidates and paths, and leaves the submitted ones.
LEMMA SearchKeepsTheShelf ==
  ASSUME PlanInv, CandInv, NEW batch, batch \subseteq DOMAIN plan,
         pc \in {"phase_one", "gate"}, plan # None, Search(batch)
  PROVE  /\ cands' \in Shelf /\ ShelfInv(cands)' /\ Keyed(cands)'
         /\ exec' \in [DOMAIN plan -> QueryStates]
         /\ \A q \in DOMAIN plan :
              IF q \in batch /\ exec[q].status = "planned"
              THEN exec'[q].status \in {"planned", "answered"} /\ exec'[q].asked
              ELSE exec'[q] = exec[q]
         /\ From(cands, "submitted") \subseteq From(cands', "submitted")
         /\ rounds' = Smaller(rounds + 1, MaxRounds) /\ pc' = "gate"
         /\ UNCHANGED <<durable, delivery, ending, auth, gap, snap>>
<1>1. PICK out \in [{q \in batch : exec[q].status = "planned"} -> Outcomes],
           outranked \in SUBSET Outrankable :
        exec' = Asked(out) /\ cands' = Merged(out, outranked)
  BY DEF Search
<1>2. /\ rounds' = Smaller(rounds + 1, MaxRounds) /\ pc' = "gate"
      /\ UNCHANGED <<durable, delivery, ending, auth, gap, snap>>
  BY DEF Search
<1>3. /\ cands \in Shelf /\ ShelfInv(cands) /\ Keyed(cands) /\ plan \in Drafts
      /\ exec \in [DOMAIN plan -> QueryStates]
  <2>1. cands \in Shelf /\ plan \in Drafts /\ exec \in [DOMAIN plan -> QueryStates]
    BY DEF PlanInv
  <2> QED
    BY <2>1 DEF CandInv, BeforeSearch
<1>4. Paths \subseteq DraftPaths
  BY <1>3, PathsOfThePlan
<1> DEFINE hits(u) == {plan[q].path : q \in {r \in DOMAIN out : u \in out[r].urls}}
<1>5. \A u : hits(u) \subseteq Paths
  BY DEF Paths
<1>6. \A u \in Urls : cands'[u] =
        IF hits(u) = {} THEN cands[u]
        ELSE IF cands[u] = None THEN Broad(hits(u), u)
        ELSE IF u \in outranked THEN Broad(cands[u].covers \cup hits(u), u)
        ELSE [cands[u] EXCEPT !.covers = @ \cup hits(u)]
  BY <1>1 DEF Merged
<1>7. cands' = [u \in Urls |-> cands'[u]]
  BY <1>1 DEF Merged
<1> HIDE DEF hits
<1>8. ASSUME NEW u \in Urls, hits(u) # {}
      PROVE  /\ cands'[u] \in Candidates /\ cands'[u].covers \subseteq Paths
             /\ cands'[u].canon = u
             /\ \/ /\ cands'[u].origin = "broad" /\ cands'[u].claim = None
                   /\ cands[u] = None \/ cands[u].origin \in {"authority", "broad"}
                \/ /\ cands[u] # None
                   /\ cands'[u].origin = cands[u].origin
                   /\ cands'[u].claim = cands[u].claim
                   /\ cands'[u].match = cands[u].match
  <2>1. ASSUME NEW covers \in SUBSET Paths
        PROVE  /\ Broad(covers, u) \in Candidates /\ Broad(covers, u).covers = covers
               /\ Broad(covers, u).canon = u /\ Broad(covers, u).origin = "broad"
               /\ Broad(covers, u).claim = None
    BY <1>4, <1>8 DEF Broad, Candidate, Candidates, Origins, Matches
  <2>2. CASE cands[u] = None
    <3>1. cands'[u] = Broad(hits(u), u) /\ hits(u) \in SUBSET Paths
      BY <1>5, <1>6, <1>8, <2>2
    <3> QED
      BY <2>1, <2>2, <3>1
  <2>3. CASE cands[u] # None /\ u \in outranked
    <3>1. /\ cands[u].covers \cup hits(u) \in SUBSET Paths
          /\ cands[u].origin \in {"authority", "broad"}
      BY <1>3, <1>5, <1>8, <2>3 DEF ShelfInv, Known, Outrankable, From
    <3>2. cands'[u] = Broad(cands[u].covers \cup hits(u), u)
      BY <1>6, <1>8, <2>3
    <3> QED
      BY <2>1, <3>1, <3>2
  <2>4. CASE cands[u] # None /\ u \notin outranked
    <3>1. cands'[u] = [cands[u] EXCEPT !.covers = @ \cup hits(u)]
      BY <1>6, <1>8, <2>4
    <3>2. PICK x : x = cands[u]
      OBVIOUS
    <3>3. x \in Candidates /\ x.covers \subseteq Paths /\ x.canon = u
      BY <1>3, <1>8, <2>4, <3>2 DEF Shelf, ShelfInv, Keyed, Known
    <3>4. PICK y : y = [x EXCEPT !.covers = @ \cup hits(u)]
      OBVIOUS
    <3>5. x.covers \cup hits(u) \in SUBSET DraftPaths
      BY <1>4, <1>5, <3>3
    <3>6. /\ y \in Candidates /\ y.covers = x.covers \cup hits(u) /\ y.canon = u
          /\ y.origin = x.origin /\ y.claim = x.claim /\ y.match = x.match
      BY <3>3, <3>4, <3>5 DEF Candidates
    <3> QED
      BY <1>5, <2>4, <3>1, <3>2, <3>3, <3>4, <3>6
  <2> QED
    BY <2>2, <2>3, <2>4
<1>9. cands' \in Shelf
  BY <1>3, <1>6, <1>7, <1>8 DEF Shelf
<1>10. UNCHANGED <<plan, seed, leadsTo>>
  BY <1>2 DEF durable
<1>11. Paths' = Paths
  BY <1>10 DEF Paths
<1>12. ASSUME NEW u \in Known(cands')
       PROVE  /\ (cands'[u].claim # None) = (cands'[u].origin = "authority")
              /\ cands'[u].covers \subseteq Paths
              /\ cands'[u].origin = "authority" /\ cands'[u].match # "rejected" =>
                   cands'[u].canon \in Registered[cands'[u].claim]
              /\ cands'[u].origin = "submitted" => seed # None /\ u \in {seed, leadsTo[seed]}
              /\ cands'[u].canon = u
  <2>1. CASE hits(u) = {}
    BY <1>3, <1>6, <1>12, <2>1 DEF Known, ShelfInv, Keyed
  <2>2. CASE hits(u) # {}
    BY <1>3, <1>8, <1>12, <2>2 DEF Known, ShelfInv, Keyed
  <2> QED
    BY <2>1, <2>2
<1>13. ShelfInv(cands)' /\ Keyed(cands)'
  BY <1>10, <1>11, <1>12 DEF ShelfInv, Keyed, Known
<1>14. ASSUME NEW u \in Known(cands), cands[u].origin = "submitted"
       PROVE  cands'[u] # None /\ cands'[u].origin = "submitted"
  <2>1. CASE hits(u) = {}
    BY <1>6, <1>14, <2>1 DEF Known
  <2>2. CASE hits(u) # {}
    BY <1>8, <1>14, <2>2, NoneAssumption DEF Known
  <2> QED
    BY <2>1, <2>2
<1>15. From(cands, "submitted") \subseteq From(cands', "submitted")
  BY <1>14 DEF From, Known
<1>16. /\ exec' \in [DOMAIN plan -> QueryStates]
       /\ \A q \in DOMAIN plan :
            IF q \in batch /\ exec[q].status = "planned"
            THEN exec'[q].status \in {"planned", "answered"} /\ exec'[q].asked
            ELSE exec'[q] = exec[q]
  <2>1. PICK asked : asked = Asked(out)
    OBVIOUS
  <2>2. /\ asked \in [DOMAIN plan -> QueryStates]
        /\ \A q \in DOMAIN plan :
             IF q \in batch /\ exec[q].status = "planned"
             THEN asked[q].status \in {"planned", "answered"} /\ asked[q].asked
             ELSE asked[q] = exec[q]
    BY <1>1, <1>3, <2>1, AskedKeepsAnswers
  <2> QED
    BY <1>1, <2>1, <2>2
<1> QED
  BY <1>2, <1>9, <1>13, <1>15, <1>16

\* The shelf of a selection keeps what is chosen as it is.
LEMMA SelectionKeepsTheShelf ==
  ASSUME PlanInv, CandInv, pc = "gate", plan # None,
         NEW chosen \in Selections(cands),
         NEW kept, kept = [u \in Urls |-> IF u \in chosen THEN cands[u] ELSE None]
  PROVE  /\ kept \in Shelf /\ ShelfInv(kept) /\ Keyed(kept)
         /\ Known(kept) = chosen
         /\ Cardinality(Known(kept)) \in 0..DepthLimit
         /\ From(cands, "submitted") \subseteq From(kept, "submitted")
<1>1. cands \in Shelf /\ ShelfInv(cands) /\ Keyed(cands)
  BY DEF PlanInv, CandInv
<1>2. /\ chosen \subseteq Known(cands)
      /\ From(cands, "submitted") \subseteq chosen
      /\ IsFiniteSet(chosen) /\ Cardinality(chosen) <= DepthLimit
  BY <1>1, FewAreSubmitted, SelectionBounds
<1>3. kept \in Shelf
  BY <1>1 DEF Shelf
<1>4. \A u \in Urls : kept[u] # None <=> u \in chosen
  BY <1>2 DEF Known
<1>5. Known(kept) = chosen /\ \A u \in chosen : u \in Known(cands) /\ kept[u] = cands[u]
  BY <1>2, <1>4 DEF Known
<1>6. ShelfInv(kept) /\ Keyed(kept)
  BY <1>1, <1>5 DEF ShelfInv, Keyed
<1>7. Cardinality(Known(kept)) \in 0..DepthLimit
  BY <1>2, <1>5, FS_CardinalityType, PolicyAssumption
<1> QED
  BY <1>2, <1>3, <1>5, <1>6, <1>7 DEF From

\* A fetch takes a candidate to the URL it ends at; an authority record that left
\* its holder's domain is rejected.
LEMMA FetchKeepsTheShelf ==
  ASSUME PlanInv, CandInv, pc = "retrieval",
         NEW fetched \in SUBSET Known(cands), NEW found,
         found = [u \in Urls |-> IF u \in fetched THEN Resolved(u) ELSE cands[u]]
  PROVE  /\ found \in Shelf /\ ShelfInv(found) /\ Known(found) = Known(cands)
         /\ \A u \in Known(cands) : found[u].origin = cands[u].origin
<1>1. /\ cands \in Shelf /\ ShelfInv(cands) /\ Keyed(cands) /\ leadsTo \in [Urls -> Urls]
  BY InputAssumption DEF PlanInv, CandInv
<1>2. ASSUME NEW u \in Known(cands), u \in fetched
      PROVE  /\ found[u] \in Candidates /\ found[u].origin = cands[u].origin
             /\ found[u].claim = cands[u].claim /\ found[u].covers = cands[u].covers
             /\ found[u].canon = leadsTo[u]
             /\ found[u].origin = "authority" /\ found[u].match # "rejected" =>
                  leadsTo[u] \in Registered[cands[u].claim]
  <2>1. PICK x : x = cands[u]
    OBVIOUS
  <2>2. /\ u \in Urls /\ leadsTo[u] \in Urls /\ x \in Candidates /\ x.canon = u
        /\ x.origin = "authority" /\ x.match # "rejected" => u \in Registered[x.claim]
    BY <1>1, <1>2, <2>1 DEF Known, Shelf, ShelfInv, Keyed
  <2>3. PICK y : y = [x EXCEPT !.canon = leadsTo[u]]
    OBVIOUS
  <2>4. /\ y \in Candidates /\ y.origin = x.origin /\ y.claim = x.claim
        /\ y.covers = x.covers /\ y.match = x.match /\ y.canon = leadsTo[u]
    BY <2>2, <2>3 DEF Candidates
  <2>5. found[u] = IF y.origin = "authority" /\ y.canon # u /\ ~Held(y.canon, y.claim)
                   THEN [y EXCEPT !.match = "rejected"] ELSE y
    BY <1>2, <2>1, <2>2, <2>3 DEF Resolved
  <2>6. PICK z : z = [y EXCEPT !.match = "rejected"]
    OBVIOUS
  <2>7. /\ z \in Candidates /\ z.origin = y.origin /\ z.claim = y.claim
        /\ z.covers = y.covers /\ z.match = "rejected" /\ z.canon = y.canon
    BY <2>4, <2>6 DEF Candidates, Matches
  <2>8. CASE y.origin = "authority" /\ y.canon # u /\ ~Held(y.canon, y.claim)
    BY <2>1, <2>4, <2>5, <2>6, <2>7, <2>8
  <2>9. CASE ~(y.origin = "authority" /\ y.canon # u /\ ~Held(y.canon, y.claim))
    BY <2>1, <2>2, <2>4, <2>5, <2>9 DEF Held
  <2> QED
    BY <2>8, <2>9
<1>3. ASSUME NEW u \in Urls, u \notin fetched
      PROVE  found[u] = cands[u]
  BY <1>3
<1>4. fetched \subseteq Known(cands) /\ Known(cands) \subseteq Urls
  BY DEF Known
<1>5. \A u \in Urls : found[u] \in Candidates \cup {None} /\ (found[u] # None <=> cands[u] # None)
  BY <1>1, <1>2, <1>3, <1>4, NoneAssumption DEF Known, Shelf
<1>6. found = [u \in Urls |-> found[u]]
  OBVIOUS
<1>7. found \in Shelf /\ Known(found) = Known(cands)
  BY <1>5, <1>6 DEF Shelf, Known
<1>8. ASSUME NEW u \in Known(found)
      PROVE  /\ (found[u].claim # None) = (found[u].origin = "authority")
             /\ found[u].covers \subseteq Paths
             /\ found[u].origin = "authority" /\ found[u].match # "rejected" =>
                  found[u].canon \in Registered[found[u].claim]
             /\ found[u].origin = "submitted" => seed # None /\ u \in {seed, leadsTo[seed]}
             /\ found[u].canon \in {u, leadsTo[u]}
  <2>1. u \in Known(cands) /\ u \in Urls
    BY <1>4, <1>7
  <2>2. CASE u \in fetched
    BY <1>1, <1>2, <2>1, <2>2 DEF ShelfInv
  <2>3. CASE u \notin fetched
    BY <1>1, <1>3, <2>1, <2>3 DEF ShelfInv
  <2> QED
    BY <2>2, <2>3
<1>9. ShelfInv(found)
  BY <1>8 DEF ShelfInv
<1>10. \A u \in Known(cands) : found[u].origin = cands[u].origin
  BY <1>2, <1>3, <1>4
<1> HIDE DEF ShelfInv
<1> QED
  BY <1>7, <1>9, <1>10

\* Reading the documents keeps the shelf; only an authority record whose document
\* matches is not rejected.
LEMMA ReadingKeepsTheShelf ==
  ASSUME PlanInv, CandInv, NEW match, NEW read,
         NEW c, c = [u \in Urls |-> IF cands[u] = None THEN None ELSE Validated(u, match)]
  PROVE  /\ c \in Shelf /\ ShelfInv(c) /\ Known(c) = Known(cands)
         /\ \A u \in Known(cands) : c[u].origin = cands[u].origin /\ c[u].claim = cands[u].claim
         /\ \A u \in From(c, "authority") : c[u].match # "rejected" => u \in match
<1>1. cands \in Shelf /\ ShelfInv(cands)
  BY DEF PlanInv, CandInv
<1>2. ASSUME NEW u \in Known(cands)
      PROVE  /\ c[u] \in Candidates /\ c[u].origin = cands[u].origin
             /\ c[u].claim = cands[u].claim /\ c[u].covers = cands[u].covers
             /\ c[u].canon = cands[u].canon
             /\ c[u].origin = "authority" /\ c[u].match # "rejected" =>
                  cands[u].match # "rejected" /\ u \in match
  <2>1. PICK x : x = cands[u]
    OBVIOUS
  <2>2. u \in Urls /\ cands[u] # None /\ x \in Candidates
    BY <1>1, <1>2, <2>1 DEF Known, Shelf
  <2>3. c[u] = IF x.origin # "authority" \/ x.match = "rejected" THEN x
               ELSE [x EXCEPT !.match = IF u \in match THEN "document" ELSE "rejected"]
    BY <2>1, <2>2 DEF Validated
  <2>4. PICK y : y = [x EXCEPT !.match = IF u \in match THEN "document" ELSE "rejected"]
    OBVIOUS
  <2>5. /\ y \in Candidates /\ y.origin = x.origin /\ y.claim = x.claim
        /\ y.covers = x.covers /\ y.canon = x.canon
        /\ y.match = IF u \in match THEN "document" ELSE "rejected"
    BY <2>2, <2>4 DEF Candidates, Matches
  <2>6. CASE x.origin # "authority" \/ x.match = "rejected"
    BY <2>1, <2>2, <2>3, <2>6
  <2>7. CASE ~(x.origin # "authority" \/ x.match = "rejected")
    BY <2>1, <2>3, <2>4, <2>5, <2>7
  <2> QED
    BY <2>6, <2>7
<1>3. \A u \in Urls : c[u] \in Candidates \cup {None} /\ (c[u] # None <=> cands[u] # None)
  <2>1. \A u \in Urls : cands[u] = None => c[u] = None
    OBVIOUS
  <2> QED
    BY <1>2, <2>1, NoneAssumption DEF Known
<1>4. c = [u \in Urls |-> c[u]]
  OBVIOUS
<1>5. c \in Shelf /\ Known(c) = Known(cands)
  BY <1>3, <1>4 DEF Shelf, Known
<1>6. ShelfInv(c)
  BY <1>1, <1>2, <1>5 DEF ShelfInv
<1>7. \A u \in From(c, "authority") : c[u].match # "rejected" => u \in match
  BY <1>2, <1>5 DEF From
<1>8. \A u \in Known(cands) : c[u].origin = cands[u].origin /\ c[u].claim = cands[u].claim
  BY <1>2
<1> HIDE DEF ShelfInv
<1> QED
  BY <1>5, <1>6, <1>7, <1>8

\* The saved shelf has each of its candidates at its own URL.
LEMMA RowsKeepTheShelf ==
  ASSUME leadsTo \in Webs, seed \in Submitted \cup {None}, NEW c \in Shelf, ShelfInv(c)
  PROVE  /\ Rekeyed(c) \in Shelf /\ ShelfInv(Rekeyed(c)) /\ Keyed(Rekeyed(c))
<1> DEFINE back == Last(c, CanonOf(c))
           rows == Rekeyed(c)
<1>1. leadsTo \in [Urls -> Urls] /\ \A u \in Urls : leadsTo[leadsTo[u]] = leadsTo[u]
  BY InputAssumption
<1>2. DOMAIN back = {c[u].canon : u \in Known(c)}
  BY DEF Last, CanonOf
<1>3. ASSUME NEW w \in DOMAIN back
      PROVE  back[w] \in Known(c) /\ c[back[w]].canon = w
  <2>1. back[w] \in Known(c) /\ CanonOf(c)[back[w]] = w
    BY LastIsThere
  <2>2. \A v \in Known(c) : CanonOf(c)[v] = c[v].canon
    BY DEF CanonOf
  <2> HIDE DEF back
  <2> QED
    BY <2>1, <2>2
<1>4. \A u \in Urls : rows[u] = IF u \in DOMAIN back THEN c[back[u]] ELSE None
  BY DEF Rekeyed
<1>5. DOMAIN back \subseteq Urls
  BY <1>2 DEF Known, Shelf, Candidates
<1> HIDE DEF back
<1>6. ASSUME NEW u \in Known(rows)
      PROVE  /\ u \in DOMAIN back /\ back[u] \in Known(c) /\ rows[u] = c[back[u]]
             /\ rows[u].canon = u
  BY <1>3, <1>4, <1>6 DEF Known
<1>7. rows = [u \in Urls |-> rows[u]]
  BY DEF Rekeyed
<1> HIDE DEF rows
<1>8. rows \in Shelf
  BY <1>3, <1>4, <1>7 DEF Shelf, Known
<1>9. Keyed(rows)
  BY <1>6 DEF Keyed
<1>10. ASSUME NEW u \in Known(rows)
       PROVE  /\ (rows[u].claim # None) = (rows[u].origin = "authority")
              /\ rows[u].covers \subseteq Paths
              /\ rows[u].origin = "authority" /\ rows[u].match # "rejected" =>
                   rows[u].canon \in Registered[rows[u].claim]
              /\ rows[u].origin = "submitted" => seed # None /\ u \in {seed, leadsTo[seed]}
              /\ rows[u].canon \in {u, leadsTo[u]}
  <2>1. PICK v \in Known(c) : v = back[u] /\ rows[u] = c[v] /\ c[v].canon = u
    BY <1>6, <1>10
  <2>2. /\ (c[v].claim # None) = (c[v].origin = "authority")
        /\ c[v].covers \subseteq Paths
        /\ c[v].origin = "authority" /\ c[v].match # "rejected" =>
             c[v].canon \in Registered[c[v].claim]
        /\ c[v].origin = "submitted" => seed # None /\ v \in {seed, leadsTo[seed]}
        /\ c[v].canon \in {v, leadsTo[v]}
    BY DEF ShelfInv
  <2>3. c[v].origin = "submitted" => u \in {seed, leadsTo[seed]}
    <3>1. seed # None => seed \in Urls
      BY InputAssumption
    <3> QED
      BY <1>1, <2>1, <2>2, <3>1
  <2> QED
    BY <2>1, <2>2, <2>3
<1>11. ShelfInv(rows)
  BY <1>10 DEF ShelfInv
<1> QED
  BY <1>8, <1>9, <1>11 DEF rows

\* A passed gate gives up only what is still planned.
LEMMA SkippedKeepsAnswers ==
  ASSUME plan # None, exec \in [DOMAIN plan -> QueryStates]
  PROVE  /\ Skipped \in [DOMAIN plan -> QueryStates]
         /\ \A q \in DOMAIN plan :
              /\ Skipped[q].asked = exec[q].asked
              /\ \/ Skipped[q].status = exec[q].status
                 \/ /\ exec[q].status = "planned" /\ Skipped[q].status = "not_needed"
                    /\ GatePasses(cands)
<1>1. ASSUME NEW q \in DOMAIN plan
      PROVE  /\ Skipped[q] \in QueryStates /\ Skipped[q].asked = exec[q].asked
             /\ \/ Skipped[q].status = exec[q].status
                \/ /\ exec[q].status = "planned" /\ Skipped[q].status = "not_needed"
                   /\ GatePasses(cands)
  <2>1. PICK x \in QueryStates : x = exec[q]
    OBVIOUS
  <2>2. PICK y : y = [x EXCEPT !.status = "not_needed"]
    OBVIOUS
  <2>3. y \in QueryStates /\ y.asked = x.asked /\ y.status = "not_needed"
    BY <2>1, <2>2 DEF QueryStates
  <2>4. Skipped[q] = IF GatePasses(cands) /\ q \notin PhaseOne(plan) /\ x.status = "planned"
                     THEN y ELSE x
    BY <2>1, <2>2 DEF Skipped
  <2> QED
    BY <2>1, <2>3, <2>4
<1>2. Skipped = [q \in DOMAIN plan |-> Skipped[q]]
  BY DEF Skipped
<1> QED
  BY <1>1, <1>2

\* Going on without the provider counts a query that failed as run.
LEMMA ClosedKeepsAnswers ==
  ASSUME NEW e \in [DOMAIN plan -> QueryStates]
  PROVE  /\ Closed(e) \in [DOMAIN plan -> QueryStates]
         /\ \A q \in DOMAIN plan :
              /\ Closed(e)[q].asked = e[q].asked
              /\ \/ Closed(e)[q].status = e[q].status
                 \/ /\ e[q].status = "planned" /\ e[q].asked
                    /\ Closed(e)[q].status = "answered"
<1>1. ASSUME NEW q \in DOMAIN plan
      PROVE  /\ Closed(e)[q] \in QueryStates /\ Closed(e)[q].asked = e[q].asked
             /\ \/ Closed(e)[q].status = e[q].status
                \/ e[q].status = "planned" /\ e[q].asked /\ Closed(e)[q].status = "answered"
  <2>1. PICK x \in QueryStates : x = e[q]
    OBVIOUS
  <2>2. PICK y : y = [x EXCEPT !.status = "answered"]
    OBVIOUS
  <2>3. y \in QueryStates /\ y.asked = x.asked /\ y.status = "answered"
    BY <2>1, <2>2 DEF QueryStates
  <2>4. Closed(e)[q] = IF ~GatePasses(cands) /\ x.status = "planned" /\ x.asked
                       THEN y ELSE x
    BY <2>1, <2>2 DEF Closed
  <2> QED
    BY <2>1, <2>3, <2>4
<1>2. Closed(e) = [q \in DOMAIN plan |-> Closed(e)[q]]
  BY DEF Closed
<1> QED
  BY <1>1, <1>2

\* Selection saves what it keeps; the run goes on with it, waits for a delivery
\* that finds it, or ends.
LEMMA SelectEffects ==
  ASSUME PlanInv, CandInv, SeedInv, Select
  PROVE  /\ UNCHANGED <<leadsTo, seed, plan, resume, attached>>
         /\ plan \in Drafts /\ resume = "discovery" /\ plan # None /\ pc = "gate"
         /\ saved' \in Rows /\ saved'.exec \in [DOMAIN plan -> QueryStates]
         /\ ShelfInv(saved'.cands) /\ Keyed(saved'.cands) /\ saved'.auth = auth
         /\ From(cands, "submitted") \subseteq From(saved'.cands, "submitted")
         /\ \A q \in DOMAIN plan :
              /\ saved'.exec[q].asked = exec[q].asked
              /\ \/ saved'.exec[q].status = exec[q].status
                 \/ /\ exec[q].status = "planned" /\ saved'.exec[q].status = "not_needed"
                    /\ GatePasses(cands)
                 \/ /\ exec[q].status = "planned" /\ exec[q].asked
                    /\ saved'.exec[q].status = "answered"
         /\ \/ delivery < MaxDeliveries /\ Delivered(saved')
            \/ Ends(ending')
            \/ /\ exec' = saved'.exec /\ cands' = saved'.cands /\ pc' = "retrieval"
               /\ Cardinality(Known(cands')) \in 1..DepthLimit
               /\ UNCHANGED <<delivery, ending, auth, gap, snap, rounds, hiccup>>
<1>1. /\ pc = "gate" /\ UNCHANGED <<leadsTo, seed, plan, resume, attached>>
      /\ seed \in Submitted \cup {None} /\ auth \in Preflights /\ gap \in [Claims -> Gaps]
  BY DEF Select, PlanInv
<1>2. /\ plan \in Drafts /\ resume = "discovery" /\ plan # None
      /\ exec \in [DOMAIN plan -> QueryStates]
  BY <1>1 DEF PlanInv, Early
<1>3. PICK chosen, kept :
        /\ chosen \in Selections(cands)
        /\ kept = [u \in Urls |-> IF u \in chosen THEN cands[u] ELSE None]
        /\ \/ /\ saved' = SearchSaved(Skipped, kept)
              /\ Retry(saved') \/ Ends("no_results")
           \/ /\ ~(From(kept, "broad") = {} /\ seed = None)
              /\ exec' = Closed(Skipped) /\ cands' = kept
              /\ saved' = SearchSaved(exec', kept) /\ pc' = "retrieval"
              /\ UNCHANGED <<delivery, ending, auth, gap, snap, rounds, hiccup>>
  BY DEF Select
<1>4. /\ kept \in Shelf /\ ShelfInv(kept) /\ Keyed(kept) /\ Known(kept) = chosen
      /\ Cardinality(Known(kept)) \in 0..DepthLimit
      /\ From(cands, "submitted") \subseteq From(kept, "submitted")
  BY <1>1, <1>2, <1>3, SelectionKeepsTheShelf
<1>5. PICK e : e = Skipped
  OBVIOUS
<1>6. /\ e \in [DOMAIN plan -> QueryStates]
      /\ \A q \in DOMAIN plan :
           /\ e[q].asked = exec[q].asked
           /\ \/ e[q].status = exec[q].status
              \/ exec[q].status = "planned" /\ e[q].status = "not_needed" /\ GatePasses(cands)
  BY <1>2, <1>5, SkippedKeepsAnswers
<1>7. ASSUME NEW x \in [DOMAIN plan -> QueryStates], saved' = SearchSaved(x, kept)
      PROVE  /\ saved' \in Rows /\ saved'.exec = x /\ saved'.cands = kept
             /\ saved'.auth = auth
  BY <1>1, <1>2, <1>4, <1>7 DEF SearchSaved, Rows, Executions
<1>8. CASE saved' = SearchSaved(Skipped, kept) /\ (Retry(saved') \/ Ends("no_results"))
  <2>1. \/ delivery < MaxDeliveries /\ Delivered(saved')
        \/ Ends(ending')
    BY <1>8 DEF Retry, Ends
  <2>2. /\ saved' \in Rows /\ saved'.exec = e /\ saved'.cands = kept /\ saved'.auth = auth
    BY <1>5, <1>6, <1>7, <1>8
  <2> HIDE DEF ShelfInv, Keyed, Rows, Shelf
  <2> QED
    BY <1>1, <1>2, <1>4, <1>6, <2>1, <2>2
<1>9. CASE /\ ~(From(kept, "broad") = {} /\ seed = None)
           /\ exec' = Closed(Skipped) /\ cands' = kept
           /\ saved' = SearchSaved(exec', kept) /\ pc' = "retrieval"
           /\ UNCHANGED <<delivery, ending, auth, gap, snap, rounds, hiccup>>
  <2>1. PICK f : f = Closed(e)
    OBVIOUS
  <2>2. /\ f \in [DOMAIN plan -> QueryStates]
        /\ \A q \in DOMAIN plan :
             /\ f[q].asked = e[q].asked
             /\ \/ f[q].status = e[q].status
                \/ e[q].status = "planned" /\ e[q].asked /\ f[q].status = "answered"
    BY <1>6, <2>1, ClosedKeepsAnswers
  <2>3. exec' = f
    BY <1>5, <1>9, <2>1
  <2>4. saved' \in Rows /\ saved'.exec = f /\ saved'.cands = kept /\ saved'.auth = auth
    BY <1>7, <1>9, <2>2, <2>3
  <2>5. \A q \in DOMAIN plan :
          /\ f[q].asked = exec[q].asked
          /\ \/ f[q].status = exec[q].status
             \/ exec[q].status = "planned" /\ f[q].status = "not_needed" /\ GatePasses(cands)
             \/ exec[q].status = "planned" /\ exec[q].asked /\ f[q].status = "answered"
    BY <1>6, <2>2
  <2>6. Cardinality(Known(cands')) \in 1..DepthLimit
    <3>1. seed # None => seed \in From(cands, "submitted")
      BY <1>1, InputAssumption DEF SeedInv, From, Known
    <3>2. Known(kept) # {}
      BY <1>4, <1>9, <3>1 DEF From
    <3>3. IsFiniteSet(Known(kept))
      BY FS_Subset, InputAssumption DEF Known
    <3>4. Cardinality(Known(kept)) # 0
      BY <3>2, <3>3, FS_EmptySet
    <3>5. Cardinality(Known(kept)) \in 1..DepthLimit
      BY <1>4, <3>4, PolicyAssumption
    <3> QED
      BY <1>9, <3>5
  <2>7. /\ exec' = saved'.exec /\ cands' = saved'.cands /\ pc' = "retrieval"
        /\ UNCHANGED <<delivery, ending, auth, gap, snap, rounds, hiccup>>
    BY <1>9, <2>3, <2>4
  <2>8. /\ saved'.exec \in [DOMAIN plan -> QueryStates]
        /\ \A q \in DOMAIN plan :
             /\ saved'.exec[q].asked = exec[q].asked
             /\ \/ saved'.exec[q].status = exec[q].status
                \/ /\ exec[q].status = "planned" /\ saved'.exec[q].status = "not_needed"
                   /\ GatePasses(cands)
                \/ /\ exec[q].status = "planned" /\ exec[q].asked
                   /\ saved'.exec[q].status = "answered"
    BY <2>2, <2>4, <2>5
  <2>9. /\ ShelfInv(saved'.cands) /\ Keyed(saved'.cands)
        /\ From(cands, "submitted") \subseteq From(saved'.cands, "submitted")
    BY <1>4, <2>4
  <2> HIDE DEF ShelfInv, Keyed, Rows, Shelf
  <2> QED
    BY <1>1, <1>2, <2>4, <2>6, <2>7, <2>8, <2>9
<1> QED
  BY <1>3, <1>8, <1>9

LEMMA GapAfterIsAGap ==
  ASSUME gap \in [Claims -> Gaps], NEW p \in Claims, NEW c, NEW good, NEW read,
         NEW missing \in Gaps, NEW blocked \in Gaps
  PROVE  GapAfter(c, p, good, read, missing, blocked) \in Gaps
BY DEF GapAfter, Gaps

\* Retrieval goes on with what it fetched, is delivered again or ends.
LEMMA RetrieveEffects ==
  ASSUME PlanInv, CandInv, Retrieve
  PROVE  /\ UNCHANGED durable /\ plan \in Drafts /\ resume = "discovery" /\ plan # None
         /\ pc = "retrieval"
         /\ \/ delivery < MaxDeliveries /\ Delivered(saved)
            \/ Ends(ending')
            \/ /\ cands' \in Shelf /\ ShelfInv(cands') /\ Known(cands') = Known(cands)
               /\ \A u \in Known(cands) : cands'[u].origin = cands[u].origin
               /\ \A p \in Claims :
                    gap'[p] = "none" /\ OfProfile(cands', p) = {} => gap[p] = "none"
               /\ gap' \in [Claims -> Gaps] /\ pc' = "extraction"
               /\ UNCHANGED <<delivery, ending, exec, auth, rounds, hiccup>>
<1>1. UNCHANGED durable /\ pc = "retrieval"
  BY DEF Retrieve
<1>2. plan \in Drafts /\ resume = "discovery" /\ plan # None /\ gap \in [Claims -> Gaps]
  BY <1>1 DEF PlanInv, Early
<1> DEFINE Fetched(got) == {u \in DOMAIN got : got[u] = "fetched"}
           Found(got) == [u \in Urls |-> IF u \in Fetched(got) THEN Resolved(u) ELSE cands[u]]
<1>3. PICK got \in [Known(cands) -> FetchOutcomes] :
           \/ /\ cands' = Found(got)
              /\ gap' = [p \in Claims |->
                   GapAfter(Found(got), p, {u \in Fetched(got) : Found(got)[u].match # "rejected"},
                            Fetched(got), "NO_VERIFIED_RESULT", "INACCESSIBLE_OR_BLOCKED")]
              /\ pc' = "extraction"
              /\ UNCHANGED <<delivery, ending, exec, auth, rounds, hiccup>>
           \/ Retry(saved)
           \/ Ends("no_sources")
  BY DEF Retrieve
<1>4. PICK fetched, found :
        /\ fetched = {u \in DOMAIN got : got[u] = "fetched"}
        /\ found = [u \in Urls |-> IF u \in fetched THEN Resolved(u) ELSE cands[u]]
        /\ \/ /\ cands' = found
              /\ gap' = [p \in Claims |->
                   GapAfter(found, p, {u \in fetched : found[u].match # "rejected"},
                            fetched, "NO_VERIFIED_RESULT", "INACCESSIBLE_OR_BLOCKED")]
              /\ pc' = "extraction"
              /\ UNCHANGED <<delivery, ending, exec, auth, rounds, hiccup>>
           \/ Retry(saved)
           \/ Ends("no_sources")
  BY <1>3
<1>5. fetched \in SUBSET Known(cands)
  BY <1>4
<1>6. /\ found \in Shelf /\ ShelfInv(found) /\ Known(found) = Known(cands)
      /\ \A u \in Known(cands) : found[u].origin = cands[u].origin
  BY <1>1, <1>4, <1>5, FetchKeepsTheShelf
<1>7. CASE /\ cands' = found
           /\ gap' = [p \in Claims |->
                GapAfter(found, p, {u \in fetched : found[u].match # "rejected"},
                         fetched, "NO_VERIFIED_RESULT", "INACCESSIBLE_OR_BLOCKED")]
           /\ pc' = "extraction"
           /\ UNCHANGED <<delivery, ending, exec, auth, rounds, hiccup>>
  <2>1. "NO_VERIFIED_RESULT" \in Gaps /\ "INACCESSIBLE_OR_BLOCKED" \in Gaps
    BY DEF Gaps
  <2>2. \A p \in Claims :
          GapAfter(found, p, {u \in fetched : found[u].match # "rejected"},
                   fetched, "NO_VERIFIED_RESULT", "INACCESSIBLE_OR_BLOCKED") \in Gaps
    BY <1>2, <2>1, GapAfterIsAGap
  <2>3. gap' \in [Claims -> Gaps]
    BY <1>7, <2>2
  <2>4. \A p \in Claims : OfProfile(found, p) = {} => gap'[p] = gap[p]
    BY <1>7 DEF GapAfter
  <2> HIDE DEF ShelfInv, Shelf
  <2> QED
    BY <1>1, <1>2, <1>6, <1>7, <2>3, <2>4
<1>8. CASE Retry(saved) \/ Ends("no_sources")
  BY <1>1, <1>2, <1>8 DEF Retry, Ends
<1> QED
  BY <1>4, <1>7, <1>8

\* Extraction rejects what it did not read, records the gaps, and saves the shelf
\* by the URLs it ended at.
LEMMA ExtractEffects ==
  ASSUME PlanInv, CandInv, Extract
  PROVE  /\ UNCHANGED <<leadsTo, seed, plan, resume>>
         /\ plan \in Drafts /\ resume = "discovery" /\ plan # None /\ pc = "extraction"
         /\ \/ Ends(ending') /\ UNCHANGED saved
            \/ /\ cands' \in Shelf /\ ShelfInv(cands') /\ Known(cands') = Known(cands)
               /\ \A u \in Known(cands) : cands'[u].origin = cands[u].origin
               /\ \A u \in From(cands', "authority") :
                    cands'[u].match # "rejected" => snap'[u] = "read"
               /\ \A p \in Claims : gap'[p] = "none" =>
                    \/ \E u \in OfProfile(cands', p) : cands'[u].match = "document"
                    \/ /\ OfProfile(cands', p) = {} /\ OfProfile(cands, p) = {}
                       /\ gap[p] = "none"
               /\ gap' \in [Claims -> Gaps] /\ pc' = "segmentation"
               /\ saved' \in Rows /\ saved'.exec = saved.exec /\ saved'.auth = auth
               /\ saved'.cands = Rekeyed(cands')
               /\ UNCHANGED <<delivery, ending, exec, auth, rounds, hiccup>>
<1>1. UNCHANGED <<leadsTo, seed, plan, resume>> /\ pc = "extraction"
  BY DEF Extract
<1>2. /\ plan \in Drafts /\ resume = "discovery" /\ plan # None
      /\ gap \in [Claims -> Gaps] /\ auth \in Preflights /\ saved \in Rows
      /\ leadsTo \in Webs /\ seed \in Submitted \cup {None}
  BY <1>1 DEF PlanInv, Early
<1>3. PICK read \in Readings : \E match \in DocumentMatches(read) :
       \/ /\ cands' = [u \in Urls |->
               IF cands[u] = None THEN None ELSE Validated(u, match)]
          /\ snap' = [u \in Urls |-> IF u \in read THEN "read"
                                     ELSE IF snap[u] = None THEN None ELSE "missing"]
          /\ gap' = [p \in Claims |->
               GapAfter(cands', p, {u \in Known(cands') : cands'[u].match = "document"},
                        read, "NO_EXACT_CLAIM_EVIDENCE", "INACCESSIBLE_OR_BLOCKED")]
          /\ saved' = [saved EXCEPT !.auth = auth, !.gap = gap', !.cands = Rekeyed(cands')]
          /\ pc' = "segmentation"
          /\ UNCHANGED <<delivery, ending, exec, auth, rounds, hiccup>>
       \/ Ends("no_text") /\ UNCHANGED <<saved, attached>>
  BY DEF Extract
<1>4. PICK match \in DocumentMatches(read) :
       \/ /\ cands' = [u \in Urls |->
               IF cands[u] = None THEN None ELSE Validated(u, match)]
          /\ snap' = [u \in Urls |-> IF u \in read THEN "read"
                                     ELSE IF snap[u] = None THEN None ELSE "missing"]
          /\ gap' = [p \in Claims |->
               GapAfter(cands', p, {u \in Known(cands') : cands'[u].match = "document"},
                        read, "NO_EXACT_CLAIM_EVIDENCE", "INACCESSIBLE_OR_BLOCKED")]
          /\ saved' = [saved EXCEPT !.auth = auth, !.gap = gap', !.cands = Rekeyed(cands')]
          /\ pc' = "segmentation"
          /\ UNCHANGED <<delivery, ending, exec, auth, rounds, hiccup>>
       \/ Ends("no_text") /\ UNCHANGED <<saved, attached>>
  BY <1>3
<1>5. CASE Ends("no_text") /\ UNCHANGED <<saved, attached>>
  BY <1>1, <1>2, <1>5 DEF Ends
<1>6. CASE
          /\ cands' = [u \in Urls |->
               IF cands[u] = None THEN None ELSE Validated(u, match)]
          /\ snap' = [u \in Urls |-> IF u \in read THEN "read"
                                     ELSE IF snap[u] = None THEN None ELSE "missing"]
          /\ gap' = [p \in Claims |->
               GapAfter(cands', p, {u \in Known(cands') : cands'[u].match = "document"},
                        read, "NO_EXACT_CLAIM_EVIDENCE", "INACCESSIBLE_OR_BLOCKED")]
          /\ saved' = [saved EXCEPT !.auth = auth, !.gap = gap', !.cands = Rekeyed(cands')]
          /\ pc' = "segmentation"
          /\ UNCHANGED <<delivery, ending, exec, auth, rounds, hiccup>>
  <2>1. PICK c : c = cands'
    OBVIOUS
  <2>2. /\ c \in Shelf /\ ShelfInv(c) /\ Known(c) = Known(cands)
        /\ \A u \in Known(cands) : c[u].origin = cands[u].origin /\ c[u].claim = cands[u].claim
        /\ \A u \in From(c, "authority") : c[u].match # "rejected" => u \in match
    BY <1>6, <2>1, ReadingKeepsTheShelf
  <2>3. match \subseteq read /\ read \subseteq Urls
    BY <1>4 DEF DocumentMatches, Readings, Known
  <2>4. \A u \in From(c, "authority") : c[u].match # "rejected" => snap'[u] = "read"
    BY <1>6, <2>2, <2>3
  <2> DEFINE good == {u \in Known(c) : c[u].match = "document"}
             told(p) == GapAfter(c, p, good, read,
                                 "NO_EXACT_CLAIM_EVIDENCE", "INACCESSIBLE_OR_BLOCKED")
  <2>5. gap' = [p \in Claims |-> told(p)]
    BY <1>6, <2>1
  <2>6. \A p \in Claims : told(p) \in Gaps
    <3>1. "NO_EXACT_CLAIM_EVIDENCE" \in Gaps /\ "INACCESSIBLE_OR_BLOCKED" \in Gaps
      BY DEF Gaps
    <3> QED
      BY <1>2, <3>1, GapAfterIsAGap
  <2>7. ASSUME NEW p \in Claims, told(p) = "none"
        PROVE  \/ \E u \in OfProfile(c, p) : c[u].match = "document"
               \/ OfProfile(c, p) = {} /\ OfProfile(cands, p) = {} /\ gap[p] = "none"
    <3>1. OfProfile(c, p) = OfProfile(cands, p)
      BY <2>2 DEF OfProfile
    <3> QED
      BY <2>7, <3>1 DEF GapAfter
  <2>8. gap' \in [Claims -> Gaps]
    BY <2>5, <2>6
  <2>9. \A p \in Claims : gap'[p] = "none" =>
          \/ \E u \in OfProfile(c, p) : c[u].match = "document"
          \/ OfProfile(c, p) = {} /\ OfProfile(cands, p) = {} /\ gap[p] = "none"
    BY <2>5, <2>7
  <2>10. Rekeyed(c) \in Shelf
    BY <1>2, <2>2, RowsKeepTheShelf
  <2>11. saved' = [saved EXCEPT !.auth = auth, !.gap = gap', !.cands = Rekeyed(c)]
    BY <1>6, <2>1
  <2>12. /\ saved' \in Rows /\ saved'.exec = saved.exec /\ saved'.auth = auth
         /\ saved'.cands = Rekeyed(c)
    BY <1>2, <2>8, <2>10, <2>11 DEF Rows
  <2> HIDE DEF ShelfInv, Shelf, Rows
  <2> QED
    BY <1>1, <1>2, <1>6, <2>1, <2>2, <2>4, <2>8, <2>9, <2>12
<1> QED
  BY <1>4, <1>5, <1>6

\* The start of discovery: the plan is saved, and nothing else is.
LEMMA AcceptEffects ==
  ASSUME PlanInv, Plan \/ Repair, pc' = "discovery"
  PROVE  /\ UNCHANGED <<leadsTo, seed, attached, delivery, ending, auth, gap, cands, snap,
                        rounds, hiccup>>
         /\ plan = None /\ plan' \in Drafts /\ plan' # None /\ resume' = "discovery"
         /\ cands = Blank /\ saved' \in Rows
         /\ exec' = [q \in DOMAIN plan' |-> [status |-> "planned", asked |-> FALSE]]
         /\ exec' \in [DOMAIN plan' -> QueryStates]
         /\ saved'.exec = exec' /\ saved'.auth = Unsaved.auth /\ saved'.cands = Blank
<1>1. PICK d \in Drafts : Accept(d)
  BY DEF Plan, Repair, Ends
<1>2. plan = None /\ saved = Unsaved /\ cands = Blank /\ saved \in Rows
  BY DEF Plan, Repair, PlanInv, Early
<1>3. /\ plan' = d /\ d # None
      /\ exec' = [q \in DOMAIN d |-> [status |-> "planned", asked |-> FALSE]]
      /\ saved' = [saved EXCEPT !.exec = exec'] /\ resume' = "discovery"
      /\ UNCHANGED <<leadsTo, seed, attached, delivery, ending, auth, gap, cands, snap,
                     rounds, hiccup>>
  BY <1>1, NoneAssumption DEF Accept
<1>4. exec' \in [DOMAIN d -> QueryStates]
  BY <1>3 DEF QueryStates
<1>5. saved' \in Rows /\ saved'.exec = exec' /\ saved'.auth = saved.auth
      /\ saved'.cands = saved.cands
  BY <1>2, <1>3, <1>4 DEF Rows, Executions
<1>6. saved'.auth = Unsaved.auth /\ saved'.cands = Blank
  BY <1>2, <1>5 DEF Unsaved
<1> HIDE DEF Rows
<1> QED
  BY <1>2, <1>3, <1>4, <1>5, <1>6

\* A batch is made of queries of the plan.
LEMMA BatchesAreOfThePlan ==
  PhaseOne(plan) \subseteq DOMAIN plan /\ NextBatch \subseteq Reserve(plan)
    /\ Reserve(plan) \subseteq DOMAIN plan
BY DEF PhaseOne, Mandatory, First, NextBatch, Reserve

\* What a search of either phase does.
LEMMA SearchEffects ==
  ASSUME PlanInv, CandInv, SearchPhaseOne \/ SearchReserve
  PROVE  /\ cands' \in Shelf /\ ShelfInv(cands)' /\ Keyed(cands)'
         /\ exec' \in [DOMAIN plan -> QueryStates] /\ plan # None
         /\ \A q \in DOMAIN plan :
              IF exec[q].status = "planned"
              THEN exec'[q].status \in {"planned", "answered"}
              ELSE exec'[q] = exec[q]
         /\ From(cands, "submitted") \subseteq From(cands', "submitted")
         /\ pc' = "gate" /\ pc \in {"phase_one", "gate"}
         /\ rounds' \in 0..MaxRounds /\ rounds' <= rounds + 1
         /\ UNCHANGED <<durable, delivery, ending, auth, gap, snap>>
<1>1. /\ pc \in {"phase_one", "gate"} /\ plan # None /\ rounds \in 0..MaxRounds
      /\ exec \in [DOMAIN plan -> QueryStates]
  BY DEF SearchPhaseOne, SearchReserve, PlanInv, Early
<1>2. ASSUME NEW batch, batch \subseteq DOMAIN plan, Search(batch)
      PROVE  /\ cands' \in Shelf /\ ShelfInv(cands)' /\ Keyed(cands)'
             /\ exec' \in [DOMAIN plan -> QueryStates]
             /\ \A q \in DOMAIN plan :
                  IF exec[q].status = "planned"
                  THEN exec'[q].status \in {"planned", "answered"}
                  ELSE exec'[q] = exec[q]
             /\ From(cands, "submitted") \subseteq From(cands', "submitted")
             /\ rounds' = Smaller(rounds + 1, MaxRounds) /\ pc' = "gate"
             /\ UNCHANGED <<durable, delivery, ending, auth, gap, snap>>
  BY <1>1, <1>2, SearchKeepsTheShelf
<1>3. \/ Search(PhaseOne(plan)) /\ PhaseOne(plan) \subseteq DOMAIN plan
      \/ Search(NextBatch) /\ NextBatch \subseteq DOMAIN plan
  BY BatchesAreOfThePlan DEF SearchPhaseOne, SearchReserve
<1>4. PICK r \in Nat : r = rounds /\ rounds' = Smaller(r + 1, MaxRounds)
  BY <1>1, <1>2, <1>3, PolicyAssumption
<1>5. rounds' \in 0..MaxRounds /\ rounds' <= rounds + 1
  <2>1. MaxRounds \in Nat
    BY PolicyAssumption
  <2> QED
    BY <1>4, <2>1 DEF Smaller
<1> QED
  BY <1>1, <1>2, <1>3, <1>5

LEMMA PlanStep ==
  ASSUME IInv, Next
  PROVE  PlanInv'
<1>1. /\ PlanInv /\ CandInv /\ SeedInv /\ RoundInv
      /\ leadsTo \in Webs /\ seed \in Submitted \cup {None}
      /\ resume \in {"intake", "decomposition", "planner", "discovery"}
      /\ pc \in Stages /\ delivery \in 1..MaxDeliveries /\ rounds \in 0..MaxRounds
      /\ saved \in Rows /\ auth \in Preflights /\ gap \in [Claims -> Gaps]
      /\ cands \in Shelf /\ (plan = None) = (resume # "discovery")
  BY DEF IInv, PlanInv
<1>2. /\ pc \in {"phase_one", "gate"} \cup Selected => \A p \in Profiles : auth[p] # "planned"
      /\ plan = None => /\ pc \in Early \cup {"ended"}
                        /\ exec = Fresh /\ saved = Unsaved /\ cands = Blank
      /\ plan # None => /\ plan \in Drafts /\ pc \notin Early
                        /\ exec \in [DOMAIN plan -> QueryStates]
                        /\ saved.exec \in [DOMAIN plan -> QueryStates]
  BY DEF IInv, PlanInv
<1>3. /\ delivery < MaxDeliveries => delivery + 1 \in 1..MaxDeliveries
      /\ 0 \in 0..MaxRounds /\ 1 \in 0..MaxRounds
  BY <1>1, PolicyAssumption
<1> USE DEF Stages, Early, BeforeSearch, Selected
<1> HIDE DEF PlanInv
<1>4. CASE Redeliver
  <2>1. /\ Delivered(saved) /\ delivery < MaxDeliveries /\ UNCHANGED durable
    BY <1>4 DEF Redeliver
  <2>2. /\ exec' = saved.exec /\ cands' = saved.cands /\ cands' \in Shelf
        /\ auth' \in Preflights /\ gap' \in [Claims -> Gaps]
        /\ rounds' = 0 /\ pc' = resume /\ delivery' = delivery + 1
    BY <1>1, <2>1, DeliveredTakesTheRows
  <2>3. plan = None => exec' = Fresh /\ cands' = Blank
    BY <1>2, <2>2 DEF Unsaved
  <2> QED
    BY <1>1, <1>2, <1>3, <2>1, <2>2, <2>3 DEF PlanInv, durable
<1>5. CASE Understand
  BY <1>1, <1>2, <1>5 DEF Understand, Ends, durable, memory, PlanInv
<1>6. CASE (Plan \/ Repair) /\ pc' # "discovery"
  BY <1>1, <1>2, <1>6 DEF Plan, Repair, Accept, Ends, durable, memory, PlanInv
<1>7. CASE (Plan \/ Repair) /\ pc' = "discovery"
  <2>1. /\ UNCHANGED <<leadsTo, seed, delivery, auth, gap, cands, rounds>>
        /\ plan' \in Drafts /\ plan' # None /\ resume' = "discovery"
        /\ saved' \in Rows /\ exec' \in [DOMAIN plan' -> QueryStates] /\ saved'.exec = exec'
    BY <1>1, <1>7, AcceptEffects
  <2> QED
    BY <1>1, <1>7, <2>1 DEF PlanInv
<1>8. CASE Preflight
  <2>1. /\ cands' \in Shelf /\ auth' \in [Profiles -> PreflightOutcomes]
        /\ gap' \in [Claims -> Gaps]
    BY <1>8, PreflightKeepsTheShelf
  <2>2. pc = "discovery" /\ pc' = "phase_one" /\ UNCHANGED <<durable, delivery, exec, rounds>>
    BY <1>8 DEF Preflight
  <2>3. auth' \in Preflights /\ \A p \in Profiles : auth'[p] # "planned"
    BY <2>1 DEF Preflights, PreflightOutcomes
  <2> QED
    BY <1>1, <1>2, <2>1, <2>2, <2>3 DEF PlanInv, durable
<1>9. CASE SearchPhaseOne \/ SearchReserve
  <2>1. /\ cands' \in Shelf /\ exec' \in [DOMAIN plan -> QueryStates] /\ plan # None
        /\ rounds' \in 0..MaxRounds /\ pc' = "gate" /\ pc \in {"phase_one", "gate"}
        /\ UNCHANGED <<durable, delivery, auth, gap>>
    BY <1>1, <1>9, SearchEffects
  <2> QED
    BY <1>1, <1>2, <2>1 DEF PlanInv, durable
<1>10. CASE Select
  <2>1. /\ UNCHANGED <<leadsTo, seed, plan, resume>>
        /\ plan \in Drafts /\ resume = "discovery" /\ plan # None /\ pc = "gate"
        /\ saved' \in Rows /\ saved'.exec \in [DOMAIN plan -> QueryStates]
        /\ \/ delivery < MaxDeliveries /\ Delivered(saved')
           \/ Ends(ending')
           \/ /\ exec' = saved'.exec /\ cands' = saved'.cands /\ pc' = "retrieval"
              /\ UNCHANGED <<delivery, ending, auth, gap, snap, rounds, hiccup>>
    BY <1>1, <1>10, SelectEffects
  <2>2. CASE delivery < MaxDeliveries /\ Delivered(saved')
    <3>1. /\ exec' = saved'.exec /\ cands' = saved'.cands /\ cands' \in Shelf
          /\ auth' \in Preflights /\ gap' \in [Claims -> Gaps]
          /\ rounds' = 0 /\ pc' = resume /\ delivery' = delivery + 1
      BY <2>1, <2>2, DeliveredTakesTheRows
    <3> QED
      BY <1>1, <1>3, <2>1, <2>2, <3>1 DEF PlanInv
  <2>3. CASE Ends(ending')
    BY <1>1, <1>2, <2>1, <2>3 DEF PlanInv, Ends, memory
  <2>4. CASE /\ exec' = saved'.exec /\ cands' = saved'.cands /\ pc' = "retrieval"
             /\ UNCHANGED <<delivery, ending, auth, gap, snap, rounds, hiccup>>
    <3>1. saved'.cands \in Shelf
      BY <2>1 DEF Rows
    <3> QED
      BY <1>1, <1>2, <2>1, <2>4, <3>1 DEF PlanInv
  <2> QED
    BY <2>1, <2>2, <2>3, <2>4
<1>11. CASE Retrieve
  <2>1. /\ UNCHANGED durable /\ plan \in Drafts /\ resume = "discovery" /\ plan # None
        /\ pc = "retrieval"
        /\ \/ delivery < MaxDeliveries /\ Delivered(saved)
           \/ Ends(ending')
           \/ /\ cands' \in Shelf /\ gap' \in [Claims -> Gaps] /\ pc' = "extraction"
              /\ UNCHANGED <<delivery, ending, exec, auth, rounds, hiccup>>
    BY <1>1, <1>11, RetrieveEffects
  <2>2. CASE delivery < MaxDeliveries /\ Delivered(saved)
    <3>1. /\ exec' = saved.exec /\ cands' \in Shelf
          /\ auth' \in Preflights /\ gap' \in [Claims -> Gaps]
          /\ rounds' = 0 /\ pc' = resume /\ delivery' = delivery + 1
      BY <1>1, <2>2, DeliveredTakesTheRows
    <3> QED
      BY <1>1, <1>2, <1>3, <2>1, <2>2, <3>1 DEF PlanInv, durable
  <2>3. CASE Ends(ending')
    BY <1>1, <1>2, <2>1, <2>3 DEF PlanInv, Ends, memory, durable
  <2>4. CASE /\ cands' \in Shelf /\ gap' \in [Claims -> Gaps] /\ pc' = "extraction"
             /\ UNCHANGED <<delivery, ending, exec, auth, rounds, hiccup>>
    BY <1>1, <1>2, <2>1, <2>4 DEF PlanInv, durable
  <2> QED
    BY <2>1, <2>2, <2>3, <2>4
<1>12. CASE Extract
  <2>1. /\ UNCHANGED <<leadsTo, seed, plan, resume>>
        /\ plan \in Drafts /\ resume = "discovery" /\ plan # None /\ pc = "extraction"
        /\ \/ Ends(ending') /\ UNCHANGED saved
           \/ /\ cands' \in Shelf /\ gap' \in [Claims -> Gaps] /\ pc' = "segmentation"
              /\ saved' \in Rows /\ saved'.exec = saved.exec
              /\ UNCHANGED <<delivery, ending, exec, auth, rounds, hiccup>>
    BY <1>1, <1>12, ExtractEffects
  <2>2. CASE Ends(ending') /\ UNCHANGED saved
    BY <1>1, <1>2, <2>1, <2>2 DEF PlanInv, Ends, memory
  <2>3. CASE /\ cands' \in Shelf /\ gap' \in [Claims -> Gaps] /\ pc' = "segmentation"
             /\ saved' \in Rows /\ saved'.exec = saved.exec
             /\ UNCHANGED <<delivery, ending, exec, auth, rounds, hiccup>>
    BY <1>1, <1>2, <2>1, <2>3 DEF PlanInv
  <2> QED
    BY <2>1, <2>2, <2>3
<1>13. CASE Segment \/ Provenance
  BY <1>1, <1>2, <1>13 DEF PlanInv, Segment, Provenance, Ends, memory, durable
<1> QED
  BY <1>4, <1>5, <1>6, <1>7, <1>8, <1>9, <1>10, <1>11, <1>12, <1>13 DEF Next

-----------------------------------------------------------------------------
(* The shelf, in memory and in rows.                                       *)

LEMMA ShelfCarries ==
  ASSUME UNCHANGED <<leadsTo, seed, plan>>
  PROVE  /\ ShelfInv(cands') => ShelfInv(cands)'
         /\ ShelfInv(saved'.cands) => ShelfInv(saved.cands)'
BY DEF ShelfInv, Paths, Known

LEMMA BlankShelf ==
  Known(Blank) = {} /\ ShelfInv(Blank) /\ Keyed(Blank)
BY DEF Blank, Known, ShelfInv, Keyed

\* What a delivery from the rows leaves of the shelf.
LEMMA RowsStayOnTheShelf ==
  ASSUME UNCHANGED <<leadsTo, seed, plan>>, cands' = saved'.cands,
         ShelfInv(saved'.cands), Keyed(saved'.cands)
  PROVE  CandInv'
BY ShelfCarries DEF CandInv, Keyed, Known

\* A step that leaves both shelves, and searches no more.
LEMMA ShelvesStay ==
  ASSUME CandInv, UNCHANGED <<leadsTo, seed, plan, cands, saved>>,
         pc' \in BeforeSearch \cup {"gate", "retrieval"} =>
           pc \in BeforeSearch \cup {"gate", "retrieval"}
  PROVE  CandInv'
<1>1. ShelfInv(cands') /\ ShelfInv(saved'.cands) /\ Keyed(saved'.cands)
  BY DEF CandInv
<1>2. ShelfInv(cands)' /\ ShelfInv(saved.cands)'
  BY <1>1, ShelfCarries
<1>3. Keyed(saved.cands)' /\ (pc' \in BeforeSearch \cup {"gate", "retrieval"} => Keyed(cands)')
  BY <1>1 DEF CandInv, Keyed, Known
<1> QED
  BY <1>2, <1>3 DEF CandInv

LEMMA CandStep ==
  ASSUME IInv, Next
  PROVE  CandInv'
<1>1. /\ PlanInv /\ CandInv /\ SeedInv /\ saved \in Rows
      /\ ShelfInv(cands) /\ ShelfInv(saved.cands) /\ Keyed(saved.cands)
  BY DEF IInv, PlanInv, CandInv
<1>2. /\ plan = None => pc \in Early \cup {"ended"} /\ saved = Unsaved /\ cands = Blank
  BY DEF IInv, PlanInv
<1> USE DEF Early, BeforeSearch, Selected
<1>3. CASE Redeliver
  <2>1. Delivered(saved) /\ UNCHANGED durable
    BY <1>3 DEF Redeliver
  <2>2. cands' = saved.cands
    BY <1>1, <2>1, DeliveredTakesTheRows
  <2>3. UNCHANGED <<leadsTo, seed, plan, saved>>
    BY <2>1 DEF durable
  <2> QED
    BY <1>1, <2>2, <2>3, RowsStayOnTheShelf
<1>4. CASE Understand
  <2>1. /\ UNCHANGED <<leadsTo, seed, plan, cands, saved>>
        /\ pc' \in {"decomposition", "planner", "ended"}
    BY <1>4 DEF Understand, Ends, durable, memory
  <2> QED
    BY <1>1, <2>1, ShelvesStay
<1>5. CASE (Plan \/ Repair) /\ pc' # "discovery"
  <2>1. UNCHANGED <<leadsTo, seed, plan, cands, saved>> /\ pc' \in {"repair", "ended"}
    BY <1>5 DEF Plan, Repair, Accept, Ends, durable, memory
  <2> QED
    BY <1>1, <2>1, ShelvesStay
<1>6. CASE (Plan \/ Repair) /\ pc' = "discovery"
  <2>1. cands' = Blank /\ saved'.cands = Blank
    BY <1>1, <1>6, AcceptEffects
  <2>2. Known(cands') = {} /\ Known(saved'.cands) = {}
    BY <2>1, BlankShelf
  <2> QED
    BY <2>2 DEF CandInv, ShelfInv, Keyed, Known
<1>7. CASE Preflight
  <2>1. ShelfInv(cands)' /\ Keyed(cands)'
    BY <1>7, PreflightKeepsTheShelf
  <2>2. UNCHANGED <<leadsTo, seed, plan, saved>>
    BY <1>7 DEF Preflight, durable
  <2>3. ShelfInv(saved.cands)' /\ Keyed(saved.cands)'
    BY <1>1, <2>2, ShelfCarries DEF Keyed, Known
  <2> QED
    BY <2>1, <2>3 DEF CandInv
<1>8. CASE SearchPhaseOne \/ SearchReserve
  <2>1. ShelfInv(cands)' /\ Keyed(cands)' /\ UNCHANGED durable
    BY <1>1, <1>8, SearchEffects
  <2>2. UNCHANGED <<leadsTo, seed, plan, saved>>
    BY <2>1 DEF durable
  <2>3. ShelfInv(saved.cands)' /\ Keyed(saved.cands)'
    BY <1>1, <2>2, ShelfCarries DEF Keyed, Known
  <2> QED
    BY <2>1, <2>3 DEF CandInv
<1>9. CASE Select
  <2>1. /\ UNCHANGED <<leadsTo, seed, plan>> /\ pc = "gate" /\ saved' \in Rows
        /\ ShelfInv(saved'.cands) /\ Keyed(saved'.cands)
        /\ Delivered(saved') \/ Ends(ending') \/ cands' = saved'.cands
    BY <1>1, <1>9, SelectEffects
  <2>2. CASE cands' = saved'.cands
    BY <2>1, <2>2, RowsStayOnTheShelf
  <2>3. CASE Delivered(saved')
    <3>1. cands' = saved'.cands
      BY <2>3 DEF Delivered
    <3> QED
      BY <2>1, <3>1, RowsStayOnTheShelf
  <2>4. CASE Ends(ending')
    <3>1. cands' = cands /\ pc' = "ended"
      BY <2>4 DEF Ends, memory
    <3>2. ShelfInv(cands)' /\ ShelfInv(saved.cands)' /\ Keyed(saved.cands)'
      BY <1>1, <2>1, <3>1, ShelfCarries DEF Keyed, Known
    <3> QED
      BY <3>1, <3>2 DEF CandInv
  <2> QED
    BY <2>1, <2>2, <2>3, <2>4
<1>10. CASE Retrieve
  <2>1. /\ UNCHANGED durable
        /\ \/ Delivered(saved)
           \/ Ends(ending')
           \/ ShelfInv(cands') /\ pc' = "extraction"
    BY <1>1, <1>10, RetrieveEffects
  <2>2. UNCHANGED <<leadsTo, seed, plan, saved>>
    BY <2>1 DEF durable
  <2>3. CASE Delivered(saved)
    <3>1. cands' = saved.cands
      BY <2>3 DEF Delivered
    <3> QED
      BY <1>1, <2>2, <3>1, RowsStayOnTheShelf
  <2>4. CASE Ends(ending')
    <3>1. cands' = cands /\ pc' = "ended"
      BY <2>4 DEF Ends, memory
    <3> QED
      BY <1>1, <2>2, <3>1, ShelvesStay
  <2>5. CASE ShelfInv(cands') /\ pc' = "extraction"
    <3>1. ShelfInv(cands)' /\ ShelfInv(saved.cands)' /\ Keyed(saved.cands)'
      BY <1>1, <2>2, <2>5, ShelfCarries DEF Keyed, Known
    <3> QED
      BY <2>5, <3>1 DEF CandInv
  <2> QED
    BY <2>1, <2>3, <2>4, <2>5
<1>11. CASE Extract
  <2>1. /\ UNCHANGED <<leadsTo, seed, plan>>
        /\ \/ Ends(ending') /\ UNCHANGED saved
           \/ /\ cands' \in Shelf /\ ShelfInv(cands') /\ pc' = "segmentation"
              /\ saved'.cands = Rekeyed(cands')
    BY <1>1, <1>11, ExtractEffects
  <2>2. CASE Ends(ending') /\ UNCHANGED saved
    <3>1. cands' = cands /\ pc' = "ended"
      BY <2>2 DEF Ends, memory
    <3> QED
      BY <1>1, <2>1, <2>2, <3>1, ShelvesStay
  <2>3. CASE /\ cands' \in Shelf /\ ShelfInv(cands') /\ pc' = "segmentation"
             /\ saved'.cands = Rekeyed(cands')
    <3>1. leadsTo \in Webs /\ seed \in Submitted \cup {None}
      BY <1>1 DEF PlanInv
    <3>2. ShelfInv(saved'.cands) /\ Keyed(saved'.cands)
      BY <2>3, <3>1, RowsKeepTheShelf
    <3>3. ShelfInv(cands)' /\ ShelfInv(saved.cands)' /\ Keyed(saved.cands)'
      BY <2>1, <2>3, <3>2, ShelfCarries DEF Keyed, Known
    <3> QED
      BY <2>3, <3>3 DEF CandInv
  <2> QED
    BY <2>1, <2>2, <2>3
<1>12. CASE Segment \/ Provenance
  <2>1. UNCHANGED <<leadsTo, seed, plan, cands, saved>> /\ pc' \in {"provenance", "ended"}
    BY <1>12 DEF Segment, Provenance, Ends, memory, durable
  <2> QED
    BY <1>1, <2>1, ShelvesStay
<1> QED
  BY <1>3, <1>4, <1>5, <1>6, <1>7, <1>8, <1>9, <1>10, <1>11, <1>12 DEF Next

-----------------------------------------------------------------------------
(* The article, the selection and what extraction leaves behind.           *)

\* A step that neither selects, reads nor searches: what the run holds from the
\* preflight on stays, or is out of use.
LEMMA QuietSteps ==
  ASSUME PlanInv, Redeliver \/ Understand \/ Plan \/ Repair \/ Segment \/ Provenance
  PROVE  /\ UNCHANGED <<seed, leadsTo>>
         /\ \/ pc' \in Early \cup {"discovery", "ended"}
            \/ /\ pc = "segmentation" /\ pc' = "provenance" /\ UNCHANGED <<durable, memory>>
<1>1. CASE Redeliver
  BY <1>1 DEF Redeliver, Delivered, PlanInv, Early, durable
<1>2. CASE Understand \/ Plan \/ Repair
  BY <1>2 DEF Understand, Plan, Repair, Accept, Ends, Early, durable
<1>3. CASE Segment \/ Provenance
  BY <1>3 DEF Segment, Provenance, Ends, durable
<1> QED
  BY <1>1, <1>2, <1>3

LEMMA SeedStep ==
  ASSUME IInv, Next
  PROVE  SeedInv'
<1>1. /\ PlanInv /\ CandInv /\ SeedInv
      /\ (seed # None => seed \in Urls) /\ resume \in {"intake", "decomposition", "planner", "discovery"}
  BY InputAssumption DEF IInv, PlanInv
<1> USE DEF Early, BeforeSearch, Selected
<1>2. ASSUME UNCHANGED seed, seed \in From(cands, "submitted") => seed \in From(cands', "submitted"),
             pc \in {"phase_one", "gate"} \cup Selected
      PROVE  SeedInv'
  BY <1>1, <1>2 DEF SeedInv, From, Known
<1>3. CASE Redeliver \/ Understand \/ Plan \/ Repair \/ Segment \/ Provenance
  BY <1>1, <1>3, QuietSteps DEF SeedInv, memory
<1>4. CASE Preflight
  <2>1. seed # None => cands'[seed] # None /\ cands'[seed].origin = "submitted"
    BY <1>4, PreflightKeepsTheShelf
  <2> QED
    BY <1>4, <2>1 DEF Preflight, SeedInv, durable
<1>5. CASE SearchPhaseOne \/ SearchReserve
  <2>1. /\ UNCHANGED durable /\ pc \in {"phase_one", "gate"}
        /\ From(cands, "submitted") \subseteq From(cands', "submitted")
    BY <1>1, <1>5, SearchEffects
  <2> QED
    BY <1>2, <2>1 DEF durable
<1>6. CASE Select
  <2>1. /\ UNCHANGED <<seed, resume>> /\ pc = "gate" /\ resume = "discovery"
        /\ From(cands, "submitted") \subseteq From(saved'.cands, "submitted")
        /\ Delivered(saved') \/ Ends(ending') \/ cands' = saved'.cands
    BY <1>1, <1>6, SelectEffects
  <2>2. CASE Delivered(saved') \/ Ends(ending')
    BY <2>1, <2>2 DEF Delivered, Ends, SeedInv
  <2>3. CASE cands' = saved'.cands
    BY <1>2, <2>1, <2>3
  <2> QED
    BY <2>1, <2>2, <2>3
<1>7. CASE Retrieve
  <2>1. /\ UNCHANGED durable /\ pc = "retrieval" /\ resume = "discovery"
        /\ \/ Delivered(saved)
           \/ Ends(ending')
           \/ /\ Known(cands') = Known(cands)
              /\ \A u \in Known(cands) : cands'[u].origin = cands[u].origin
    BY <1>1, <1>7, RetrieveEffects
  <2>2. CASE Delivered(saved) \/ Ends(ending')
    BY <2>1, <2>2 DEF Delivered, Ends, SeedInv
  <2>3. CASE /\ Known(cands') = Known(cands)
             /\ \A u \in Known(cands) : cands'[u].origin = cands[u].origin
    BY <1>2, <2>1, <2>3 DEF From, durable
  <2> QED
    BY <2>1, <2>2, <2>3
<1>8. CASE Extract
  <2>1. /\ UNCHANGED <<leadsTo, seed>> /\ pc = "extraction"
        /\ \/ Ends(ending')
           \/ /\ Known(cands') = Known(cands)
              /\ \A u \in Known(cands) : cands'[u].origin = cands[u].origin
    BY <1>1, <1>8, ExtractEffects
  <2>2. CASE Ends(ending')
    BY <2>2 DEF Ends, SeedInv
  <2>3. CASE /\ Known(cands') = Known(cands)
             /\ \A u \in Known(cands) : cands'[u].origin = cands[u].origin
    BY <1>2, <2>1, <2>3 DEF From
  <2> QED
    BY <2>1, <2>2, <2>3
<1> QED
  BY <1>3, <1>4, <1>5, <1>6, <1>7, <1>8 DEF Next

LEMMA SizeStep ==
  ASSUME IInv, Next
  PROVE  SizeInv'
<1>1. PlanInv /\ CandInv /\ SeedInv /\ SizeInv
  BY DEF IInv
<1> USE DEF Early, Selected
<1>2. CASE Redeliver \/ Understand \/ Plan \/ Repair \/ Segment \/ Provenance
  BY <1>1, <1>2, QuietSteps DEF SizeInv, memory, Known
<1>3. CASE Preflight \/ SearchPhaseOne \/ SearchReserve
  BY <1>1, <1>3, SearchEffects DEF Preflight, SizeInv
<1>4. CASE Select
  <2>1. /\ UNCHANGED resume /\ resume = "discovery"
        /\ Delivered(saved') \/ Ends(ending') \/ Cardinality(Known(cands')) \in 1..DepthLimit
    BY <1>1, <1>4, SelectEffects
  <2> QED
    BY <2>1 DEF Delivered, Ends, SizeInv, Known
<1>5. CASE Retrieve
  <2>1. /\ pc = "retrieval" /\ resume = "discovery"
        /\ Delivered(saved) \/ Ends(ending') \/ Known(cands') = Known(cands)
    BY <1>1, <1>5, RetrieveEffects
  <2> QED
    BY <1>1, <2>1 DEF Delivered, Ends, SizeInv, Known
<1>6. CASE Extract
  <2>1. pc = "extraction" /\ (Ends(ending') \/ Known(cands') = Known(cands))
    BY <1>1, <1>6, ExtractEffects
  <2> QED
    BY <1>1, <2>1 DEF Ends, SizeInv, Known
<1> QED
  BY <1>2, <1>3, <1>4, <1>5, <1>6 DEF Next

\* What is read is rejected or borne out, and what is not told as a gap has an
\* authority.
LEMMA AuthorityStep ==
  ASSUME IInv, Next
  PROVE  AuthorityIsReadAndRegistered' /\ GapInv' /\ GapsAreTold'
<1>1. /\ PlanInv /\ CandInv /\ SeedInv
      /\ AuthorityIsReadAndRegistered /\ GapInv /\ GapsAreTold
  BY DEF IInv
<1> USE DEF Early
<1>2. ASSUME pc' \in Early \cup {"discovery", "ended"}
      PROVE  AuthorityIsReadAndRegistered' /\ GapInv' /\ GapsAreTold'
  BY <1>2 DEF AuthorityIsReadAndRegistered, GapInv, GapsAreTold
<1>3. ASSUME pc \in {"phase_one", "gate", "retrieval"}, UNCHANGED <<auth, gap>>,
             pc' \in {"phase_one", "gate", "retrieval"}
      PROVE  AuthorityIsReadAndRegistered' /\ GapInv' /\ GapsAreTold'
  BY <1>1, <1>3 DEF AuthorityIsReadAndRegistered, GapInv, GapsAreTold
<1>4. CASE Redeliver \/ Understand \/ Plan \/ Repair \/ Segment \/ Provenance
  <2>1. \/ pc' \in Early \cup {"discovery", "ended"}
        \/ pc = "segmentation" /\ pc' = "provenance" /\ UNCHANGED <<durable, memory>>
    BY <1>1, <1>4, QuietSteps
  <2>2. CASE pc = "segmentation" /\ pc' = "provenance" /\ UNCHANGED <<durable, memory>>
    BY <1>1, <2>2
      DEF AuthorityIsReadAndRegistered, GapInv, GapsAreTold, OfProfile, From, Known, memory
  <2> QED
    BY <1>2, <2>1, <2>2
<1>5. CASE Preflight
  <2>1. /\ pc' = "phase_one"
        /\ \A p \in Claims : gap'[p] = "none" => p \in Profiles /\ auth'[p] = "verified"
    BY <1>5, PreflightKeepsTheShelf DEF Preflight
  <2> QED
    BY <2>1 DEF AuthorityIsReadAndRegistered, GapInv, GapsAreTold
<1>6. CASE SearchPhaseOne \/ SearchReserve
  <2>1. pc' = "gate" /\ pc \in {"phase_one", "gate"} /\ UNCHANGED <<auth, gap>>
    BY <1>1, <1>6, SearchEffects
  <2> QED
    BY <1>3, <2>1
<1>7. CASE Select
  <2>1. /\ UNCHANGED resume /\ resume = "discovery" /\ pc = "gate"
        /\ \/ Delivered(saved') \/ Ends(ending')
           \/ pc' = "retrieval" /\ UNCHANGED <<auth, gap>>
    BY <1>1, <1>7, SelectEffects
  <2>2. CASE Delivered(saved') \/ Ends(ending')
    BY <1>2, <2>1, <2>2 DEF Delivered, Ends
  <2> QED
    BY <1>3, <2>1, <2>2
<1>8. CASE Retrieve
  <2>1. /\ resume = "discovery" /\ pc = "retrieval" /\ UNCHANGED durable
        /\ \/ Delivered(saved) \/ Ends(ending')
           \/ /\ \A p \in Claims :
                   gap'[p] = "none" /\ OfProfile(cands', p) = {} => gap[p] = "none"
              /\ pc' = "extraction" /\ UNCHANGED auth
    BY <1>1, <1>8, RetrieveEffects
  <2>2. CASE Delivered(saved) \/ Ends(ending')
    BY <1>2, <2>1, <2>2 DEF Delivered, Ends
  <2>3. CASE /\ \A p \in Claims :
                   gap'[p] = "none" /\ OfProfile(cands', p) = {} => gap[p] = "none"
             /\ pc' = "extraction" /\ UNCHANGED auth
    <3>1. \A p \in Claims : gap'[p] = "none" /\ OfProfile(cands', p) = {} =>
            p \in Profiles /\ auth'[p] = "verified"
      BY <1>1, <2>1, <2>3 DEF GapInv
    <3> QED
      BY <2>3, <3>1 DEF AuthorityIsReadAndRegistered, GapInv, GapsAreTold, OfProfile, Known
  <2> QED
    BY <2>1, <2>2, <2>3
<1>9. CASE Extract
  <2>1. /\ pc = "extraction"
        /\ \/ Ends(ending')
           \/ /\ ShelfInv(cands')
              /\ \A u \in From(cands', "authority") :
                   cands'[u].match # "rejected" => snap'[u] = "read"
              /\ \A p \in Claims : gap'[p] = "none" =>
                   \/ \E u \in OfProfile(cands', p) : cands'[u].match = "document"
                   \/ /\ OfProfile(cands', p) = {} /\ OfProfile(cands, p) = {}
                      /\ gap[p] = "none"
              /\ pc' = "segmentation" /\ UNCHANGED auth
    BY <1>1, <1>9, ExtractEffects
  <2>2. CASE Ends(ending')
    BY <1>2, <2>2 DEF Ends
  <2>3. CASE /\ ShelfInv(cands')
             /\ \A u \in From(cands', "authority") :
                  cands'[u].match # "rejected" => snap'[u] = "read"
             /\ \A p \in Claims : gap'[p] = "none" =>
                  \/ \E u \in OfProfile(cands', p) : cands'[u].match = "document"
                  \/ /\ OfProfile(cands', p) = {} /\ OfProfile(cands, p) = {}
                     /\ gap[p] = "none"
             /\ pc' = "segmentation" /\ UNCHANGED auth
    <3>1. \A u \in From(cands', "authority") : cands'[u].match # "rejected" =>
            cands'[u].canon \in Registered[cands'[u].claim]
      BY <2>3 DEF ShelfInv, From
    <3>2. AuthorityIsReadAndRegistered'
      BY <2>3, <3>1 DEF AuthorityIsReadAndRegistered, From, Known
    <3>3. ASSUME NEW p \in Claims, gap'[p] = "none"
          PROVE  \/ \E u \in OfProfile(cands', p) : cands'[u].match = "document"
                 \/ OfProfile(cands', p) = {} /\ p \in Profiles /\ auth'[p] = "verified"
      BY <1>1, <2>1, <2>3, <3>3 DEF GapInv
    <3>4. GapsAreTold'
      BY <3>3 DEF GapsAreTold, OfProfile, Known, Claims
    <3>5. GapInv'
      BY <2>3 DEF GapInv
    <3> QED
      BY <3>2, <3>4, <3>5
  <2> QED
    BY <2>1, <2>2, <2>3
<1> QED
  BY <1>4, <1>5, <1>6, <1>7, <1>8, <1>9 DEF Next

-----------------------------------------------------------------------------
(* The queries.                                                            *)

LEMMA AnsweredStep ==
  ASSUME IInv, Next
  PROVE  AnsweredOnce'
<1>1. /\ PlanInv /\ CandInv /\ SeedInv /\ AnsweredOnce
      /\ plan # None => /\ exec \in [DOMAIN plan -> QueryStates]
                        /\ saved.exec \in [DOMAIN plan -> QueryStates]
  BY DEF IInv, PlanInv
<1>2. ASSUME exec' = saved'.exec
      PROVE  AnsweredOnce'
  BY <1>2 DEF AnsweredOnce
<1>3. ASSUME exec' = exec, saved'.exec = saved.exec
      PROVE  AnsweredOnce'
  BY <1>1, <1>3 DEF AnsweredOnce
<1>4. CASE Redeliver
  BY <1>2, <1>4 DEF Redeliver, Delivered, durable
<1>5. CASE Understand
  BY <1>3, <1>5 DEF Understand, Ends, durable, memory
<1>6. CASE (Plan \/ Repair) /\ pc' # "discovery"
  BY <1>3, <1>6 DEF Plan, Repair, Accept, Ends, durable, memory
<1>7. CASE (Plan \/ Repair) /\ pc' = "discovery"
  BY <1>1, <1>2, <1>7, AcceptEffects
<1>8. CASE Preflight
  BY <1>3, <1>8 DEF Preflight, durable
<1>9. CASE SearchPhaseOne \/ SearchReserve
  <2>1. /\ plan # None /\ UNCHANGED durable
        /\ \A q \in DOMAIN plan : exec[q].status = "answered" => exec'[q] = exec[q]
    BY <1>1, <1>9, SearchEffects
  <2>2. saved' = saved /\ DOMAIN saved.exec = DOMAIN plan
    BY <1>1, <2>1 DEF durable
  <2> QED
    BY <1>1, <2>1, <2>2 DEF AnsweredOnce
<1>10. CASE Select
  <2>1. /\ plan # None /\ saved'.exec \in [DOMAIN plan -> QueryStates]
        /\ \/ Delivered(saved')
           \/ exec' = saved'.exec
           \/ Ends(ending')
    BY <1>1, <1>10, SelectEffects
  <2>2. CASE Ends(ending')
    <3>1. Ends(ending') => exec' = exec
      BY DEF Ends, memory
    <3>2. PICK e : e = Skipped
      OBVIOUS
    <3>3. \/ saved' = SearchSaved(Skipped, saved'.cands)
          \/ exec' = saved'.exec
      BY <1>10 DEF Select, SearchSaved
    <3>4. \A q \in DOMAIN plan : e[q].status = "answered" => exec[q].status = "answered"
      BY <1>1, <2>1, <3>2, SkippedKeepsAnswers
    <3>5. saved' = SearchSaved(Skipped, saved'.cands) => saved'.exec = e
      BY <3>2 DEF SearchSaved
    <3> QED
      BY <1>1, <1>2, <2>1, <2>2, <3>1, <3>3, <3>4, <3>5 DEF AnsweredOnce
  <2> QED
    BY <1>2, <2>1, <2>2 DEF Delivered
<1>11. CASE Retrieve
  <2>1. UNCHANGED durable /\ (Delivered(saved) \/ Ends(ending') \/ UNCHANGED exec)
    BY <1>1, <1>11, RetrieveEffects
  <2> QED
    BY <1>2, <1>3, <2>1 DEF Delivered, Ends, durable, memory
<1>12. CASE Extract
  <2>1. (Ends(ending') /\ UNCHANGED saved) \/ (saved'.exec = saved.exec /\ UNCHANGED exec)
    BY <1>1, <1>12, ExtractEffects
  <2> QED
    BY <1>3, <2>1 DEF Ends, memory
<1>13. CASE Segment \/ Provenance
  BY <1>3, <1>13 DEF Segment, Provenance, Ends, memory, durable
<1> QED
  BY <1>4, <1>5, <1>6, <1>7, <1>8, <1>9, <1>10, <1>11, <1>12, <1>13 DEF Next

LEMMA ReserveIsFinite ==
  ASSUME NEW d \in Drafts, NEW A
  PROVE  IsFiniteSet(Reserve(d) \cap A) /\ Cardinality(Reserve(d) \cap A) \in Nat
<1>1. Len(d) \in Nat /\ DOMAIN d = 1..Len(d) /\ Reserve(d) \subseteq DOMAIN d
  BY InputAssumption DEF Reserve, First
<1>2. IsFiniteSet(1..Len(d))
  BY <1>1, FS_Interval
<1>3. IsFiniteSet(Reserve(d) \cap A)
  BY <1>1, <1>2, FS_Subset
<1> QED
  BY <1>3, FS_CardinalityType

\* A delivery starts its count of rounds from none.
LEMMA FirstRounds ==
  ASSUME PlanInv', rounds' \in {0, 1}, pc' \in Early \cup BeforeSearch => rounds' = 0
  PROVE  RoundInv'
<1>1. CASE plan' # None
  <2>1. plan' \in Drafts
    BY <1>1 DEF PlanInv
  <2>2. Cardinality(Reserve(plan') \cap Attempted') \in Nat
    BY <2>1, ReserveIsFinite
  <2>3. rounds' <= 1 + Cardinality(Reserve(plan') \cap Attempted')
    BY <2>2
  <2> QED
    BY <2>3 DEF RoundInv
<1> QED
  BY <1>1 DEF RoundInv

\* What does not undo an attempt or a decision leaves the bound on rounds.
LEMMA RoundsCarry ==
  ASSUME RoundInv, UNCHANGED <<plan, rounds>>, pc' \notin Early \cup BeforeSearch,
         plan # None,
         exec \in [DOMAIN plan -> QueryStates], exec' \in [DOMAIN plan -> QueryStates],
         \A q \in DOMAIN plan :
           /\ exec'[q].asked = exec[q].asked
           /\ \/ exec'[q].status = exec[q].status
              \/ exec[q].status = "planned" /\ exec'[q].status = "not_needed"
              \/ exec[q].status = "planned" /\ exec[q].asked /\ exec'[q].status = "answered"
  PROVE  RoundInv'
<1>1. Attempted' = Attempted
  <2>1. \A q \in DOMAIN plan : (exec'[q].status = "answered" \/ exec'[q].asked)
                                <=> (exec[q].status = "answered" \/ exec[q].asked)
    OBVIOUS
  <2> QED
    BY <2>1 DEF Attempted
<1>2. \A q \in DOMAIN plan : exec[q].status = "not_needed" => exec'[q].status = "not_needed"
  OBVIOUS
<1>3. DOMAIN exec = DOMAIN plan /\ DOMAIN exec' = DOMAIN plan
  OBVIOUS
<1> QED
  BY <1>1, <1>2, <1>3 DEF RoundInv

\* A batch of the reserve tries a query, or a query was given up.
LEMMA ReserveRound ==
  ASSUME IInv, SearchReserve
  PROVE  RoundInv'
<1>1. /\ PlanInv /\ CandInv /\ pc = "gate" /\ plan # None /\ plan \in Drafts
      /\ exec \in [DOMAIN plan -> QueryStates] /\ rounds \in Nat
      /\ \/ rounds <= 1 + Cardinality(Reserve(plan) \cap Attempted)
         \/ \E q \in DOMAIN plan : exec[q].status = "not_needed"
  BY PolicyAssumption DEF SearchReserve, IInv, PlanInv, RoundInv, Early
<1>2. /\ Search(NextBatch) /\ NextBatch \subseteq DOMAIN plan
      /\ NextBatch \subseteq Reserve(plan) /\ NextBatch # {}
  BY BatchesAreOfThePlan DEF SearchReserve
<1>3. /\ exec' \in [DOMAIN plan -> QueryStates]
      /\ \A q \in DOMAIN plan :
           IF q \in NextBatch /\ exec[q].status = "planned"
           THEN exec'[q].status \in {"planned", "answered"} /\ exec'[q].asked
           ELSE exec'[q] = exec[q]
      /\ pc' = "gate" /\ plan' = plan
  BY <1>1, <1>2, SearchKeepsTheShelf DEF durable
<1>4. rounds' \in Nat /\ rounds' <= rounds + 1
  BY <1>1, SearchEffects, PolicyAssumption
<1>5. CASE \E q \in DOMAIN plan : exec[q].status = "not_needed"
  <2>1. \E q \in DOMAIN exec' : exec'[q].status = "not_needed"
    BY <1>3, <1>5
  <2> QED
    BY <1>3, <2>1 DEF RoundInv, Early, BeforeSearch
<1>6. CASE /\ ~(\E q \in DOMAIN plan : exec[q].status = "not_needed")
           /\ rounds <= 1 + Cardinality(Reserve(plan) \cap Attempted)
  <2>1. PICK q \in NextBatch : exec[q].status # "not_needed"
    BY <1>2, <1>6
  <2>2. q \in DOMAIN plan /\ q \in Reserve(plan) /\ q \notin Attempted
    BY <1>2 DEF NextBatch, First
  <2>3. exec[q].status = "planned"
    BY <1>1, <2>1, <2>2 DEF Attempted, QueryStates
  <2>4. q \in Attempted'
    BY <1>2, <1>3, <2>2, <2>3 DEF Attempted
  <2>5. Attempted \subseteq Attempted'
    BY <1>1, <1>3 DEF Attempted
  <2> DEFINE before == Reserve(plan) \cap Attempted
             after == Reserve(plan) \cap Attempted'
  <2>6. /\ IsFiniteSet(before) /\ Cardinality(before) \in Nat
        /\ IsFiniteSet(after) /\ Cardinality(after) \in Nat
    BY <1>1, ReserveIsFinite
  <2>7. before \cup {q} \subseteq after /\ q \notin before
    BY <2>2, <2>4, <2>5
  <2> HIDE DEF before, after
  <2>8. IsFiniteSet(before \cup {q}) /\ Cardinality(before \cup {q}) = Cardinality(before) + 1
    BY <2>6, <2>7, FS_AddElement
  <2>9. Cardinality(before \cup {q}) <= Cardinality(after)
    BY <2>6, <2>7, FS_Subset
  <2>10. rounds' <= 1 + Cardinality(after)
    BY <1>1, <1>4, <1>6, <2>6, <2>8, <2>9 DEF before
  <2> QED
    BY <1>3, <2>10 DEF RoundInv, Early, BeforeSearch, after
<1> QED
  BY <1>1, <1>5, <1>6

LEMMA RoundStep ==
  ASSUME IInv, Next
  PROVE  RoundInv'
<1>1. /\ PlanInv /\ PlanInv' /\ CandInv /\ SeedInv /\ RoundInv
      /\ plan # None => exec \in [DOMAIN plan -> QueryStates]
  BY PlanStep DEF IInv, PlanInv
<1> USE DEF Early, BeforeSearch
<1>2. ASSUME UNCHANGED <<plan, rounds, exec>>,
             pc' \in Early \cup BeforeSearch => pc \in Early \cup BeforeSearch
      PROVE  RoundInv'
  BY <1>1, <1>2 DEF RoundInv, Attempted
<1>3. CASE Redeliver
  BY <1>1, <1>3, FirstRounds DEF Redeliver, Delivered
<1>4. CASE Understand \/ Plan \/ Repair
  <2>1. pc \in Early /\ UNCHANGED rounds
    BY <1>4 DEF Understand, Plan, Repair, Accept, Ends, memory
  <2> QED
    BY <1>1, <2>1, FirstRounds DEF RoundInv
<1>5. CASE Preflight
  BY <1>2, <1>5 DEF Preflight, durable
<1>6. CASE SearchPhaseOne
  <2>1. /\ pc = "phase_one" /\ pc' = "gate"
        /\ rounds' \in 0..MaxRounds /\ rounds' <= rounds + 1
    BY <1>1, <1>6, SearchEffects DEF SearchPhaseOne
  <2>2. rounds' \in {0, 1}
    BY <1>1, <2>1, PolicyAssumption DEF RoundInv
  <2> QED
    BY <1>1, <2>1, <2>2, FirstRounds
<1>7. CASE SearchReserve
  BY <1>7, ReserveRound
<1>8. CASE Select
  <2>1. /\ plan # None /\ UNCHANGED <<plan, resume>> /\ pc = "gate"
        /\ saved'.exec \in [DOMAIN plan -> QueryStates]
        /\ \A q \in DOMAIN plan :
             /\ saved'.exec[q].asked = exec[q].asked
             /\ \/ saved'.exec[q].status = exec[q].status
                \/ exec[q].status = "planned" /\ saved'.exec[q].status = "not_needed"
                \/ /\ exec[q].status = "planned" /\ exec[q].asked
                   /\ saved'.exec[q].status = "answered"
        /\ \/ Delivered(saved')
           \/ Ends(ending')
           \/ exec' = saved'.exec /\ pc' = "retrieval" /\ UNCHANGED rounds
    BY <1>1, <1>8, SelectEffects
  <2>2. CASE Delivered(saved')
    BY <1>1, <2>2, FirstRounds DEF Delivered
  <2>3. CASE Ends(ending')
    BY <1>2, <2>1, <2>3 DEF Ends, memory
  <2>4. CASE exec' = saved'.exec /\ pc' = "retrieval" /\ UNCHANGED rounds
    BY <1>1, <2>1, <2>4, RoundsCarry
  <2> QED
    BY <2>1, <2>2, <2>3, <2>4
<1>9. CASE Retrieve
  <2>1. /\ UNCHANGED durable
        /\ \/ Delivered(saved)
           \/ Ends(ending')
           \/ pc' = "extraction" /\ UNCHANGED <<exec, rounds>>
    BY <1>1, <1>9, RetrieveEffects
  <2>2. CASE Delivered(saved)
    BY <1>1, <2>2, FirstRounds DEF Delivered
  <2>3. CASE Ends(ending')
    BY <1>2, <2>1, <2>3 DEF Ends, memory, durable
  <2>4. CASE pc' = "extraction" /\ UNCHANGED <<exec, rounds>>
    BY <1>2, <2>1, <2>4 DEF durable
  <2> QED
    BY <2>1, <2>2, <2>3, <2>4
<1>10. CASE Extract
  <2>1. /\ UNCHANGED plan
        /\ Ends(ending') \/ (pc' = "segmentation" /\ UNCHANGED <<exec, rounds>>)
    BY <1>1, <1>10, ExtractEffects
  <2> QED
    BY <1>2, <2>1 DEF Ends, memory
<1>11. CASE Segment \/ Provenance
  BY <1>2, <1>11 DEF Segment, Provenance, Ends, memory, durable
<1> QED
  BY <1>3, <1>4, <1>5, <1>6, <1>7, <1>8, <1>9, <1>10, <1>11 DEF Next

-----------------------------------------------------------------------------
(* The theorems.                                                           *)

LEMMA InitInv == Init => IInv
<1> SUFFICES ASSUME Init PROVE IInv
  OBVIOUS
<1>1. /\ plan = None /\ resume = "intake" /\ pc = "intake" /\ delivery = 1 /\ rounds = 0
      /\ exec = Fresh /\ saved = Unsaved /\ cands = Blank /\ auth = Unsaved.auth /\ gap = NoGap
      /\ leadsTo \in Webs /\ seed \in Submitted \cup {None}
  BY DEF Init
<1>2. Blank \in Shelf /\ NoGap \in [Claims -> Gaps] /\ Unsaved.auth \in Preflights
  BY DEF Blank, Shelf, NoGap, Gaps, Unsaved, Preflights
<1>3. Unsaved \in Rows /\ Unsaved.cands = Blank /\ Unsaved.exec = Fresh
  BY <1>2 DEF Unsaved, Rows, Executions
<1>4. PlanInv
  BY <1>1, <1>2, <1>3, PolicyAssumption
    DEF PlanInv, Stages, Early, BeforeSearch, Selected
<1>5. CandInv
  BY <1>1, <1>3, BlankShelf DEF CandInv
<1>6. /\ SeedInv /\ SizeInv /\ RoundInv /\ GapInv
      /\ AuthorityIsReadAndRegistered /\ GapsAreTold
  BY <1>1 DEF SeedInv, SizeInv, RoundInv, GapInv, AuthorityIsReadAndRegistered,
    GapsAreTold, Selected
<1>7. AnsweredOnce
  BY <1>1, <1>3 DEF AnsweredOnce
<1> QED
  BY <1>4, <1>5, <1>6, <1>7 DEF IInv

LEMMA InductiveInvariant == Spec => []IInv
<1>1. IInv /\ [Next]_vars => IInv'
  <2> SUFFICES ASSUME IInv, [Next]_vars PROVE IInv'
    OBVIOUS
  <2>1. CASE Next
    BY <2>1, PlanStep, CandStep, SeedStep, SizeStep, RoundStep, AnsweredStep, AuthorityStep
      DEF IInv
  <2>2. CASE UNCHANGED vars
    <3> USE <2>2 DEF IInv, vars
    <3>1. PlanInv'
      BY DEF PlanInv
    <3>2. CandInv'
      BY DEF CandInv, ShelfInv, Keyed, Known, Paths
    <3>3. SeedInv' /\ SizeInv'
      BY DEF SeedInv, SizeInv, Known
    <3>4. RoundInv' /\ GapInv'
      BY DEF RoundInv, Attempted, GapInv, OfProfile, Known
    <3>5. AnsweredOnce' /\ AuthorityIsReadAndRegistered' /\ GapsAreTold'
      BY DEF AnsweredOnce, AuthorityIsReadAndRegistered, GapsAreTold, OfProfile, From, Known
    <3> QED
      BY <3>1, <3>2, <3>3, <3>4, <3>5
  <2> QED
    BY <2>1, <2>2
<1> QED
  BY InitInv, <1>1, PTL DEF Spec

\* The shelf in memory and in rows holds candidates of the plan's paths, an
\* authority record is one with a claim, and a selection is not empty and within
\* the limit of the depth.
THEOREM TypeCorrect == Spec => []TypeOK
<1>1. IInv => TypeOK
  <2> SUFFICES ASSUME IInv PROVE TypeOK
    OBVIOUS
  <2>1. \A c \in {cands, saved.cands}, u \in Urls :
          c[u] # None => /\ c[u] \in Candidates
                         /\ (c[u].claim # None) = (c[u].origin = "authority")
                         /\ c[u].covers \subseteq Paths
    <3>1. cands \in Shelf /\ saved.cands \in Shelf
      BY DEF IInv, PlanInv, Rows
    <3>2. ShelfInv(cands) /\ ShelfInv(saved.cands)
      BY DEF IInv, CandInv
    <3> QED
      BY <3>1, <3>2 DEF Shelf, ShelfInv, Known
  <2>2. /\ pc \in {"retrieval", "extraction", "segmentation", "provenance"} =>
             Cardinality(Known(cands)) \in 1..DepthLimit
        /\ plan # None => DOMAIN exec = DOMAIN plan
    BY DEF IInv, SizeInv, Selected, PlanInv
  <2>3. /\ seed \in Submitted \cup {None}
        /\ resume \in {"intake", "decomposition", "planner", "discovery"}
        /\ delivery \in 1..MaxDeliveries /\ rounds \in 0..MaxRounds
    BY DEF IInv, PlanInv
  <2> QED
    BY <2>1, <2>2, <2>3 DEF TypeOK
<1> QED
  BY <1>1, InductiveInvariant, PTL

\* Whatever the provider answers, the preflight verifies or a delivery repeats,
\* the article the user submitted is a candidate from the gate on.
THEOREM ArticleSurvives == Spec => []SubmittedUrlSurvives
<1>1. IInv => SubmittedUrlSurvives
  BY DEF IInv, SeedInv, SubmittedUrlSurvives, Selected
<1> QED
  BY <1>1, InductiveInvariant, PTL

\* A query whose answer is in the rows is an answered one in every delivery.
THEOREM NoAnswerIsLost == Spec => []AnsweredOnce
<1>1. IInv => AnsweredOnce
  BY DEF IInv
<1> QED
  BY <1>1, InductiveInvariant, PTL

\* After extraction an authority record that is not rejected was read by this
\* delivery and ended on the registered domain of its holder.
THEOREM AuthorityIsEarned == Spec => []AuthorityIsReadAndRegistered
<1>1. IInv => AuthorityIsReadAndRegistered
  BY DEF IInv
<1> QED
  BY <1>1, InductiveInvariant, PTL

\* After extraction every claim without a gap has a record of its holder that its
\* document bears out, or one the preflight verified and the selection left out.
THEOREM GapsRecorded == Spec => []GapsAreTold
<1>1. IInv => GapsAreTold
  BY DEF IInv
<1> QED
  BY <1>1, InductiveInvariant, PTL

\* As long as no query of the run was given up, phase one and the reserve account
\* for every evaluation of the gate.
THEOREM ReserveBoundsTheRounds == Spec => []BoundedUnlessGivenUp
<1>1. IInv => BoundedUnlessGivenUp
  <2> SUFFICES ASSUME IInv, plan # None,
                      \A q \in DOMAIN exec : exec[q].status # "not_needed"
               PROVE  rounds <= 1 + Cardinality(Reserve(plan))
    BY DEF BoundedUnlessGivenUp
  <2>1. /\ plan \in Drafts /\ rounds \in Nat
        /\ rounds <= 1 + Cardinality(Reserve(plan) \cap Attempted)
    BY PolicyAssumption DEF IInv, PlanInv, RoundInv
  <2>2. /\ IsFiniteSet(Reserve(plan) \cap Reserve(plan))
        /\ Cardinality(Reserve(plan) \cap Attempted) \in Nat
    BY <2>1, ReserveIsFinite
  <2>3. Reserve(plan) \cap Reserve(plan) = Reserve(plan)
    OBVIOUS
  <2>4. /\ Cardinality(Reserve(plan) \cap Attempted) <= Cardinality(Reserve(plan))
        /\ Cardinality(Reserve(plan)) \in Nat
    BY <2>2, <2>3, FS_Subset, FS_CardinalityType
  <2> QED
    BY <2>1, <2>2, <2>4
<1> QED
  BY <1>1, InductiveInvariant, PTL
=============================================================================
