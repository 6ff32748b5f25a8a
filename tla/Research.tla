------------------------------ MODULE Research ------------------------------
(***************************************************************************)
(* The research half of a verification run: the language stages that plan  *)
(* it (intake, decomposition, planner), the two-phase discovery over a     *)
(* search provider with its authority preflight, and the retrieval,        *)
(* extraction and segmentation of the selected sources, with what each     *)
(* stage saves and what a later delivery of the same run finds again.      *)
(*                                                                         *)
(* A delivery keeps its work in memory (exec, auth, gap, cands) and saves  *)
(* it at the end of discovery and of extraction (saved); a later delivery  *)
(* repeats discovery from what was saved.  Words, scores and documents are *)
(* left out: a query is its place in the plan and the evidence path it     *)
(* serves, a search answer a set of URLs, a candidate the way it was found *)
(* and the paths it covers.                                                *)
(***************************************************************************)
EXTENDS Naturals, FiniteSets, Sequences

CONSTANTS
  Urls,             \* canonical URLs
  DomainOf,         \* the domain of a URL
  TitleOf,          \* what a URL is listed as, by title and snippet
  Webs,             \* what a fetch of each URL may end at: itself or a redirect
  Submitted,        \* the URLs a user may submit as an article
  Required,         \* the evidence paths the input demands
  Drafts,           \* the plans the language model may answer with
  Profiles,         \* the claims with registered record holders, in their order
  Ambiguous,        \* the claims whose record holder cannot be told
  Holders,          \* how many record holders a profile has
  Registered,       \* the URLs of a profile's record holders
  PerClaim, PreflightBudget,   \* preflight queries of a claim, and of all
  Answers,          \* the sets of URLs a search may answer with
  PhaseOneTarget, SecondPhaseTarget, BatchSize,     \* DepthSearchPolicy
  MinCandidates, MinDomains, DepthLimit, PerDomain, BroadReserve,
  MaxDeliveries,    \* bound: deliveries of one run
  MaxRounds,        \* bound: further evaluations of the gate are not counted
  None

\* Every depth has room for its article, the page that leads to and a result.
ASSUME PolicyAssumption ==
  /\ {PhaseOneTarget, BatchSize, MaxDeliveries, MaxRounds} \subseteq Nat \ {0}
  /\ {SecondPhaseTarget, MinDomains} \subseteq Nat
  /\ {MinCandidates, DepthLimit, PerDomain, BroadReserve} \subseteq Nat \ {0}
  /\ MinCandidates <= DepthLimit /\ 3 <= DepthLimit

\* A plan is a list; a fetch follows the redirects of a URL to their end; claims
\* have numbers.
ASSUME InputAssumption ==
  /\ \A d \in Drafts : Len(d) \in Nat /\ DOMAIN d = 1..Len(d)
  /\ IsFiniteSet(Urls) /\ Submitted \subseteq Urls
  /\ Webs \subseteq [Urls -> Urls]
  /\ \A web \in Webs, u \in Urls : web[web[u]] = web[u]
  /\ Cardinality(Profiles) \in Nat /\ Profiles = 1..Cardinality(Profiles)
  /\ Ambiguous \cap Profiles = {}

VARIABLES
  leadsTo,    \* the URL a fetch of each URL ends at
  seed,       \* the submitted article URL of the run, if its input is one
  plan,       \* the validated queries, once saved
  resume,     \* the first stage that no delivery has completed
  saved,      \* the durable search rows, candidates and gaps
  attached,   \* the run's source rows: the snapshot each URL points to
  pc, delivery, ending,
  exec,       \* the state of each query in this delivery
  auth,       \* what the preflight of each profile gave
  gap,        \* the authority gap recorded for each claim, if any
  cands,      \* the candidates by URL
  snap,       \* what became of the fetch of each selected candidate
  rounds,     \* evaluations of the gate in this delivery, up to MaxRounds
  hiccup      \* some search of this delivery failed for the moment

vars == <<leadsTo, seed, plan, resume, saved, attached, pc, delivery, ending, exec,
          auth, gap, cands, snap, rounds, hiccup>>
durable == <<leadsTo, seed, plan, resume, saved, attached>>
memory == <<exec, auth, gap, cands, snap, rounds, hiccup>>

Smaller(a, b) == IF a < b THEN a ELSE b
Larger(a, b) == IF a < b THEN b ELSE a
Minus(a, b) == IF a < b THEN 0 ELSE a - b

-----------------------------------------------------------------------------
(* The search policy: the budget, the plan contract and its partition.     *)

Floor == Cardinality(Required)
Budget == Larger(PhaseOneTarget + SecondPhaseTarget, Floor)

\* The best n queries of a set; a plan is ordered by priority.
First(S, n) == {q \in S : Cardinality({p \in S : p < q}) < n}

\* The contract a plan is held to before it is saved.
Valid(d) ==
  /\ Required \subseteq {d[q].path : q \in DOMAIN d}
  /\ Cardinality({d[q].text : q \in DOMAIN d}) = Len(d)
  /\ Len(d) <= Budget

PhaseOneLimit == Smaller(Budget, Larger(PhaseOneTarget, Floor))
Mandatory(d) ==
  UNION {First({q \in DOMAIN d : d[q].path = p}, 1) : p \in Required}
PhaseOne(d) ==
  Mandatory(d) \cup First(DOMAIN d \ Mandatory(d),
                          Minus(PhaseOneLimit, Cardinality(Mandatory(d))))
Reserve(d) ==
  First(DOMAIN d \ PhaseOne(d), Minus(Budget, Cardinality(PhaseOne(d))))

\* Faulty variant of Attempted: a query that failed may be tried again.
AttemptedIfAnswered == {q \in DOMAIN exec : exec[q].status = "answered"}

Attempted == {q \in DOMAIN exec : exec[q].status = "answered" \/ exec[q].asked}
NextBatch ==
  First(Reserve(plan) \ Attempted,
        Smaller(BatchSize, Minus(Budget, Cardinality(Attempted))))

-----------------------------------------------------------------------------
(* Candidates, the gate and the selection.                                 *)

Paths == {plan[q].path : q \in DOMAIN plan}
Origins == {"submitted", "authority", "broad"}
Matches == {"none", "matched", "document", "rejected"}
DraftPaths == UNION {{d[q].path : q \in DOMAIN d} : d \in Drafts}
Candidates == [origin : Origins, match : Matches, claim : Profiles \cup {None},
               canon : Urls, title : {TitleOf[u] : u \in Urls},
               covers : SUBSET DraftPaths]

\* No claim, plan or candidate is taken for none.
ASSUME NoneAssumption ==
  None \notin Profiles /\ None \notin Drafts /\ None \notin Candidates

Candidate(origin, covers, claim, match, url) ==
  [origin |-> origin, covers |-> covers, claim |-> claim, match |-> match,
   canon |-> url, title |-> TitleOf[url]]
Broad(covers, url) == Candidate("broad", covers, None, "none", url)

Known(c) == {u \in Urls : c[u] # None}
From(c, origin) == {u \in Known(c) : c[u].origin = origin}

\* Only what the broad search found counts.
GatePasses(c) ==
  LET broad == From(c, "broad")
  IN  /\ Required \subseteq UNION {c[u].covers : u \in broad}
      /\ Cardinality(broad) >= MinCandidates
      /\ Cardinality({DomainOf[u] : u \in broad}) >= MinDomains

\* The selections of at most n of a pool that respect the cap per domain, have
\* each title and snippet once and leave out nothing else that fits; one with a
\* primary path goes first.
Diverse(c, pool, n) ==
  LET OfDomain(S, d) == {u \in S : DomainOf[u] = d}
      Primary(S) == {u \in S : \E path \in c[u].covers : path[2] = "primary"}
  IN  {S \in SUBSET pool :
         /\ Cardinality(S) <= n
         /\ \A u \in S : Cardinality(OfDomain(S, DomainOf[u])) <= PerDomain
         /\ \A u, v \in S : c[u].title = c[v].title => u = v
         /\ \/ Cardinality(S) = n
            \/ \A u \in pool \ S :
                 \/ Cardinality(OfDomain(S, DomainOf[u])) = PerDomain
                 \/ \E v \in S : c[u].title = c[v].title
         /\ n > 0 /\ Primary(pool) # {} => Primary(S) # {}}

SelectionsOver(c, places, kept) ==
  LET Results(records) ==
        Diverse(c, From(c, "broad"), Minus(places, Cardinality(records)))
  IN  UNION {{From(c, "submitted") \cup records \cup results : results \in Results(records)} :
               records \in Diverse(c, From(c, "authority"), Minus(places, kept))}

\* The candidates that go on to retrieval: the submitted ones, then authority
\* records, then broad results, for which some places are kept.
Selections(c) ==
  LET places == Minus(DepthLimit, Cardinality(From(c, "submitted")))
  IN  SelectionsOver(c, places, Smaller(BroadReserve,
                                  Smaller(Cardinality(From(c, "broad")), places)))

-----------------------------------------------------------------------------
(* Deliveries.                                                             *)

Blank == [u \in Urls |-> None]
Claims == Profiles \cup Ambiguous
NoGap == [p \in Claims |-> "none"]
Fresh == [q \in 1..0 |-> None]
Unsaved == [exec |-> Fresh, auth |-> [p \in Profiles |-> "planned"],
            gap |-> NoGap, cands |-> Blank]

Init ==
  /\ leadsTo \in Webs /\ seed \in Submitted \cup {None}
  /\ plan = None /\ resume = "intake" /\ saved = Unsaved /\ attached = Blank
  /\ pc = "intake" /\ delivery = 1 /\ ending = None
  /\ exec = Fresh /\ auth = Unsaved.auth /\ gap = NoGap /\ cands = Blank
  /\ snap = Blank /\ rounds = 0 /\ hiccup = FALSE

\* Faulty variant of Delivered: a new delivery plans every query again.
DeliveredAfresh(s) ==
  /\ delivery' = delivery + 1 /\ pc' = resume
  /\ exec' = [q \in DOMAIN s.exec |-> [status |-> "planned", asked |-> FALSE]]
  /\ auth' = s.auth /\ gap' = s.gap /\ cands' = s.cands
  /\ snap' = Blank /\ rounds' = 0 /\ hiccup' = FALSE /\ ending' = None

\* A new delivery starts from what is saved; a failed provider call of the
\* preflight was saved as one that ran and found nothing.
Delivered(s) ==
  /\ delivery' = delivery + 1
  /\ pc' = resume
  /\ exec' = s.exec
  /\ auth' = [p \in Profiles |-> IF s.auth[p] = "failed" THEN "empty" ELSE s.auth[p]]
  /\ gap' = s.gap
  /\ cands' = s.cands
  /\ snap' = Blank /\ rounds' = 0 /\ hiccup' = FALSE
  /\ ending' = None

Ends(how) == pc' = "ended" /\ ending' = how /\ UNCHANGED <<delivery, memory>>

\* The task is retried while it has attempts left.
Retry(s) ==
  IF delivery < MaxDeliveries THEN Delivered(s) ELSE Ends("unavailable")

\* The worker dies, or a later stage fails for the moment.
Redeliver ==
  /\ ending \in {None, "analysed"}
  /\ delivery < MaxDeliveries
  /\ Delivered(saved)
  /\ UNCHANGED durable

-----------------------------------------------------------------------------
(* Intake, decomposition and planning.                                     *)

Understand ==
  /\ pc \in {"intake", "decomposition"}
  /\ \/ /\ pc' = IF pc = "intake" THEN "decomposition" ELSE "planner"
        /\ resume' = pc'
        /\ UNCHANGED <<leadsTo, seed, plan, saved, attached, delivery, ending, memory>>
     \/ Ends("refused") /\ UNCHANGED durable

Accept(d) ==
  /\ plan' = d
  /\ exec' = [q \in DOMAIN d |-> [status |-> "planned", asked |-> FALSE]]
  /\ saved' = [saved EXCEPT !.exec = exec']
  /\ resume' = "discovery" /\ pc' = "discovery"
  /\ UNCHANGED <<leadsTo, seed, attached, delivery, ending, auth, gap, cands, snap, rounds, hiccup>>

\* A draft that breaks the contract is regenerated once.
Plan ==
  /\ pc = "planner"
  /\ \E d \in Drafts :
       \/ Valid(d) /\ Accept(d)
       \/ /\ ~Valid(d)
          /\ pc' = "repair"
          /\ UNCHANGED <<durable, delivery, ending, memory>>

Repair ==
  /\ pc = "repair"
  /\ \E d \in Drafts :
       \/ Valid(d) /\ Accept(d)
       \/ ~Valid(d) /\ Ends("plan_refused") /\ UNCHANGED durable

-----------------------------------------------------------------------------
(* Discovery.                                                              *)

\* One query for each record holder, at most PerClaim of a claim, in the order of
\* the claims and while the budget lasts.
PreflightQueries == {x \in Profiles \X (1..PerClaim) : x[2] <= Holders[x[1]]}
Affordable ==
  {p \in Profiles : Cardinality({x \in PreflightQueries : x[1] < p}) < PreflightBudget}

\* A record the preflight verified takes the URL over, serves every path of the
\* claims it was found for and keeps those the URL served; its claim is the last.
Authority(u, claims) ==
  Candidate("authority",
            {path \in Paths : path[1] \in claims}
              \cup (IF cands[u] = None THEN {} ELSE cands[u].covers),
            CHOOSE p \in claims : \A q \in claims : q <= p, "matched", u)

\* What the queries of a profile give together: some holder's record
\* (registered_search_match), other pages only, nothing, or an error of every
\* query; or no query was left for it. They are all sent in one delivery.
PreflightOutcomes == {"verified", "unverified", "empty", "failed", "unsearched"}

GapOf(p, given) ==
  IF p \in Ambiguous THEN "AUTHORITY_PROFILE_AMBIGUOUS"
  ELSE CASE given[p] = "verified"     -> "none"
         [] given[p] = "failed"       -> "PROVIDER_FAILURE"
         [] given[p] = "empty"        -> "NO_SEARCH_RESULTS"
         [] given[p] = "unverified"   -> "NO_VERIFIED_RESULT"
         [] given[p] = "unsearched"   -> "PREFLIGHT_BUDGET_EXHAUSTED"

\* Faulty variant of Seeded: a submitted candidate of an earlier delivery will do.
SeededUnlessSaved(c) ==
  IF seed = None \/ From(c, "submitted") # {} THEN c
  ELSE [c EXCEPT ![seed] = Candidate("submitted", Paths, None, "none", seed)]

\* The article the user submitted is a candidate whatever the search says.
Seeded(c) ==
  IF seed = None THEN c
  ELSE [c EXCEPT ![seed] = Candidate("submitted", Paths, None, "none", seed)]

\* Each profile whose preflight has not run is searched for its record holders,
\* with any of their URLs as verified results; one that is not safe is counted as
\* verified, and left out.
Preflight ==
  /\ pc = "discovery"
  /\ \E given \in [Profiles -> PreflightOutcomes] :
       /\ \A p \in Profiles :
            /\ auth[p] # "planned" => given[p] = auth[p]
            /\ (given[p] = "unsearched") = (p \notin Affordable)
       /\ \E found \in SUBSET {x \in Profiles \X Urls :
                               /\ auth[x[1]] = "planned" /\ given[x[1]] = "verified"
                               /\ x[2] \in Registered[x[1]]} :
            cands' = Seeded([u \in Urls |->
              LET claims == {p \in Profiles : <<p, u>> \in found}
              IN  IF claims = {} THEN cands[u] ELSE Authority(u, claims)])
       /\ auth' = given
       /\ gap' = [p \in Claims |-> GapOf(p, given)]
  /\ pc' = "phase_one"
  /\ UNCHANGED <<durable, delivery, ending, exec, snap, rounds, hiccup>>

Outcomes ==
  {[kind |-> k, urls |-> {}] : k \in {"transient", "refused"}}
    \cup {[kind |-> "answered", urls |-> a] : a \in Answers}

\* A query that failed for the moment stays planned.
Asked(out) ==
  [q \in DOMAIN exec |->
     IF q \in DOMAIN out
     THEN [status |-> IF out[q].kind = "transient" THEN "planned" ELSE "answered",
           asked |-> TRUE]
     ELSE exec[q]]

\* What a result does to the candidate its URL already is: a seed stays what it
\* is, a rejected authority record may be outranked, and so may what is listed
\* under the title of another URL that led here.
Merged(out, outranked) ==
  [u \in Urls |->
     LET hits == {plan[q].path : q \in {r \in DOMAIN out : u \in out[r].urls}}
     IN  IF hits = {} THEN cands[u]
         ELSE IF cands[u] = None THEN Broad(hits, u)
         ELSE IF u \in outranked THEN Broad(cands[u].covers \cup hits, u)
         ELSE [cands[u] EXCEPT !.covers = @ \cup hits]]

Outrankable ==
  {u \in From(cands, "authority") : cands[u].match = "rejected"}
    \cup {u \in From(cands, "broad") : cands[u].title # TitleOf[u]}

\* A batch is sent query by query; one that has its answer, or is not needed,
\* is passed over.
Search(batch) ==
  \E out \in [{q \in batch : exec[q].status = "planned"} -> Outcomes] :
  \E outranked \in SUBSET Outrankable :
    /\ exec' = Asked(out)
    /\ cands' = Merged(out, outranked)
    /\ hiccup' = (hiccup \/ \E q \in DOMAIN out : out[q].kind = "transient")
    /\ rounds' = Smaller(rounds + 1, MaxRounds)
    /\ pc' = "gate"
    /\ UNCHANGED <<durable, delivery, ending, auth, gap, snap>>

SearchPhaseOne == pc = "phase_one" /\ Search(PhaseOne(plan))

\* While the gate is not passed, the reserve is searched batch by batch, even if
\* a batch has nothing to send because an earlier delivery gave its queries up.
SearchReserve ==
  /\ pc = "gate"
  /\ ~GatePasses(cands)
  /\ NextBatch # {}
  /\ Search(NextBatch)

\* The reserve that a passed gate makes superfluous.
Skipped ==
  [q \in DOMAIN exec |->
     IF GatePasses(cands) /\ q \notin PhaseOne(plan) /\ exec[q].status = "planned"
     THEN [exec[q] EXCEPT !.status = "not_needed"] ELSE exec[q]]

\* A query the provider failed counts as run once its run goes on without it.
Closed(e) ==
  [q \in DOMAIN e |->
     IF ~GatePasses(cands) /\ e[q].status = "planned" /\ e[q].asked
     THEN [e[q] EXCEPT !.status = "answered"] ELSE e[q]]

SearchSaved(e, c) == [exec |-> e, auth |-> auth, gap |-> gap, cands |-> c]

Select ==
  /\ pc = "gate"
  /\ GatePasses(cands) \/ NextBatch = {}
  /\ UNCHANGED <<leadsTo, seed, plan, resume, attached>>
  /\ \E chosen \in Selections(cands) :
       LET kept == [u \in Urls |-> IF u \in chosen THEN cands[u] ELSE None]
           nothing == From(kept, "broad") = {} /\ seed = None
       IN  \/ /\ nothing /\ hiccup
              /\ saved' = SearchSaved(Skipped, kept)
              /\ Retry(saved')
           \/ /\ nothing /\ ~hiccup
              /\ saved' = SearchSaved(Skipped, kept)
              /\ Ends("no_results")
           \/ /\ ~nothing
              /\ exec' = Closed(Skipped)
              /\ cands' = kept
              /\ saved' = SearchSaved(exec', kept)
              /\ pc' = "retrieval"
              /\ UNCHANGED <<delivery, ending, auth, gap, snap, rounds, hiccup>>

-----------------------------------------------------------------------------
(* Retrieval, extraction and segmentation.                                 *)

\* What a response ends as: a stored page; refused for its status, type, size or
\* signature; or, if the store is away, to be tried again.
Consumed == {"fetched", "refused", "transient"}

\* What a fetch ends as: the same, an address that is not safe or redirects too
\* often, a cached page, a deadline, the network, the lock of another fetch.
FetchOutcomes == Consumed \cup {"refused", "transient"}

\* holder_for_profile: the URL is on the domain of a holder of the profile.
Held(url, p) == url \in Registered[p]

\* A fetched candidate takes the URL it ended at; an authority record that left
\* its holder's registered domain is one no more.
Resolved(u) ==
  LET c == [cands[u] EXCEPT !.canon = leadsTo[u]]
  IN  IF c.origin = "authority" /\ c.canon # u /\ ~Held(c.canon, c.claim)
      THEN [c EXCEPT !.match = "rejected"] ELSE c

OfProfile(c, p) == {u \in Known(c) : c[u].claim = p}

\* Faulty variant of GapAfter: a profile whose candidates could not be read is left
\* as it is.
GapIfRead(c, p, good, read, missing, blocked) ==
  IF OfProfile(c, p) \cap good # {} THEN "none"
  ELSE IF OfProfile(c, p) \cap read # {} THEN missing ELSE gap[p]

\* The gap of a profile some candidate serves: none when one of them is good.
GapAfter(c, p, good, read, missing, blocked) ==
  IF OfProfile(c, p) = {} THEN gap[p]
  ELSE IF OfProfile(c, p) \cap good # {} THEN "none"
  ELSE IF OfProfile(c, p) \cap read # {} THEN missing
  ELSE blocked

Retrieve ==
  /\ pc = "retrieval"
  /\ UNCHANGED durable
  /\ \E got \in [Known(cands) -> FetchOutcomes] :
       LET fetched == {u \in DOMAIN got : got[u] = "fetched"}
           found == [u \in Urls |-> IF u \in fetched THEN Resolved(u) ELSE cands[u]]
           wait == \E u \in DOMAIN got :
                     got[u] = "transient" /\ cands[u].origin # "submitted"
       IN  \/ /\ fetched # {}
              /\ cands' = found
              /\ snap' = [u \in Urls |-> IF u \notin DOMAIN got THEN None
                                         ELSE IF u \in fetched THEN "fetched" ELSE "missing"]
              /\ gap' = [p \in Claims |->
                   GapAfter(found, p, {u \in fetched : found[u].match # "rejected"},
                            fetched, "NO_VERIFIED_RESULT", "INACCESSIBLE_OR_BLOCKED")]
              /\ pc' = "extraction"
              /\ UNCHANGED <<delivery, ending, exec, auth, rounds, hiccup>>
           \/ fetched = {} /\ wait /\ Retry(saved)
           \/ fetched = {} /\ ~wait /\ Ends("no_sources")

\* Faulty variant of Validated: a document matched once is not read again.
ValidatedOnce(u, match) ==
  LET c == cands[u]
  IN  IF c.origin # "authority" \/ c.match \in {"rejected", "document"} THEN c
      ELSE [c EXCEPT !.match = IF u \in match THEN "document" ELSE "rejected"]

\* An authority record is kept as one only if its document was read and matches.
Validated(u, match) ==
  LET c == cands[u]
  IN  IF c.origin # "authority" \/ c.match = "rejected" THEN c
      ELSE [c EXCEPT !.match = IF u \in match THEN "document" ELSE "rejected"]

\* The place of a candidate in the selected list.
Place(c, u) ==
  CASE c[u].origin = "broad"                  -> 3
    [] c[u].origin = "authority"              -> 2
    [] c[u].origin = "submitted" /\ u = seed  -> 1
    [] c[u].origin = "submitted" /\ u # seed  -> 0

\* Of the candidates that share a key, the last in the list has it.  (Two broad
\* results that redirect to one page are in an order the model fixes.)
Last(c, key) ==
  [w \in {key[u] : u \in Known(c)} |->
     LET Sharing == {u \in Known(c) : key[u] = w}
     IN  CHOOSE u \in Sharing : \A v \in Sharing : Place(c, v) <= Place(c, u)]

\* The source row of a candidate: the submitted ones answer to one name, so
\* they have one row.
RowOf(c) ==
  [u \in Known(c) |->
     IF c[u].origin = "submitted" THEN c[seed].canon ELSE c[u].canon]
CanonOf(c) == [u \in Known(c) |-> c[u].canon]

\* The source rows after this delivery's snapshots are attached.
Attaching(c) ==
  LET row == Last(c, RowOf(c))
  IN  [u \in Urls |-> IF u \in DOMAIN row THEN <<delivery, row[u]>> ELSE attached[u]]

\* The shelf that is saved has each candidate at the URL its fetch ended at.
Rekeyed(c) ==
  LET back == Last(c, CanonOf(c))
  IN  [u \in Urls |-> IF u \in DOMAIN back THEN c[back[u]] ELSE None]

\* A snapshot yields a document or not, whichever parser gets to it.
Readings == SUBSET {u \in Known(cands) : snap[u] = "fetched"}

\* A document bears out its record or not: its role, entity, place, time and the
\* claim itself (registered_document_match).
DocumentMatches(read) == SUBSET (read \cap From(cands, "authority"))

Extract ==
  /\ pc = "extraction"
  /\ UNCHANGED <<leadsTo, seed, plan, resume>>
  /\ \E read \in Readings : \E match \in DocumentMatches(read) :
       \/ /\ read # {}
          /\ cands' = [u \in Urls |->
               IF cands[u] = None THEN None ELSE Validated(u, match)]
          /\ snap' = [u \in Urls |-> IF u \in read THEN "read"
                                     ELSE IF snap[u] = None THEN None ELSE "missing"]
          /\ gap' = [p \in Claims |->
               GapAfter(cands', p, {u \in Known(cands') : cands'[u].match = "document"},
                        read, "NO_EXACT_CLAIM_EVIDENCE", "INACCESSIBLE_OR_BLOCKED")]
          /\ attached' = Attaching(cands')
          /\ saved' = [saved EXCEPT !.auth = auth, !.gap = gap', !.cands = Rekeyed(cands')]
          /\ pc' = "segmentation"
          /\ UNCHANGED <<delivery, ending, exec, auth, rounds, hiccup>>
       \/ /\ read = {}
          /\ Ends("no_text")
          /\ UNCHANGED <<saved, attached>>

\* The candidates whose snapshot of this delivery is on a source row.
Attached == {u \in Known(cands) : attached[RowOf(cands)[u]] = <<delivery, u>>}

\* A passage of a snapshot that no source row holds is refused.
Segment ==
  /\ pc = "segmentation"
  /\ UNCHANGED durable
  /\ \E cut \in SUBSET {u \in Known(cands) : snap[u] = "read"} :
       \/ cut = {} /\ Ends("no_passages")
       \/ cut # {} /\ ~(cut \subseteq Attached) /\ Ends("not_attached")
       \/ /\ cut # {} /\ cut \subseteq Attached
          /\ pc' = "provenance"
          /\ UNCHANGED <<delivery, ending, memory>>

\* Provenance wants each candidate's row; the submitted ones answer to one name.
Provenance ==
  /\ pc = "provenance"
  /\ UNCHANGED durable
  /\ \/ /\ {u \in Known(cands) : Place(cands, u) > 0} \subseteq Attached
        /\ Ends("analysed")
     \/ /\ ~({u \in Known(cands) : Place(cands, u) > 0} \subseteq Attached)
        /\ Ends("not_attached")

Next ==
  \/ Redeliver
  \/ Understand \/ Plan \/ Repair
  \/ Preflight \/ SearchPhaseOne \/ SearchReserve \/ Select
  \/ Retrieve \/ Extract \/ Segment \/ Provenance

Spec == Init /\ [][Next]_vars

-----------------------------------------------------------------------------
(* Properties.                                                             *)

\* The state of discovery and retrieval, in memory and in rows, keeps its types.
TypeOK ==
  /\ seed \in Submitted \cup {None}
  /\ resume \in {"intake", "decomposition", "planner", "discovery"}
  /\ delivery \in 1..MaxDeliveries /\ rounds \in 0..MaxRounds
  /\ \A c \in {cands, saved.cands}, u \in Urls :
       c[u] # None => /\ c[u] \in Candidates
                      /\ (c[u].claim # None) = (c[u].origin = "authority")
                      /\ c[u].covers \subseteq Paths
  /\ pc \in {"retrieval", "extraction", "segmentation", "provenance"} =>
       Cardinality(Known(cands)) \in 1..DepthLimit
  /\ plan # None => DOMAIN exec = DOMAIN plan

\* "It must therefore survive an empty or temporarily unavailable supplementary
\* Brave search" (pipeline.py): no search result, authority record or selection,
\* in any delivery, takes the place of the article the user submitted.
SubmittedUrlSurvives ==
  seed # None /\ pc \in {"gate", "retrieval", "extraction", "segmentation", "provenance"} =>
    cands[seed] # None /\ cands[seed].origin = "submitted"

\* A query whose answer is saved is never sent again, whatever is redelivered
\* and at whichever point the worker died.
AnsweredOnce ==
  \A q \in DOMAIN saved.exec :
    saved.exec[q].status = "answered" => exec[q].status = "answered"

\* A candidate still counts as an authority record after extraction only if this
\* delivery read it and found it on its holder's registered domain.
AuthorityIsReadAndRegistered ==
  pc \in {"segmentation", "provenance"} =>
    \A u \in From(cands, "authority") : cands[u].match # "rejected" =>
      /\ snap[u] = "read"
      /\ cands[u].canon \in Registered[cands[u].claim]

\* No claim that should have an authority goes without either: unless its gap is
\* on record, a record of its holder was read and bears it out, or the preflight
\* verified one and no place was left for it.
GapsAreTold ==
  pc \in {"segmentation", "provenance"} =>
    \A p \in Claims : gap[p] = "none" =>
      \/ \E u \in OfProfile(cands, p) : cands[u].match = "document"
      \/ OfProfile(cands, p) = {} /\ p \in Profiles /\ auth[p] = "verified"

\* A delivery that has no query of an earlier one to pass over evaluates the gate
\* once for phase one and at most once for each query of the reserve, however many
\* of them fail.
BoundedUnlessGivenUp ==
  plan # None /\ (\A q \in DOMAIN exec : exec[q].status # "not_needed") =>
    rounds <= 1 + Cardinality(Reserve(plan))

\* "A deterministic discovery-quality gate opens a bounded second phase" (the case
\* study of the portfolio, line 324): in no delivery is the gate evaluated more
\* often than its reserve allows.
SecondPhaseIsBounded == plan # None => rounds <= 1 + Cardinality(Reserve(plan))
=============================================================================
