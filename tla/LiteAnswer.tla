------------------------------ MODULE LiteAnswer ------------------------------
(***************************************************************************)
(* The Lite demo: a page that numbers its submissions, aborts and clears   *)
(* them, and POST /api/lite/answer, whose handler asks the model stage by  *)
(* stage, audits the draft's citations, writes the run and its citations   *)
(* to Supabase in two requests, and answers.                               *)
(*                                                                         *)
(* A step of the handler ends at an await.  A call may fail for any reason *)
(* (refusal, timeout, prompt over budget, an answer outside its schema),   *)
(* so an abort that reaches the server is one of its failures.             *)
(* Persistence is configured.                                              *)
(***************************************************************************)
EXTENDS FiniteSets, Naturals

CONSTANTS
  Chunk,         \* chunks of the corpus
  Invented,      \* chunk ids the model makes up
  Index,         \* sentence indices the model may give
  MaxSentences,  \* bound on a draft
  MaxSequence,   \* bound on the page's sequence numbers
  MaxSubmissions \* bound on the submissions among them

ASSUME LiteAnswerAssumption ==
  /\ Chunk \intersect Invented = {}
  /\ {MaxSentences, MaxSequence, MaxSubmissions} \subseteq Nat

VARIABLES
  page,      \* the state of LiteWorkspace and its two refs
  request,   \* the page's requests, by sequence number, and their handlers
  runs,      \* lite_runs
  citations  \* lite_run_citations

vars == <<page, request, runs, citations>>

Request == 1..MaxSequence
None == 0

\* The model may number two sentences alike, and cite chunks it was not given.
Sentence == [index : Index, citations : (SUBSET (Chunk \union Invented)) \ {{}}]
Draft == {d \in SUBSET Sentence : Cardinality(d) \in 1..MaxSentences}

\* A response: the context it was made from and the sentences it shows.
NoResponse == [kind |-> "none", run |-> None, chunks |-> {}, sentences |-> {}]
Insufficient(r) == [NoResponse EXCEPT !.kind = "insufficient", !.run = r]
Error(r) == [NoResponse EXCEPT !.kind = "error", !.run = r]

Idle == [sequence |-> 0, controller |-> None, submitting |-> FALSE,
         status |-> "idle", result |-> NoResponse, error |-> FALSE]

\* at: the next await of the handler.
Unsent == [at |-> "none", waiting |-> FALSE, aborted |-> FALSE,
           chunks |-> {}, draft |-> {}, response |-> NoResponse]

Init ==
  /\ page = Idle
  /\ request = [r \in Request |-> Unsent]
  /\ runs = {}
  /\ citations = {}

------------------------------------------------------------------------------
(* The page *)

Abort(q, r) == IF r = None THEN q ELSE [q EXCEPT ![r].aborted = TRUE]

\* runLiteRequest, from the form or the retry button.
Submit ==
  LET r == page.sequence + 1 IN
  /\ ~page.submitting
  /\ page.sequence < MaxSequence
  /\ Cardinality({s \in Request : request[s].at # "none"}) < MaxSubmissions
  /\ page' = [Idle EXCEPT !.sequence = r, !.controller = r, !.submitting = TRUE,
                          !.status = "loading"]
  /\ request' = [Abort(request, page.controller) EXCEPT
                   ![r] = [Unsent EXCEPT !.at = "route", !.waiting = TRUE]]
  /\ UNCHANGED <<runs, citations>>

\* Nothing but blanks: a message next to what the page shows.
SubmitNothing ==
  /\ ~page.submitting
  /\ page' = [page EXCEPT !.error = TRUE]
  /\ UNCHANGED <<request, runs, citations>>

\* cancelLiteRequest
Cancel ==
  /\ page.submitting
  /\ request' = Abort(request, page.controller)
  /\ UNCHANGED <<page, runs, citations>>

\* Faulty variant of Cleared: the page stays in its submission.
ClearedButBusy == [Idle EXCEPT !.sequence = page.sequence + 1,
                               !.submitting = page.submitting]
Cleared == [Idle EXCEPT !.sequence = page.sequence + 1]

\* clearLiteWorkspace
Clear ==
  /\ page.result # NoResponse \/ page.error \/ page.submitting
  /\ page.sequence < MaxSequence
  /\ page' = Cleared
  /\ request' = Abort(request, page.controller)
  /\ UNCHANGED <<runs, citations>>

\* Faulty variant of IsCurrent: whatever arrives is shown.
AlwaysCurrent(r) == TRUE

\* requestSequenceRef.current === requestId
IsCurrent(r) == page.sequence = r

\* Nobody waits; what the handler has answered is gone, what it works on is not.
Unread(q) ==
  [q EXCEPT !.waiting = FALSE,
            !.response = IF q.at = "answered" THEN NoResponse ELSE @]

\* The catch, try and finally of runLiteRequest, once its fetch has settled.
Settle(r, status, response) ==
  /\ page' = IF IsCurrent(r)
             THEN [page EXCEPT !.result = response, !.status = status,
                               !.error = status # "success",
                               !.submitting = FALSE, !.controller = None]
             ELSE page
  /\ request' = [request EXCEPT ![r] = Unread(@)]
  /\ UNCHANGED <<runs, citations>>

Show(r) ==
  LET q == request[r] IN
  /\ q.waiting /\ q.at = "answered" /\ ~q.aborted
  /\ Settle(r, IF q.response.kind = "error" THEN "failure" ELSE "success", q.response)

\* The fetch rejects: aborted, or the connection or the server is gone.
FetchRejects(r) ==
  LET q == request[r] IN
  /\ q.waiting
  /\ Settle(r, IF q.aborted THEN "cancelled" ELSE "failure", NoResponse)

------------------------------------------------------------------------------
(* The handler: answerLiteClaim *)

Handle(r, q) ==
  /\ request' = [request EXCEPT ![r] = q]
  /\ UNCHANGED page

\* jsonLiteResponse; nobody reads the answer of a request that was given up.
Answered(q, response) ==
  [q EXCEPT !.at = "answered", !.chunks = {}, !.draft = {},
            !.response = IF q.waiting THEN response ELSE NoResponse]

\* An answer or a finding of insufficient evidence goes on to be stored.
ToStore(q, response) ==
  [q EXCEPT !.at = "run row", !.chunks = {}, !.draft = {}, !.response = response]

Handles(r, stage) == request[r].at = stage

\* The route refuses (the client's bucket is full, the body does not fit the
\* schema, the input is abusive), the intake does not accept the input, or the
\* call of a stage fails.
Fails(r, q) == Handle(r, Answered(q, Error(r)))

\* Rate limit, body, schema and abuse check have no await but the body's.
Route(r) ==
  LET q == request[r] IN
  /\ Handles(r, "route")
  /\ Fails(r, q) \/ Handle(r, [q EXCEPT !.at = "intake"])
  /\ UNCHANGED <<runs, citations>>

Classify(r) ==
  LET q == request[r] IN
  /\ Handles(r, "intake")
  /\ Fails(r, q) \/ Handle(r, [q EXCEPT !.at = "plan"])
  /\ UNCHANGED <<runs, citations>>

Plan(r) ==
  LET q == request[r] IN
  /\ Handles(r, "plan")
  /\ Fails(r, q) \/ Handle(r, [q EXCEPT !.at = "retrieval"])
  /\ UNCHANGED <<runs, citations>>

\* retrieveLiteChunks: an embedding and its matches, if there is a route for
\* embeddings, then the lexical search; ranked, without duplicates, and cut.
Retrieve(r) ==
  LET q == request[r] IN
  /\ Handles(r, "retrieval")
  /\ \/ Fails(r, q)
     \/ Handle(r, ToStore(q, Insufficient(r)))
     \/ \E chunks \in (SUBSET Chunk) \ {{}} :
          Handle(r, [q EXCEPT !.at = "judge", !.chunks = chunks])
  /\ UNCHANGED <<runs, citations>>

\* judgeLiteEvidence and selectLiteContext, which keeps every chunk: retrieval
\* hands over no more than it selects.  No chunk may be direct evidence, one that
\* supports or contradicts with confidence and was retrieved well.
Judge(r) ==
  LET q == request[r] IN
  /\ Handles(r, "judge")
  /\ \/ Fails(r, q)
     \/ Handle(r, ToStore(q, Insufficient(r)))
     \/ Handle(r, [q EXCEPT !.at = "synthesis"])
  /\ UNCHANGED <<runs, citations>>

\* A sentence without a citation does not fit the schema of the draft.
Synthesize(r) ==
  LET q == request[r] IN
  /\ Handles(r, "synthesis")
  /\ \/ Fails(r, q)
     \/ Handle(r, ToStore(q, Insufficient(r)))
     \/ \E draft \in Draft : Handle(r, [q EXCEPT !.at = "audit", !.draft = draft])
  /\ UNCHANGED <<runs, citations>>

IndicesOf(sentences) == {s.index : s \in sentences}

\* deterministicCitationRejects
UnknownCitations(draft, chunks) ==
  IndicesOf({s \in draft : ~(s.citations \subseteq chunks)})

\* What is left of the draft; sentences with a rejected index are dropped.
Accepted(draft, rejected) == {s \in draft : s.index \notin rejected}

Revised(r, q, rejected) ==
  LET kept == Accepted(q.draft, rejected) IN
  ToStore(q, IF kept = {} THEN Insufficient(r)
             ELSE [kind |-> "answer", run |-> r, chunks |-> q.chunks,
                   sentences |-> kept])

\* auditAndReviseLiteSynthesis.  The model is asked only about a draft without
\* unknown citations; what it does not mention is accepted.  The call may fail,
\* and the outcome of either audit may exceed the limits of its schema.
Audit(r) ==
  LET q == request[r]
      unknown == UnknownCitations(q.draft, q.chunks)
  IN
  /\ Handles(r, "audit")
  /\ \/ Fails(r, q)
     \/ unknown # {} /\ Handle(r, Revised(r, q, unknown))
     \/ unknown = {} /\ \E doubted \in SUBSET IndicesOf(q.draft) :
                          Handle(r, Revised(r, q, doubted))
  /\ UNCHANGED <<runs, citations>>

------------------------------------------------------------------------------
(* persistLiteRunIfConfigured *)

\* toCitationInserts: one row per sentence and chunk.
CitationRows(response) ==
  UNION {{<<response.run, s.index, c>> : c \in s.citations \intersect response.chunks} :
           s \in response.sentences}

\* Faulty variant of AfterInsert: the answer does not depend on the insert.
AfterInsertAnyway(q, inserted, next) == next

\* A failed insert is answered with an error that asks for a retry.
AfterInsert(q, inserted, next) ==
  IF inserted THEN next ELSE Answered(q, Error(q.response.run))

\* insertLiteRun; a request that fails may have been carried out all the same.
StoreRun(r) ==
  LET q == request[r]
      next == IF CitationRows(q.response) = {}
              THEN Answered(q, q.response)
              ELSE [q EXCEPT !.at = "citation rows"]
  IN
  /\ Handles(r, "run row")
  /\ \E done, inserted \in BOOLEAN :
       /\ inserted => done
       /\ runs' = IF done THEN runs \union {r} ELSE runs
       /\ Handle(r, AfterInsert(q, inserted, next))
  /\ UNCHANGED citations

\* insertLiteRunCitations: all rows in one request.
StoreCitations(r) ==
  LET q == request[r] IN
  /\ Handles(r, "citation rows")
  /\ \E done, inserted \in BOOLEAN :
       /\ inserted => done
       /\ citations' = IF done THEN citations \union CitationRows(q.response)
                               ELSE citations
       /\ Handle(r, AfterInsert(q, inserted, Answered(q, q.response)))
  /\ UNCHANGED runs

\* The function is stopped, with its memory.
Dies(r) ==
  /\ request[r].at \notin {"none", "answered", "dead"}
  /\ Handle(r, [Unsent EXCEPT !.at = "dead", !.waiting = request[r].waiting,
                              !.aborted = request[r].aborted])
  /\ UNCHANGED <<runs, citations>>

------------------------------------------------------------------------------
Handler(r) ==
  \/ Route(r) \/ Classify(r) \/ Plan(r) \/ Retrieve(r) \/ Judge(r)
  \/ Synthesize(r) \/ Audit(r) \/ StoreRun(r) \/ StoreCitations(r)

Next ==
  \/ Submit \/ SubmitNothing \/ Cancel \/ Clear
  \/ \E r \in Request : Show(r) \/ FetchRejects(r) \/ Handler(r) \/ Dies(r)

Spec == Init /\ [][Next]_vars

\* Every call of the handler returns or fails, or the platform stops it; what it
\* answers, its end or an abort reaches the page.
Delivered(r) ==
  \/ Show(r)
  \/ (request[r].aborted \/ request[r].at = "dead") /\ FetchRejects(r)

FairSpec ==
  /\ Spec
  /\ \A r \in Request : WF_vars(Handler(r) \/ Dies(r)) /\ WF_vars(Delivered(r))

------------------------------------------------------------------------------
Response == [kind : {"none", "error", "insufficient", "answer"},
             run : Request \union {None},
             chunks : SUBSET Chunk, sentences : SUBSET Sentence]

Page == [sequence : 0..MaxSequence, controller : Request \union {None},
         submitting : BOOLEAN,
         status : {"idle", "loading", "success", "failure", "cancelled"},
         result : Response, error : BOOLEAN]

Query == [at : {"none", "route", "intake", "plan", "retrieval", "judge", "synthesis",
                "audit", "run row", "citation rows", "answered", "dead"},
          waiting : BOOLEAN, aborted : BOOLEAN,
          chunks : SUBSET Chunk, draft : SUBSET Sentence, response : Response]

\* The page, the requests with their handlers, and the two tables keep their types.
LiteTypeOK ==
  /\ page \in Page
  /\ request \in [Request -> Query]
  /\ runs \subseteq Request
  /\ citations \subseteq Request \X Index \X Chunk

\* What the page shows answers its last submission, however late earlier answers
\* arrive; and every request it still waits for, and has not given up, is the
\* one its cancel button aborts.
PageFollowsItsSubmission ==
  /\ page.result # NoResponse => page.result.run = page.sequence
  /\ \A r \in Request :
       request[r].waiting /\ ~request[r].aborted
         => page.submitting /\ page.controller = r

Stored(response) ==
  response.kind \in {"insufficient", "answer"} =>
    /\ response.run \in runs
    /\ response.kind = "answer" => response.sentences # {}
    /\ \A s \in response.sentences : \A c \in s.citations :
         <<response.run, s.index, c>> \in citations

\* A report on the page, an answer or a finding of insufficient evidence, has its
\* run in the store, and an answer a row for every citation it shows, although
\* run and citations are written by two requests, either of which may fail or be
\* carried out without a reply, and no row is written for an unknown chunk.
AnswersAreStored == Stored(page.result)

\* A submission settles: by an answer, an error, its cancellation, or by being
\* cleared away.
EverySubmissionSettles == page.submitting ~> ~page.submitting
==============================================================================
