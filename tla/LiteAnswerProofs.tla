--------------------------- MODULE LiteAnswerProofs ---------------------------
(***************************************************************************)
(* What the Lite page may rely on, for every corpus, every bound and every *)
(* order in which answers, aborts, failures and stops arrive.              *)
(***************************************************************************)
EXTENDS LiteAnswer, TLAPS

\* What goes to the store: an answer says something, from its own context.
Grounded(response) ==
  /\ response.kind \in {"insufficient", "answer"}
  /\ response.kind = "answer" => response.sentences # {}
  /\ \A s \in response.sentences : s.citations \subseteq response.chunks

\* A request and what its handler has done so far.
QueryInv(r) ==
  /\ request[r].response # NoResponse => request[r].response.run = r
  /\ request[r].at \in {"run row", "citation rows"} =>
       request[r].response.run = r /\ Grounded(request[r].response)
  /\ request[r].at = "citation rows" => r \in runs
  /\ request[r].at = "answered" => Stored(request[r].response)

\* The page's controller is that of its current submission, if there is one.
PageInv ==
  /\ page.submitting => page.controller = page.sequence
  /\ ~page.submitting => page.controller = None
  /\ PageFollowsItsSubmission
  /\ AnswersAreStored

IInv == LiteTypeOK /\ PageInv /\ \A r \in Request : QueryInv(r)

------------------------------------------------------------------------------
(* Facts about the operators *)

\* Nothing is answered, and nothing is owed to the store, before it is asked.
LEMMA NoResponseIsStored ==
  /\ NoResponse \in Response
  /\ Stored(NoResponse)
  /\ Stored(NoResponse)'
  BY DEF NoResponse, Response, Stored, None

LEMMA ErrorIsStored ==
  ASSUME NEW r \in Request
  PROVE  /\ Error(r) \in Response /\ Error(r).run = r
         /\ Stored(Error(r)) /\ Stored(Error(r))'
  BY DEF NoResponse, Response, Stored, None, Error

LEMMA InsufficientIsGrounded ==
  ASSUME NEW r \in Request
  PROVE  /\ Insufficient(r) \in Response /\ Insufficient(r).run = r
         /\ Grounded(Insufficient(r))
  BY DEF NoResponse, Response, Grounded, None, Insufficient

\* Rows are added and never taken away.
LEMMA StoreGrows ==
  ASSUME NEW response, Stored(response),
         runs \subseteq runs', citations \subseteq citations'
  PROVE  Stored(response)'
  BY DEF Stored

\* Once its run and all its citation rows are written, a grounded response is stored.
LEMMA WrittenIsStored ==
  ASSUME NEW response \in Response, Grounded(response),
         response.run \in runs',
         CitationRows(response) \subseteq citations'
  PROVE  Stored(response)'
  <1>1. ASSUME NEW s \in response.sentences, NEW c \in s.citations
        PROVE  <<response.run, s.index, c>> \in citations'
    <2>1. c \in s.citations \intersect response.chunks  BY <1>1 DEF Grounded
    <2>2. <<response.run, s.index, c>> \in
            {<<response.run, s.index, d>> : d \in s.citations \intersect response.chunks}
      BY <2>1
    <2> QED  BY <2>2 DEF CitationRows
  <1> QED  BY <1>1 DEF Stored, Grounded

\* What an audit leaves of a draft cites known chunks only.
LEMMA AuditGrounds ==
  ASSUME NEW draft \in SUBSET Sentence, NEW chunks \in SUBSET Chunk,
         NEW rejected, UnknownCitations(draft, chunks) \subseteq rejected
  PROVE  /\ Accepted(draft, rejected) \in SUBSET Sentence
         /\ \A s \in Accepted(draft, rejected) : s.citations \subseteq chunks
  BY DEF Accepted, UnknownCitations, IndicesOf

------------------------------------------------------------------------------
(* A step of a handler *)

\* What a step of the handler of r must establish for the invariant to hold.
LEMMA HandlerKeeps ==
  ASSUME IInv, NEW r \in Request,
         page' = page,
         request' \in [Request -> Query],
         \A s \in Request \ {r} : request'[s] = request[s],
         request'[r].waiting = request[r].waiting,
         request'[r].aborted = request[r].aborted,
         QueryInv(r)',
         runs \subseteq runs', runs' \subseteq Request,
         citations \subseteq citations',
         citations' \subseteq Request \X Index \X Chunk
  PROVE  IInv'
  <1>1. LiteTypeOK'  BY DEF IInv, LiteTypeOK
  <1>2. PageInv'
    <2>1. PageFollowsItsSubmission'
      BY DEF IInv, PageInv, PageFollowsItsSubmission
    <2>2. AnswersAreStored'
      <3>1. Stored(page.result)  BY DEF IInv, PageInv, AnswersAreStored
      <3>2. Stored(page.result)'  BY <3>1 DEF Stored
      <3> QED  BY <3>2 DEF AnswersAreStored
    <2> QED  BY <2>1, <2>2 DEF IInv, PageInv
  <1>3. ASSUME NEW s \in Request PROVE QueryInv(s)'
    <2>1. CASE s = r  BY <2>1
    <2>2. CASE s # r
      <3>1. QueryInv(s) /\ request'[s] = request[s]  BY <2>2 DEF IInv
      <3>2. request[s].at = "answered" => Stored(request[s].response)'
        BY <3>1 DEF QueryInv, Stored
      <3> QED  BY <3>1, <3>2 DEF QueryInv, Stored
    <2> QED  BY <2>1, <2>2
  <1> QED  BY <1>1, <1>2, <1>3 DEF IInv

\* The handler answers.
LEMMA AnsweredKeeps ==
  ASSUME IInv, NEW r \in Request,
         NEW response \in Response, response.run = r, Stored(response)',
         Handle(r, Answered(request[r], response)),
         runs \subseteq runs', runs' \subseteq Request,
         citations \subseteq citations',
         citations' \subseteq Request \X Index \X Chunk
  PROVE  IInv'
  <1> DEFINE q == Answered(request[r], response)
  <1>1. request[r] \in Query /\ request \in [Request -> Query]
    BY DEF IInv, LiteTypeOK
  <1>2. /\ q \in Query /\ q.at = "answered"
        /\ q.waiting = request[r].waiting /\ q.aborted = request[r].aborted
        /\ q.response \in {response, NoResponse}
    BY <1>1, NoResponseIsStored DEF Query, Answered
  <1>3. page' = page /\ request' = [request EXCEPT ![r] = q]  BY DEF Handle
  <1>4. request'[r] = q  BY <1>1, <1>3
  <1>5. QueryInv(r)'  BY <1>2, <1>4, NoResponseIsStored DEF QueryInv
  <1> HIDE DEF q
  <1> QED  BY <1>1, <1>2, <1>3, <1>4, <1>5, HandlerKeeps

\* The handler goes on to store what it found.
LEMMA ToStoreKeeps ==
  ASSUME IInv, NEW r \in Request,
         NEW response \in Response, response.run = r, Grounded(response),
         Handle(r, ToStore(request[r], response)),
         UNCHANGED <<runs, citations>>
  PROVE  IInv'
  <1> DEFINE q == ToStore(request[r], response)
  <1>1. request[r] \in Query /\ request \in [Request -> Query]
    BY DEF IInv, LiteTypeOK
  <1>2. /\ q \in Query /\ q.at = "run row" /\ q.response = response
        /\ q.waiting = request[r].waiting /\ q.aborted = request[r].aborted
    BY <1>1 DEF Query, ToStore
  <1>3. page' = page /\ request' = [request EXCEPT ![r] = q]  BY DEF Handle
  <1>4. request'[r] = q  BY <1>1, <1>3
  <1>5. QueryInv(r)'  BY <1>2, <1>4 DEF QueryInv
  <1>6. runs' = runs /\ citations' = citations /\ LiteTypeOK  BY DEF IInv
  <1> HIDE DEF q
  <1> QED  BY <1>1, <1>2, <1>3, <1>4, <1>5, <1>6, HandlerKeeps DEF LiteTypeOK

\* The handler comes to its next stage.
LEMMA StageKeeps ==
  ASSUME IInv, NEW r \in Request, page' = page,
         NEW at \in {"intake", "plan", "retrieval", "judge", "synthesis", "audit"},
         NEW chunks \in SUBSET Chunk, NEW draft \in SUBSET Sentence,
         request' = [request EXCEPT ![r] =
                       [request[r] EXCEPT !.at = at, !.chunks = chunks, !.draft = draft]],
         UNCHANGED <<runs, citations>>
  PROVE  IInv'
  <1> DEFINE q == [request[r] EXCEPT !.at = at, !.chunks = chunks, !.draft = draft]
  <1>1. request[r] \in Query /\ request \in [Request -> Query]
    BY DEF IInv, LiteTypeOK
  <1>2. /\ q \in Query /\ q.at = at /\ q.response = request[r].response
        /\ q.waiting = request[r].waiting /\ q.aborted = request[r].aborted
    BY <1>1 DEF Query
  <1>3. request' = [request EXCEPT ![r] = q]  OBVIOUS
  <1>4. request'[r] = q  BY <1>1, <1>3
  <1>5. QueryInv(r)'  BY <1>2, <1>4 DEF QueryInv, IInv
  <1>6. runs' = runs /\ citations' = citations /\ LiteTypeOK  BY DEF IInv
  <1> HIDE DEF q
  <1> QED  BY <1>1, <1>2, <1>3, <1>4, <1>5, <1>6, HandlerKeeps DEF LiteTypeOK

LEMMA FailsKeeps ==
  ASSUME IInv, NEW r \in Request, Fails(r, request[r]), UNCHANGED <<runs, citations>>
  PROVE  IInv'
  <1>1. runs' = runs /\ citations' = citations /\ LiteTypeOK  BY DEF IInv
  <1> QED  BY <1>1, ErrorIsStored, AnsweredKeeps DEF Fails, LiteTypeOK

LEMMA InsufficientKeeps ==
  ASSUME IInv, NEW r \in Request, Handle(r, ToStore(request[r], Insufficient(r))),
         UNCHANGED <<runs, citations>>
  PROVE  IInv'
  BY InsufficientIsGrounded, ToStoreKeeps

\* What the audit leaves goes to the store, if the audit knows the unknown citations.
LEMMA RevisedKeeps ==
  ASSUME IInv, NEW r \in Request, NEW rejected,
         UnknownCitations(request[r].draft, request[r].chunks) \subseteq rejected,
         Handle(r, Revised(r, request[r], rejected)),
         UNCHANGED <<runs, citations>>
  PROVE  IInv'
  <1>1. request[r] \in Query  BY DEF IInv, LiteTypeOK
  <1>2. PICK draft \in SUBSET Sentence, chunks \in SUBSET Chunk :
             draft = request[r].draft /\ chunks = request[r].chunks
    BY <1>1 DEF Query
  <1> DEFINE kept == Accepted(draft, rejected)
             response == [kind |-> "answer", run |-> r, chunks |-> chunks,
                          sentences |-> kept]
  <1>3. kept \in SUBSET Sentence /\ \A s \in kept : s.citations \subseteq chunks
    BY <1>2, AuditGrounds
  <1>4. CASE kept = {}
    BY <1>2, <1>4, InsufficientKeeps DEF Revised
  <1>5. CASE kept # {}
    <2>1. response \in Response /\ response.run = r /\ Grounded(response)
      BY <1>3, <1>5 DEF Response, Grounded
    <2>2. Handle(r, ToStore(request[r], response))
      BY <1>2, <1>5 DEF Revised
    <2> HIDE DEF response
    <2> QED  BY <2>1, <2>2, ToStoreKeeps
  <1> QED  BY <1>4, <1>5

------------------------------------------------------------------------------
(* The two inserts *)

\* Whatever became of the insert, the handler answers with a stored response,
\* answers with an error, or goes on to the citations.
LEMMA StoreRunKeeps ==
  ASSUME IInv, NEW r \in Request, StoreRun(r)
  PROVE  IInv'
  <1>1. LiteTypeOK /\ QueryInv(r) /\ request[r] \in Query  BY DEF IInv, LiteTypeOK
  <1>2. request[r].at = "run row" /\ UNCHANGED citations
    BY DEF StoreRun, Handles
  <1>3. PICK response \in Response : response = request[r].response
    BY <1>1 DEF Query
  <1>4. response.run = r /\ Grounded(response)  BY <1>1, <1>2, <1>3 DEF QueryInv
  <1>5. runs \subseteq runs' /\ runs' \subseteq Request
    BY <1>1 DEF StoreRun, LiteTypeOK
  <1>6. CASE Handle(r, Answered(request[r], Error(r)))
    BY <1>1, <1>2, <1>5, <1>6, ErrorIsStored, AnsweredKeeps DEF LiteTypeOK
  <1>7. CASE /\ CitationRows(response) = {} /\ r \in runs'
             /\ Handle(r, Answered(request[r], response))
    <2>1. Stored(response)'  BY <1>4, <1>7, WrittenIsStored
    <2> QED  BY <1>1, <1>2, <1>4, <1>5, <1>7, <2>1, AnsweredKeeps DEF LiteTypeOK
  <1>8. CASE r \in runs' /\ Handle(r, [request[r] EXCEPT !.at = "citation rows"])
    <2> DEFINE q == [request[r] EXCEPT !.at = "citation rows"]
    <2>1. /\ q \in Query /\ q.at = "citation rows" /\ q.response = response
          /\ q.waiting = request[r].waiting /\ q.aborted = request[r].aborted
      BY <1>1, <1>3 DEF Query
    <2>2. page' = page /\ request' = [request EXCEPT ![r] = q]  BY <1>8 DEF Handle
    <2>3. request'[r] = q  BY <1>1, <2>2 DEF LiteTypeOK
    <2>4. QueryInv(r)'  BY <1>4, <1>8, <2>1, <2>3 DEF QueryInv
    <2> HIDE DEF q
    <2> QED  BY <1>1, <1>2, <1>5, <2>1, <2>2, <2>3, <2>4, HandlerKeeps DEF LiteTypeOK
  <1> QED
    <2>1. PICK done \in BOOLEAN, inserted \in BOOLEAN :
            /\ inserted => done
            /\ runs' = IF done THEN runs \union {r} ELSE runs
            /\ Handle(r, AfterInsert(request[r], inserted,
                           IF CitationRows(response) = {}
                           THEN Answered(request[r], response)
                           ELSE [request[r] EXCEPT !.at = "citation rows"]))
      BY <1>3 DEF StoreRun
    <2>2. CASE ~inserted  BY <1>3, <1>4, <1>6, <2>1, <2>2 DEF AfterInsert
    <2>3. CASE inserted
      <3>1. r \in runs'  BY <2>1, <2>3
      <3> QED  BY <1>7, <1>8, <2>1, <2>3, <3>1 DEF AfterInsert
    <2> QED  BY <2>2, <2>3

LEMMA StoreCitationsKeeps ==
  ASSUME IInv, NEW r \in Request, StoreCitations(r)
  PROVE  IInv'
  <1>1. LiteTypeOK /\ QueryInv(r) /\ request[r] \in Query  BY DEF IInv, LiteTypeOK
  <1>2. request[r].at = "citation rows" /\ runs' = runs
    BY DEF StoreCitations, Handles
  <1>3. PICK response \in Response : response = request[r].response
    BY <1>1 DEF Query
  <1>4. response.run = r /\ Grounded(response) /\ r \in runs'
    BY <1>1, <1>2, <1>3 DEF QueryInv
  <1>5. CitationRows(response) \subseteq Request \X Index \X Chunk
    <2>1. ASSUME NEW s \in response.sentences,
                 NEW c \in s.citations \intersect response.chunks
          PROVE  <<response.run, s.index, c>> \in Request \X Index \X Chunk
      BY <1>4 DEF Response, Sentence
    <2> QED  BY <2>1 DEF CitationRows
  <1>6. citations \subseteq citations' /\ citations' \subseteq Request \X Index \X Chunk
    BY <1>1, <1>3, <1>5 DEF StoreCitations, LiteTypeOK
  <1>7. CASE Handle(r, Answered(request[r], Error(r)))
    BY <1>1, <1>2, <1>6, <1>7, ErrorIsStored, AnsweredKeeps DEF LiteTypeOK
  <1>8. CASE /\ CitationRows(response) \subseteq citations'
             /\ Handle(r, Answered(request[r], response))
    <2>1. Stored(response)'  BY <1>4, <1>8, WrittenIsStored
    <2> QED  BY <1>1, <1>2, <1>4, <1>6, <1>8, <2>1, AnsweredKeeps DEF LiteTypeOK
  <1> QED
    <2>1. PICK done \in BOOLEAN, inserted \in BOOLEAN :
            /\ inserted => done
            /\ citations' = IF done THEN citations \union CitationRows(response)
                                    ELSE citations
            /\ Handle(r, AfterInsert(request[r], inserted, Answered(request[r], response)))
      BY <1>3 DEF StoreCitations
    <2>2. CASE ~inserted  BY <1>3, <1>4, <1>7, <2>1, <2>2 DEF AfterInsert
    <2>3. CASE inserted  BY <1>8, <2>1, <2>3 DEF AfterInsert
    <2> QED  BY <2>2, <2>3

------------------------------------------------------------------------------
(* The handler's steps *)

LEMMA HandlerStep ==
  ASSUME IInv, NEW r \in Request, Handler(r)
  PROVE  IInv'
  <1> DEFINE q == request[r]
  <1>1. /\ q \in Query
        /\ q.chunks \in SUBSET Chunk /\ q.draft \in SUBSET Sentence
    BY DEF IInv, LiteTypeOK, Query
  <1>2. CASE Route(r)
    <2>1. CASE Handle(r, [q EXCEPT !.at = "intake"])
      <3>1. request' = [request EXCEPT ![r] =
                  [q EXCEPT !.at = "intake", !.chunks = q.chunks, !.draft = q.draft]]
        BY <1>1, <2>1 DEF Handle, Query
      <3> QED  BY <1>1, <1>2, <2>1, <3>1, StageKeeps DEF Route, Handle
    <2> QED  BY <1>2, <2>1, FailsKeeps DEF Route
  <1>3. CASE Classify(r)
    <2>1. CASE Handle(r, [q EXCEPT !.at = "plan"])
      <3>1. request' = [request EXCEPT ![r] =
                  [q EXCEPT !.at = "plan", !.chunks = q.chunks, !.draft = q.draft]]
        BY <1>1, <2>1 DEF Handle, Query
      <3> QED  BY <1>1, <1>3, <2>1, <3>1, StageKeeps DEF Classify, Handle
    <2> QED  BY <1>3, <2>1, FailsKeeps DEF Classify
  <1>4. CASE Plan(r)
    <2>1. CASE Handle(r, [q EXCEPT !.at = "retrieval"])
      <3>1. request' = [request EXCEPT ![r] =
                  [q EXCEPT !.at = "retrieval", !.chunks = q.chunks, !.draft = q.draft]]
        BY <1>1, <2>1 DEF Handle, Query
      <3> QED  BY <1>1, <1>4, <2>1, <3>1, StageKeeps DEF Plan, Handle
    <2> QED  BY <1>4, <2>1, FailsKeeps DEF Plan
  <1>5. CASE Retrieve(r)
    <2>1. ASSUME NEW chunks \in (SUBSET Chunk) \ {{}},
                 Handle(r, [q EXCEPT !.at = "judge", !.chunks = chunks])
          PROVE  IInv'
      <3>1. request' = [request EXCEPT ![r] =
                  [q EXCEPT !.at = "judge", !.chunks = chunks, !.draft = q.draft]]
        BY <1>1, <2>1 DEF Handle, Query
      <3>2. page' = page /\ UNCHANGED <<runs, citations>>
        BY <1>5, <2>1 DEF Retrieve, Handle
      <3>3. chunks \in SUBSET Chunk  OBVIOUS
      <3> QED  BY <1>1, <3>1, <3>2, <3>3, StageKeeps
    <2> QED  BY <1>5, <2>1, FailsKeeps, InsufficientKeeps DEF Retrieve
  <1>6. CASE Judge(r)
    <2>1. CASE Handle(r, [q EXCEPT !.at = "synthesis"])
      <3>1. request' = [request EXCEPT ![r] =
                  [q EXCEPT !.at = "synthesis", !.chunks = q.chunks, !.draft = q.draft]]
        BY <1>1, <2>1 DEF Handle, Query
      <3> QED  BY <1>1, <1>6, <2>1, <3>1, StageKeeps DEF Judge, Handle
    <2> QED  BY <1>6, <2>1, FailsKeeps, InsufficientKeeps DEF Judge
  <1>7. CASE Synthesize(r)
    <2>1. ASSUME NEW draft \in Draft,
                 Handle(r, [q EXCEPT !.at = "audit", !.draft = draft])
          PROVE  IInv'
      <3>1. request' = [request EXCEPT ![r] =
                  [q EXCEPT !.at = "audit", !.chunks = q.chunks, !.draft = draft]]
        BY <1>1, <2>1 DEF Handle, Query
      <3>2. page' = page /\ UNCHANGED <<runs, citations>>
        BY <1>7, <2>1 DEF Synthesize, Handle
      <3>3. draft \in SUBSET Sentence  BY DEF Draft
      <3> QED  BY <1>1, <3>1, <3>2, <3>3, StageKeeps
    <2> QED  BY <1>7, <2>1, FailsKeeps, InsufficientKeeps DEF Synthesize
  <1>8. CASE Audit(r)
    <2> DEFINE unknown == UnknownCitations(q.draft, q.chunks)
    <2>1. CASE Handle(r, Revised(r, q, unknown))
      <3>1. PICK rejected : rejected = unknown  OBVIOUS
      <3>2. unknown \subseteq rejected /\ Handle(r, Revised(r, q, rejected))
        BY <2>1, <3>1
      <3> QED  BY <1>8, <3>2, RevisedKeeps DEF Audit
    <2>2. ASSUME unknown = {},
                 NEW doubted \in SUBSET IndicesOf(q.draft),
                 Handle(r, Revised(r, q, doubted))
          PROVE  IInv'
      BY <1>8, <2>2, RevisedKeeps DEF Audit
    <2> QED  BY <1>8, <2>1, <2>2, FailsKeeps DEF Audit
  <1> QED
    BY <1>2, <1>3, <1>4, <1>5, <1>6, <1>7, <1>8, StoreRunKeeps, StoreCitationsKeeps
       DEF Handler

\* A stopped handler has answered nothing and stores nothing.
LEMMA DiesKeeps ==
  ASSUME IInv, NEW r \in Request, Dies(r)
  PROVE  IInv'
  <1> DEFINE q == [Unsent EXCEPT !.at = "dead", !.waiting = request[r].waiting,
                                 !.aborted = request[r].aborted]
  <1>1. request[r] \in Query /\ request \in [Request -> Query] /\ LiteTypeOK
    BY DEF IInv, LiteTypeOK
  <1>2. /\ q \in Query /\ q.at = "dead" /\ q.response = NoResponse
        /\ q.waiting = request[r].waiting /\ q.aborted = request[r].aborted
    BY <1>1, NoResponseIsStored DEF Query, Unsent
  <1>3. page' = page /\ request' = [request EXCEPT ![r] = q]
        /\ runs' = runs /\ citations' = citations
    BY DEF Dies, Handle
  <1>4. request'[r] = q  BY <1>1, <1>3
  <1>5. QueryInv(r)'  BY <1>2, <1>4 DEF QueryInv
  <1> HIDE DEF q
  <1> QED  BY <1>1, <1>2, <1>3, <1>4, <1>5, HandlerKeeps DEF LiteTypeOK

------------------------------------------------------------------------------
(* The page's steps *)

\* Aborting changes nothing but the flag.
LEMMA AbortKeeps ==
  ASSUME LiteTypeOK, NEW r \in Request \union {None},
         \A s \in Request : QueryInv(s),
         NEW t \in Request
  PROVE  /\ Abort(request, r) \in [Request -> Query]
         /\ Abort(request, r)[t] = [request[t] EXCEPT !.aborted = @ \/ t = r]
  <1>1. request \in [Request -> Query] /\ None \notin Request
    BY LiteAnswerAssumption DEF LiteTypeOK, Request, None
  <1>2. request[t] \in Query  BY <1>1
  <1>3. CASE r = None
    <2>1. Abort(request, r) = request  BY <1>3 DEF Abort
    <2>2. request[t] = [request[t] EXCEPT !.aborted = @ \/ t = r]
      BY <1>1, <1>2, <1>3 DEF Query
    <2> QED  BY <1>1, <2>1, <2>2
  <1>4. CASE r # None
    <2>1. r \in Request /\ request[r] \in Query  BY <1>1, <1>4
    <2>2. [request[r] EXCEPT !.aborted = TRUE] \in Query  BY <2>1 DEF Query
    <2>3. Abort(request, r) = [request EXCEPT ![r] = [request[r] EXCEPT !.aborted = TRUE]]
      BY <1>4, <2>1 DEF Abort
    <2>4. CASE t = r
      <3>1. [request[r] EXCEPT !.aborted = TRUE] = [request[r] EXCEPT !.aborted = @ \/ t = r]
        BY <2>1, <2>4 DEF Query
      <3> QED  BY <1>1, <2>1, <2>2, <2>3, <2>4, <3>1
    <2>5. CASE t # r
      <3>1. request[t] = [request[t] EXCEPT !.aborted = @ \/ t = r]
        BY <1>2, <2>5 DEF Query
      <3> QED  BY <1>1, <2>1, <2>2, <2>3, <2>5, <3>1
    <2> QED  BY <2>4, <2>5
  <1> QED  BY <1>3, <1>4

LEMMA SubmitKeeps ==
  ASSUME IInv, Submit
  PROVE  IInv'
  <1> DEFINE n == page.sequence + 1
  <1>1. LiteTypeOK /\ page \in Page /\ n \in Request /\ n # None
    BY LiteAnswerAssumption DEF IInv, LiteTypeOK, Page, Submit, Request, None
  <1>2. ~page.submitting /\ page.controller = None
    BY DEF Submit, IInv, PageInv
  <1> DEFINE q == [Unsent EXCEPT !.at = "route", !.waiting = TRUE]
  <1>3. request' = [request EXCEPT ![n] = q] /\ UNCHANGED <<runs, citations>>
    BY <1>2 DEF Submit, Abort
  <1>4. page' = [Idle EXCEPT !.sequence = n, !.controller = n, !.submitting = TRUE,
                             !.status = "loading"]
    BY DEF Submit
  <1>5. q \in Query /\ q.response = NoResponse /\ q.at = "route"
    BY NoResponseIsStored DEF Query, Unsent
  <1>6. /\ page' \in Page /\ page'.sequence = n /\ page'.controller = n
        /\ page'.submitting /\ page'.result = NoResponse
    <2>1. page' = [sequence |-> n, controller |-> n, submitting |-> TRUE,
                   status |-> "loading", result |-> NoResponse, error |-> FALSE]
      BY <1>4 DEF Idle
    <2>2. n \in 0..MaxSequence  BY <1>1, LiteAnswerAssumption DEF Request
    <2> HIDE DEF n
    <2> QED  BY <1>1, <2>1, <2>2, NoResponseIsStored DEF Page
  <1> HIDE DEF q, n
  <1>7. LiteTypeOK'  BY <1>1, <1>3, <1>5, <1>6 DEF LiteTypeOK
  <1>8. \A r \in Request : request[r].waiting => request[r].aborted
    BY <1>2 DEF IInv, PageInv, PageFollowsItsSubmission
  <1>9. PageInv'
    <2>1. AnswersAreStored'  BY <1>6, NoResponseIsStored DEF AnswersAreStored
    <2>2. PageFollowsItsSubmission'
      BY <1>1, <1>3, <1>6, <1>8 DEF PageFollowsItsSubmission, LiteTypeOK
    <2> QED  BY <1>6, <2>1, <2>2 DEF PageInv
  <1>10. ASSUME NEW r \in Request PROVE QueryInv(r)'
    <2>1. CASE r = n
      BY <1>1, <1>3, <1>5, <2>1 DEF QueryInv, LiteTypeOK
    <2>2. CASE r # n
      BY <1>1, <1>3, <2>2 DEF QueryInv, Stored, IInv, LiteTypeOK
    <2> QED  BY <2>1, <2>2
  <1> QED  BY <1>7, <1>9, <1>10 DEF IInv

\* Steps of the page that abort at most, show nothing new and write nothing.
LEMMA AbortingKeeps ==
  ASSUME IInv, NEW r \in Request \union {None},
         request' = Abort(request, r), UNCHANGED <<runs, citations>>,
         page' \in Page, PageInv'
  PROVE  IInv'
  <1>1. LiteTypeOK /\ \A s \in Request : QueryInv(s)  BY DEF IInv
  <1>2. ASSUME NEW t \in Request
        PROVE  /\ request' \in [Request -> Query]
               /\ request'[t] = [request[t] EXCEPT !.aborted = @ \/ t = r]
    BY <1>1, AbortKeeps
  <1>3. request' \in [Request -> Query]
    <2>1. CASE Request = {}  BY <1>1, <2>1 DEF Abort, LiteTypeOK, None
    <2> QED  BY <1>2, <2>1
  <1>4. LiteTypeOK'  BY <1>1, <1>3 DEF LiteTypeOK
  <1>5. ASSUME NEW t \in Request PROVE QueryInv(t)'
    <2>1. request[t] \in Query /\ QueryInv(t)  BY <1>1 DEF LiteTypeOK
    <2>2. request'[t].at = request[t].at /\ request'[t].response = request[t].response
      BY <1>2, <2>1 DEF Query
    <2> QED  BY <2>1, <2>2 DEF QueryInv, Stored
  <1> QED  BY <1>4, <1>5 DEF IInv

LEMMA SubmitNothingKeeps ==
  ASSUME IInv, SubmitNothing
  PROVE  IInv'
  <1>1. request' = Abort(request, None) /\ UNCHANGED <<request, runs, citations>>
    BY DEF SubmitNothing, Abort
  <1>2. page \in Page /\ page' = [page EXCEPT !.error = TRUE]
    BY DEF IInv, LiteTypeOK, SubmitNothing
  <1>3. /\ page' \in Page /\ page'.sequence = page.sequence
        /\ page'.controller = page.controller /\ page'.submitting = page.submitting
        /\ page'.result = page.result
    BY <1>2 DEF Page
  <1>4. PageInv'
    BY <1>1, <1>3 DEF IInv, PageInv, PageFollowsItsSubmission, AnswersAreStored, Stored
  <1> QED  BY <1>1, <1>3, <1>4, AbortingKeeps

LEMMA CancelKeeps ==
  ASSUME IInv, Cancel
  PROVE  IInv'
  <1>1. /\ page.controller \in Request \union {None} /\ page \in Page
        /\ LiteTypeOK /\ \A s \in Request : QueryInv(s)
    BY DEF IInv, LiteTypeOK, Page
  <1>2. request' = Abort(request, page.controller) /\ UNCHANGED <<page, runs, citations>>
    BY DEF Cancel
  <1>3. ASSUME NEW t \in Request
        PROVE  /\ request'[t].waiting = request[t].waiting
               /\ request[t].aborted => request'[t].aborted
    <2>1. request[t] \in Query  BY <1>1 DEF LiteTypeOK
    <2>2. request'[t] = [request[t] EXCEPT !.aborted = @ \/ t = page.controller]
      BY <1>1, <1>2, AbortKeeps
    <2> QED  BY <2>1, <2>2 DEF Query
  <1>4. PageInv'
    BY <1>2, <1>3 DEF IInv, PageInv, PageFollowsItsSubmission, AnswersAreStored, Stored
  <1> QED  BY <1>1, <1>2, <1>4, AbortingKeeps

LEMMA ClearKeeps ==
  ASSUME IInv, Clear
  PROVE  IInv'
  <1>1. /\ page.controller \in Request \union {None} /\ page \in Page
        /\ LiteTypeOK /\ \A s \in Request : QueryInv(s)
    BY DEF IInv, LiteTypeOK, Page
  <1>2. /\ request' = Abort(request, page.controller) /\ UNCHANGED <<runs, citations>>
        /\ page' = [Idle EXCEPT !.sequence = page.sequence + 1]
        /\ page.sequence < MaxSequence
    BY DEF Clear, Cleared
  <1>3. /\ page' \in Page /\ ~page'.submitting /\ page'.controller = None
        /\ page'.result = NoResponse
    <2> DEFINE n == page.sequence + 1
    <2>1. page' = [sequence |-> n, controller |-> None, submitting |-> FALSE,
                   status |-> "idle", result |-> NoResponse, error |-> FALSE]
      BY <1>2 DEF Idle
    <2>2. n \in 0..MaxSequence  BY <1>1, <1>2, LiteAnswerAssumption DEF Page
    <2> HIDE DEF n
    <2> QED  BY <2>1, <2>2, NoResponseIsStored DEF Page
  \* The one request that was under way is given up.
  <1>4. ASSUME NEW t \in Request PROVE request'[t].waiting => request'[t].aborted
    <2>1. request[t] \in Query  BY <1>1 DEF LiteTypeOK
    <2>2. request'[t] = [request[t] EXCEPT !.aborted = @ \/ t = page.controller]
      BY <1>1, <1>2, AbortKeeps
    <2>3. request[t].waiting /\ ~request[t].aborted => page.controller = t
      BY DEF IInv, PageInv, PageFollowsItsSubmission
    <2> QED  BY <2>1, <2>2, <2>3 DEF Query
  <1>5. PageInv'
    BY <1>3, <1>4, NoResponseIsStored DEF PageInv, PageFollowsItsSubmission, AnswersAreStored
  <1> QED  BY <1>1, <1>2, <1>3, <1>5, AbortingKeeps

\* A settled fetch: what is shown is the answer to the page's last submission.
LEMMA SettleKeeps ==
  ASSUME IInv, NEW r \in Request,
         NEW status \in {"success", "failure", "cancelled"},
         NEW response \in Response,
         response # NoResponse => response.run = r,
         Stored(response),
         request[r].waiting,
         Settle(r, status, response)
  PROVE  IInv'
  <1> DEFINE q == Unread(request[r])
  <1>1. /\ page \in Page /\ request \in [Request -> Query] /\ request[r] \in Query
        /\ LiteTypeOK /\ r # None
    BY LiteAnswerAssumption DEF IInv, LiteTypeOK, Request, None
  <1>2. \/ ~IsCurrent(r) /\ page' = page
        \/ IsCurrent(r) /\ page' = [page EXCEPT !.result = response, !.status = status,
                                      !.error = status # "success",
                                      !.submitting = FALSE, !.controller = None]
    BY DEF Settle
  <1>3. request' = [request EXCEPT ![r] = Unread(request[r])]
        /\ UNCHANGED <<runs, citations>>
    BY <1>1 DEF Settle
  <1>4. /\ q \in Query /\ ~q.waiting /\ q.at = request[r].at
        /\ q.response = request[r].response \/ (q.at = "answered" /\ q.response = NoResponse)
    BY <1>1, NoResponseIsStored DEF Query, Unread
  <1>5. request' = [request EXCEPT ![r] = q]  BY <1>1, <1>3
  <1> HIDE DEF q
  <1>6. \/ page' = page /\ page.sequence # r
        \/ /\ page' \in Page /\ page'.sequence = page.sequence /\ page.sequence = r
           /\ page'.controller = None /\ ~page'.submitting /\ page'.result = response
    BY <1>1, <1>2 DEF Page, IsCurrent
  <1>7. LiteTypeOK'
    BY <1>1, <1>3, <1>4, <1>5, <1>6 DEF LiteTypeOK
  <1>8. PageInv'
    <2>1. AnswersAreStored'
      BY <1>3, <1>6 DEF IInv, PageInv, AnswersAreStored, Stored
    <2>2. page'.result # NoResponse => page'.result.run = page'.sequence
      BY <1>6 DEF IInv, PageInv, PageFollowsItsSubmission
    \* If r was current, it was the only one under way.
    <2>3. ASSUME NEW t \in Request, request'[t].waiting, ~request'[t].aborted
          PROVE  page'.submitting /\ page'.controller = t
      <3>1. t # r /\ request[t].waiting /\ ~request[t].aborted
        BY <1>1, <1>4, <1>5, <2>3
      <3>2. page.submitting /\ page.controller = t /\ page.controller = page.sequence
        BY <3>1 DEF IInv, PageInv, PageFollowsItsSubmission
      <3> QED  BY <1>6, <3>1, <3>2
    <2>4. (page'.submitting => page'.controller = page'.sequence)
          /\ (~page'.submitting => page'.controller = None)
      BY <1>6 DEF IInv, PageInv
    <2> QED  BY <2>1, <2>2, <2>3, <2>4 DEF PageInv, PageFollowsItsSubmission
  <1>9. ASSUME NEW t \in Request PROVE QueryInv(t)'
    <2>1. CASE t = r
      <3>1. request'[t] = q  BY <1>1, <1>5, <2>1
      <3>2. QueryInv(r)  BY DEF IInv
      <3>3. CASE q.response = request[r].response
        <4>1. QueryInv(t)  BY <2>1, <3>2
        <4>2. request'[t].at = request[t].at /\ request'[t].response = request[t].response
          BY <1>4, <2>1, <3>1, <3>3
        <4>3. runs' = runs /\ citations' = citations  BY <1>3
        <4> QED  BY <4>1, <4>2, <4>3 DEF QueryInv, Stored
      <3>4. CASE q.at = "answered" /\ q.response = NoResponse
        BY <2>1, <3>1, <3>4, NoResponseIsStored DEF QueryInv
      <3> QED  BY <1>4, <3>3, <3>4
    <2>2. CASE t # r
      BY <1>1, <1>3, <1>5, <2>2 DEF QueryInv, Stored, IInv
    <2> QED  BY <2>1, <2>2
  <1> QED  BY <1>7, <1>8, <1>9 DEF IInv

LEMMA ShowKeeps ==
  ASSUME IInv, NEW r \in Request, Show(r)
  PROVE  IInv'
  <1>1. request[r] \in Query /\ QueryInv(r)  BY DEF IInv, LiteTypeOK
  <1>2. PICK response \in Response : response = request[r].response
    BY <1>1 DEF Query
  <1>3. PICK status \in {"success", "failure"} :
          status = IF response.kind = "error" THEN "failure" ELSE "success"
    OBVIOUS
  <1>4. request[r].waiting /\ Settle(r, status, response)
    BY <1>2, <1>3 DEF Show
  <1>5. Stored(response) /\ (response # NoResponse => response.run = r)
    BY <1>1, <1>2 DEF QueryInv, Show
  <1> QED  BY <1>3, <1>4, <1>5, SettleKeeps

LEMMA FetchRejectsKeeps ==
  ASSUME IInv, NEW r \in Request, FetchRejects(r)
  PROVE  IInv'
  <1>1. PICK status \in {"cancelled", "failure"} :
          status = IF request[r].aborted THEN "cancelled" ELSE "failure"
    OBVIOUS
  <1>2. request[r].waiting /\ Settle(r, status, NoResponse)
    BY <1>1 DEF FetchRejects
  <1> QED  BY <1>1, <1>2, NoResponseIsStored, SettleKeeps

------------------------------------------------------------------------------
LEMMA InitHolds == Init => IInv
  <1> SUFFICES ASSUME Init PROVE IInv  OBVIOUS
  <1>1. /\ page \in Page /\ ~page.submitting /\ page.controller = None
        /\ page.result = NoResponse
    BY NoResponseIsStored, LiteAnswerAssumption DEF Init, Idle, Page
  <1>2. Unsent \in Query  BY NoResponseIsStored DEF Unsent, Query
  <1>3. LiteTypeOK  BY <1>1, <1>2 DEF Init, LiteTypeOK
  <1>4. \A r \in Request : QueryInv(r)  BY DEF Init, Unsent, QueryInv
  <1>5. PageInv
    BY <1>1, NoResponseIsStored
       DEF Init, Unsent, PageInv, PageFollowsItsSubmission, AnswersAreStored
  <1> QED  BY <1>3, <1>4, <1>5 DEF IInv

LEMMA NextKeeps == IInv /\ [Next]_vars => IInv'
  <1> SUFFICES ASSUME IInv, [Next]_vars PROVE IInv'  OBVIOUS
  <1>1. CASE UNCHANGED vars
    <2>1. UNCHANGED <<page, request, runs, citations>>  BY <1>1 DEF vars
    <2> QED
      BY <2>1 DEF IInv, LiteTypeOK, PageInv, QueryInv, PageFollowsItsSubmission,
                  AnswersAreStored, Stored
  <1>2. CASE Next
    BY <1>2, SubmitKeeps, SubmitNothingKeeps, CancelKeeps, ClearKeeps, ShowKeeps,
       FetchRejectsKeeps, HandlerStep, DiesKeeps
       DEF Next
  <1> QED  BY <1>1, <1>2

LEMMA InvariantHolds == Spec => []IInv
  BY InitHolds, NextKeeps, PTL DEF Spec

\* Every value stays in its range: the page's numbers, the responses that the
\* stages hand on, and the rows of the store.
THEOREM LiteTypeCorrect == Spec => []LiteTypeOK
  <1>1. IInv => LiteTypeOK  BY DEF IInv
  <1> QED  BY <1>1, InvariantHolds, PTL

\* The page shows the answer to its last submission or none, however late the
\* fetches of earlier ones settle, and its cancel button reaches the only request
\* that is still waited for and not given up.
THEOREM PageFollows == Spec => []PageFollowsItsSubmission
  <1>1. IInv => PageFollowsItsSubmission  BY DEF IInv, PageInv
  <1> QED  BY <1>1, InvariantHolds, PTL

\* What the page shows as a result has its run and all its citations in the store,
\* whichever of the two inserts failed, or was carried out without a reply, before.
THEOREM AnswersStored == Spec => []AnswersAreStored
  <1>1. IInv => AnswersAreStored  BY DEF IInv, PageInv
  <1> QED  BY <1>1, InvariantHolds, PTL
==============================================================================
