------------------------------ MODULE RunEvents ------------------------------
(***************************************************************************)
(* How a run's progress reaches a browser: the SSE handler, which reads    *)
(* the run's Redis stream and watches its row, and the hook of the web     *)
(* client, which reconnects, replays the stream and falls back to polling. *)
(* The writers of the row and of the stream are those of ProgressStream.   *)
(***************************************************************************)
EXTENDS ProgressStream, FiniteSetsExt

VARIABLES
  reader,  \* the handler of the client's connection
  client   \* the hook: its connection, its fallback, and what the page has

vars == <<streamVars, reader, client>>

\* What the SSE handler takes for the end: a terminal status or a held report.
Over(v) == v.status \in Terminal \/ v.publication = "review_required"

NoReader == [state |-> "none", cursor |-> 0,
             view |-> [status |-> "QUEUED", publication |-> "unreviewed"]]

RunEventsInit ==
  /\ Init
  /\ reader = NoReader
  /\ client = [mode |-> "opening", attempts |-> 0, fallback |-> FALSE,
               latest |-> 0, known |-> "QUEUED", held |-> FALSE]

------------------------------------------------------------------------------
(* The hook *)

\* Faulty variant of Newer: what comes last is shown.
AlwaysNewer(i) == TRUE

\* isNewerProgress
Newer(i) ==
  \/ client.latest = 0
  \/ log[i].stage \in Terminal
  \/ log[i].at >= log[client.latest].at

\* The client after a progress event.
Shown(i) ==
  [client EXCEPT !.attempts = 0, !.latest = IF Newer(i) THEN i ELSE @]

\* reconnectOrPoll; attempts need not be counted beyond the third.
ReconnectOrPoll(c) ==
  LET attempts == IF c.attempts < 3 THEN c.attempts + 1 ELSE 3 IN
  IF attempts = 3
    THEN [c EXCEPT !.attempts = attempts, !.mode = "polling", !.fallback = TRUE]
    ELSE [c EXCEPT !.attempts = attempts, !.mode = "waiting"]

\* The hook after the last event of a connection.
AfterEnd(i) ==
  IF log[i].stage \in Terminal
    THEN [Shown(i) EXCEPT !.mode = "closed"]
    ELSE ReconnectOrPoll(Shown(i))

\* The timer of a reconnection.
Reconnect ==
  /\ client.mode = "waiting"
  /\ client' = [client EXCEPT !.mode = "opening"]
  /\ UNCHANGED <<streamVars, reader>>

\* The hook refetches every three seconds in the fallback, and after the end.
RefetchIsDue == client.fallback \/ client.mode = "closed"

\* What matters here of the history a refetch returns.
HoldInLog == \E i \in DOMAIN log : log[i].kind = "held"

\* runQuery and progressHistoryQuery are fetched again: also when the owner has
\* cancelled and when the network is back. A terminal status ends the effect
\* that holds the EventSource; any other new status starts it again.
Refetch ==
  /\ RefetchIsDue \/ cancelRequested \/ client.mode = "waiting"
  /\ client.known \notin Terminal
  /\ LET c == [client EXCEPT !.known = status, !.held = HoldInLog] IN
       \/ /\ status \in Terminal
          /\ client' = [c EXCEPT !.mode = "closed"]
          /\ reader' = NoReader
       \/ /\ status \notin Terminal
          /\ status # client.known
          /\ client' = [c EXCEPT !.mode = "opening"]
          /\ reader' = NoReader
       \/ /\ status = client.known
          /\ client' = c
          /\ UNCHANGED reader
  /\ UNCHANGED streamVars

------------------------------------------------------------------------------
(* stream_verification_events *)

Row == [status |-> status, publication |-> publication]

\* The hook opens a new EventSource, which has no last id and starts at 0-0.
\* The handler loads the run, and answers later.
Open ==
  /\ client.mode = "opening"
  /\ client' = [client EXCEPT !.mode = "open"]
  /\ reader' = [state |-> "check", cursor |-> 0, view |-> Row]
  /\ UNCHANGED streamVars

\* The newest event of the row's status, as the handler knows the row.
DurableEvent(v) == Max({i \in DOMAIN log : log[i].stage = v.status})

\* The handler ends the stream with that event.
Answer(v) ==
  /\ client' = AfterEnd(DurableEvent(v))
  /\ reader' = NoReader

Check ==
  /\ reader.state = "check"
  /\ \/ Over(reader.view) /\ Answer(reader.view)
     \/ ~Over(reader.view) /\ reader' = [reader EXCEPT !.state = "read"]
                           /\ UNCHANGED client
  /\ UNCHANGED streamVars

Unread == {i \in stream : i > reader.cursor}

EndsStream(i) == log[i].stage \in Terminal \/ log[i].kind = "held"

\* XREAD returns the entries after the cursor, here one at a time; a terminal or
\* held event is the last one sent.
Read ==
  /\ reader.state = "read"
  /\ Unread # {}
  /\ LET i == Min(Unread) IN
       \/ /\ EndsStream(i)
          /\ client' = AfterEnd(i)
          /\ reader' = NoReader
       \/ /\ ~EndsStream(i)
          /\ client' = Shown(i)
          /\ reader' = [reader EXCEPT !.cursor = i]
  /\ UNCHANGED streamVars

\* XREAD times out after the heartbeat interval.
Timeout ==
  /\ reader.state = "read"
  /\ Unread = {}
  /\ reader' = [reader EXCEPT !.state = "recheck"]
  /\ UNCHANGED <<streamVars, client>>

\* Faulty variant of Reloaded: the handler goes on with the row it loaded first.
NotReloaded == reader.view

\* db.expire: the row is loaded again.
Reloaded == Row

Recheck ==
  /\ reader.state = "recheck"
  /\ \/ Over(Reloaded) /\ Answer(Reloaded)
     \/ ~Over(Reloaded) /\ reader' = [reader EXCEPT !.state = "read",
                                                    !.view = Reloaded]
                        /\ UNCHANGED client
  /\ UNCHANGED streamVars

\* The request fails, the connection drops, or XREAD raises and the handler
\* sends "unavailable".
Drop ==
  /\ client.mode \in {"opening", "open"}
  /\ client' = ReconnectOrPoll(client)
  /\ reader' = NoReader
  /\ UNCHANGED streamVars

------------------------------------------------------------------------------
Reading ==
  Open \/ Check \/ Read \/ Timeout \/ Recheck \/ Drop \/ Reconnect \/ Refetch

RunEventsNext ==
  \/ Next /\ UNCHANGED <<reader, client>>
  \/ Reading

RunEventsSpec == RunEventsInit /\ [][RunEventsNext]_vars

\* The server answers what it was asked or the connection drops, timers fire and
\* a refetch that is due is made. Nothing is assumed of the writers or of Redis.
FairSpec ==
  /\ RunEventsSpec
  /\ WF_vars(Open \/ Check \/ Read \/ Timeout \/ Recheck \/ Drop)
  /\ WF_vars(Reconnect)
  /\ WF_vars(RefetchIsDue /\ Refetch)

------------------------------------------------------------------------------
(* Properties *)

View == [status : Status, publication : Publication]

\* The handler, the hook and all of ProgressStream keep their types.
RunEventsTypeOK ==
  /\ TypeOK
  /\ reader \in [state : {"none", "check", "read", "recheck"},
                 cursor : 0..Len(log), view : View]
  /\ client \in [mode : {"opening", "open", "waiting", "polling", "closed"},
                 attempts : 0..3, fallback : BOOLEAN, latest : 0..Len(log),
                 known : Status, held : BOOLEAN]

\* What the page shows never goes back to an earlier event, although every
\* reconnection replays the stream from its beginning.
DisplayMovesForward == [][client'.latest >= client.latest]_vars

Told == client.latest # 0 /\ log[client.latest].stage \in Terminal
HeldOpen == publication = "review_required" /\ status \notin Terminal
HoldOnPage ==
  \/ client.held
  \/ \E i \in 1..client.latest : log[i].kind = "held"

\* What the page does not know yet.
Owed ==
  \/ status \in Terminal /\ ~(Told \/ client.known \in Terminal)
  \/ HeldOpen /\ ~HoldOnPage

\* Whatever Redis and the connections do, the page comes back to owing nothing:
\* it learns that the run is over, and it shows a report that stays held as held,
\* or what happened to it since, although its event may never reach the stream.
PageCatchesUp == []<>~Owed
==============================================================================
