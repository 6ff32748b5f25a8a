------------------------ MODULE ProgressStreamProofs ------------------------
(***************************************************************************)
(* Type correctness of the mirror; that only an event which an API request *)
(* mirrors itself can overtake others; and why there is no hole as long as *)
(* the first event is the only one mirrored in that way. Then the readers: *)
(* what a page shows never goes back, as long as the run's workers take    *)
(* their times one at a time, and the types of the handler and the hook.   *)
(***************************************************************************)
EXTENDS RunEvents, SequenceTheorems, FiniteSetTheorems, WellFoundedInduction, TLAPS

\* Everything that refers to the log, or to the stream.
MirrorTypes ==
  /\ log \in Seq(Event)
  /\ stream \subseteq DOMAIN log
  /\ top \in 0..Len(log)
  /\ job \in [Process -> [next : Nat \ {0}, last : 0..Len(log)]]

\* A transaction that appends an event, mirrored by its own process or not,
\* keeps these types.
LEMMA AppendKeepsMirrorTypes ==
  ASSUME MirrorTypes,
         NEW stage \in Status, NEW kind \in {"progress", "held", "own"}, NEW time \in Nat,
         AppendEvent(stage, kind, time),
         UNCHANGED redis,
         UNCHANGED job \/ \E p \in Process : MirrorOwn(p)
  PROVE  MirrorTypes'
<1> DEFINE e == [stage |-> stage, kind |-> kind, at |-> time]
<1>1. e \in Event
  BY DEF Event
<1>2. /\ log' \in Seq(Event)
      /\ Len(log') = Len(log) + 1
      /\ DOMAIN log = 1..Len(log) /\ DOMAIN log' = 1..(Len(log) + 1)
      /\ Len(log) \in Nat
  <2> HIDE DEF e
  <2>1. log' = Append(log, e)
    BY DEF AppendEvent, e
  <2> QED
    BY <1>1, <2>1, AppendProperties DEF MirrorTypes
<1>3. stream' \subseteq DOMAIN log' /\ top' \in 0..Len(log')
  BY <1>2 DEF MirrorTypes, redis
<1>4. 0..Len(log) \subseteq 0..Len(log')
  BY <1>2
<1>5. job \in [Process -> [next : Nat \ {0}, last : 0..Len(log')]]
  BY <1>4 DEF MirrorTypes
<1>6. ASSUME NEW p \in Process, MirrorOwn(p)
      PROVE  job' \in [Process -> [next : Nat \ {0}, last : 0..Len(log')]]
  <2>1. [next |-> Len(log) + 1, last |-> Len(log) + 1]
          \in [next : Nat \ {0}, last : 0..Len(log')]
    BY <1>2
  <2> QED
    BY <1>5, <1>6, <2>1 DEF MirrorOwn
<1> QED
  BY <1>2, <1>3, <1>5, <1>6 DEF MirrorTypes

\* Only the mirror and the writers' jobs change, never the log.
LEMMA MirrorKeepsMirrorTypes ==
  ASSUME MirrorTypes, NEW p \in Process,
         Mirror(p) \/ MirrorFails(p) \/ Backfill(p) \/ Expire
  PROVE  MirrorTypes'
<1> DEFINE Jobs == [next : Nat \ {0}, last : 0..Len(log)]
<1>0. /\ log' = log /\ Len(log) \in Nat /\ DOMAIN log = 1..Len(log)
      /\ job \in [Process -> Jobs] /\ job[p] \in Jobs
  BY DEF MirrorTypes, Mirror, MirrorFails, Backfill, Expire, row
<1>1. CASE Mirror(p)
  <2>1. job[p].next \in 1..Len(log)
    BY <1>0, <1>1 DEF Mirror, Busy
  <2>2. [job[p] EXCEPT !.next = job[p].next + 1] \in Jobs
    BY <1>0, <2>1
  <2>3. job' = [job EXCEPT ![p] = [job[p] EXCEPT !.next = job[p].next + 1]]
    BY <1>0, <1>1 DEF Mirror
  <2>4. job' \in [Process -> Jobs]
    BY <1>0, <2>2, <2>3
  <2> QED
    BY <1>0, <1>1, <2>1, <2>4 DEF MirrorTypes, Mirror
<1>2. CASE MirrorFails(p)
  <2>1. NoJob \in Jobs
    BY <1>0 DEF NoJob
  <2> QED
    BY <1>0, <1>2, <2>1 DEF MirrorTypes, MirrorFails, AfterError, redis
<1>3. CASE Backfill(p)
  <2>1. [next |-> 1, last |-> WholeLog] \in Jobs
    BY <1>0 DEF WholeLog
  <2> QED
    BY <1>0, <1>3, <2>1 DEF MirrorTypes, Backfill, redis
<1>4. CASE Expire
  BY <1>0, <1>4 DEF MirrorTypes, Expire, row, writers
<1> QED
  BY <1>1, <1>2, <1>3, <1>4

------------------------------------------------------------------------------
LEMMA InitTypes == Init => TypeOK
<1> SUFFICES ASSUME Init PROVE TypeOK
  OBVIOUS
<1>1. [stage |-> "QUEUED", kind |-> "own", at |-> 3] \in Event
  BY DEF Event, Status
<1>2. log \in Seq(Event) /\ Len(log) = 1
  BY <1>1 DEF Init
<1>3. [next |-> 1, last |-> 1] \in [next : Nat \ {0}, last : 0..Len(log)]
      /\ NoJob \in [next : Nat \ {0}, last : 0..Len(log)]
  BY <1>2 DEF NoJob
<1>4. /\ stream \subseteq DOMAIN log /\ top \in 0..Len(log)
      /\ job \in [Process -> [next : Nat \ {0}, last : 0..Len(log)]]
  BY <1>2, <1>3 DEF Init
<1>5. status \in Status /\ publication \in Publication
  BY DEF Init, Status, Publication
<1> QED
  BY <1>2, <1>4, <1>5 DEF Init, TypeOK

\* Each action keeps the types.
LEMMA NextTypes ==
  ASSUME ProgressStreamAssumption, TypeOK, [Next]_streamVars
  PROVE  TypeOK'
<1> USE DEF TypeOK
<1> DEFINE RowTypes == /\ status \in Status /\ publication \in Publication
                       /\ cancelRequested \in BOOLEAN
           WriterTypes == /\ stamp \in [Process -> Nat]
                          /\ api \in {"create", "reject", "done"}
                          /\ queued \in BOOLEAN
<1>0. MirrorTypes /\ Len(log) \in Nat /\ Now \in Nat
      /\ Worker \subseteq Process /\ Api \in Process /\ Owner \in Process
  BY DEF MirrorTypes, Now, Process
<1>s. ASSUME NEW p \in Process
      PROVE  [stamp EXCEPT ![p] = 0] \in [Process -> Nat]
  OBVIOUS
<1>1. ASSUME NEW p \in Process, TakeTime(p)
      PROVE  TypeOK'
  <2>1. PICK time \in {Now + 1, Now + 2} : stamp' = [stamp EXCEPT ![p] = time]
    BY <1>1 DEF TakeTime
  <2>2. stamp' \in [Process -> Nat]
    BY <1>0, <2>1
  <2> QED
    BY <1>1, <2>2 DEF TakeTime, row, redis
<1>2. ASSUME NEW p \in Process, GiveUp(p)
      PROVE  TypeOK'
  BY <1>2, <1>s DEF GiveUp, row, redis
<1>3. ASSUME NEW p \in Process, Mirror(p) \/ MirrorFails(p) \/ Backfill(p) \/ Expire
      PROVE  TypeOK'
  <2>1. MirrorTypes'
    BY <1>0, <1>3, MirrorKeepsMirrorTypes
  <2>2. RowTypes' /\ WriterTypes'
    BY <1>3 DEF Mirror, MirrorFails, Backfill, Expire, row, writers
  <2> QED
    BY <2>1, <2>2 DEF MirrorTypes
<1>4. ASSUME NEW p \in Process, NEW stage \in Status,
             NEW kind \in {"progress", "own"}, PersistProgress(p, stage, kind),
             UNCHANGED redis, UNCHANGED queued,
             UNCHANGED api \/ api' = "done",
             UNCHANGED job \/ MirrorOwn(p)
      PROVE  TypeOK'
  <2>1. AppendEvent(stage, kind, stamp[p]) /\ stamp[p] \in Nat
    BY <1>4 DEF PersistProgress
  <2>2. MirrorTypes'
    BY <1>0, <1>4, <2>1, AppendKeepsMirrorTypes
  <2>3. RowTypes' /\ WriterTypes'
    BY <1>4, <1>s DEF PersistProgress
  <2> QED
    BY <2>2, <2>3 DEF MirrorTypes
<1>5. ASSUME NEW w \in Worker, NEW stage \in Stages, WorkerProgress(w, stage)
      PROVE  TypeOK'
  <2>1. stage \in Status
    BY DEF ProgressStreamAssumption
  <2>2. /\ PersistProgress(w, stage, "progress")
        /\ UNCHANGED redis /\ UNCHANGED queued /\ UNCHANGED api /\ UNCHANGED job
    BY <1>5 DEF WorkerProgress
  <2> QED
    BY <1>0, <1>4, <2>1, <2>2
<1>6. CASE RejectRun
  <2>1. "FAILED" \in Status
    BY DEF Status, Terminal
  <2>2. /\ PersistProgress(Api, "FAILED", "own")
        /\ UNCHANGED redis /\ UNCHANGED queued /\ api' = "done" /\ MirrorOwn(Api)
    BY <1>6 DEF RejectRun
  <2> QED
    BY <1>0, <1>4, <2>1, <2>2
<1>7. ASSUME NEW w \in Worker, PersistCompleted(w)
      PROVE  TypeOK'
  <2>1. PICK stage \in {"AUDITING", "COMPLETED"}, kind \in {"progress", "held"} :
          AppendEvent(stage, kind, stamp[w])
    BY <1>7 DEF PersistCompleted
  <2>2. stage \in Status /\ stamp[w] \in Nat
    BY <1>0 DEF Status, Terminal
  <2>3. MirrorTypes'
    BY <1>0, <1>7, <2>1, <2>2, AppendKeepsMirrorTypes DEF PersistCompleted
  <2>4. RowTypes' /\ WriterTypes'
    BY <1>0, <1>7, <1>s DEF PersistCompleted, Publication, Status, Terminal
  <2> QED
    BY <2>3, <2>4 DEF MirrorTypes
<1>8. CASE Enqueue
  <2>1. UNCHANGED <<row, redis, stamp, job>>
    BY <1>8 DEF Enqueue
  <2>2. api' \in {"create", "reject", "done"}
    BY <1>8 DEF Enqueue
  <2>3. ("reject" \in Requests) \in BOOLEAN
    OBVIOUS
  <2>4. queued' = TRUE \/ queued' \in {FALSE, "reject" \in Requests}
    BY <1>8 DEF Enqueue
  <2>5. queued' \in BOOLEAN
    BY <2>3, <2>4, Zenon
  <2>6. MirrorTypes' /\ RowTypes'
    BY <1>0, <2>1 DEF MirrorTypes, row, redis
  <2> QED
    BY <1>0, <2>1, <2>2, <2>5, <2>6 DEF MirrorTypes
<1>9. CASE Cancel
  <2>1. status' \in Status
    BY <1>9 DEF Cancel, Status, Terminal
  <2>2. AppendEvent(status', "own", Now + 3)
    BY <1>9 DEF Cancel
  <2>5. Now + 3 \in Nat
    BY <1>0
  <2>3. MirrorTypes'
    BY <1>0, <1>9, <2>1, <2>2, <2>5, AppendKeepsMirrorTypes DEF Cancel
  <2>4. RowTypes' /\ WriterTypes'
    BY <1>9, <2>1 DEF Cancel
  <2> QED
    BY <2>3, <2>4 DEF MirrorTypes
<1>10. CASE Decide
  <2>1. status' \in Status /\ publication' \in Publication
    BY <1>10 DEF Decide, Status, Terminal, Publication
  <2>2. AppendEvent(status', "progress", Now + 3)
    BY <1>10 DEF Decide
  <2>5. Now + 3 \in Nat
    BY <1>0
  <2>3. MirrorTypes'
    BY <1>0, <1>10, <2>1, <2>2, <2>5, AppendKeepsMirrorTypes DEF Decide
  <2>4. RowTypes' /\ WriterTypes'
    BY <1>10, <2>1 DEF Decide
  <2> QED
    BY <2>3, <2>4 DEF MirrorTypes
<1>11. CASE UNCHANGED streamVars
  BY <1>11 DEF streamVars, row, redis, writers
<1> QED
  BY <1>0, <1>1, <1>2, <1>3, <1>5, <1>6, <1>7, <1>8, <1>9, <1>10, <1>11 DEF Next

\* The log, the stream and every process are always of their types.
THEOREM MirrorTypeCorrect == Spec => []TypeOK
<1>1. TypeOK /\ [Next]_streamVars => TypeOK'
  BY NextTypes, ProgressStreamAssumption
<1> QED
  BY <1>1, InitTypes, PTL DEF Spec

------------------------------------------------------------------------------
(* Overtaking *)

Own(i) == log[i].kind = "own"

\* The top event is in the stream; a backfill is at most one event ahead of it,
\* and every other mirror is of an own event.
Overtaking ==
  /\ OnlyOwnEventsOvertake
  /\ top # 0 => top \in stream
  /\ \A i \in stream : i <= top
  /\ \A p \in Process : Busy(p) =>
       \/ job[p].next <= top + 1
       \/ job[p].next = job[p].last /\ Own(job[p].last)

\* An append keeps the events that are there.
LEMMA AppendKeepsEvents ==
  ASSUME TypeOK, NEW stage \in Status,
         NEW kind \in {"progress", "held", "own"}, NEW time \in Nat,
         AppendEvent(stage, kind, time)
  PROVE  /\ \A i \in DOMAIN log : log'[i] = log[i]
         /\ log'[Len(log) + 1].kind = kind
         /\ Len(log) \in Nat /\ DOMAIN log = 1..Len(log)
<1> DEFINE e == [stage |-> stage, kind |-> kind, at |-> time]
<1>1. e \in Event
  BY DEF Event
<1>2. log' = Append(log, e)
  BY DEF AppendEvent
<1> HIDE DEF e
<1>3. log \in Seq(Event)
  BY DEF TypeOK
<1>4. /\ \A i \in 1..Len(log) : log'[i] = log[i]
      /\ log'[Len(log) + 1] = e
      /\ Len(log) \in Nat /\ DOMAIN log = 1..Len(log)
  BY <1>1, <1>2, <1>3, AppendProperties
<1> QED
  BY <1>4 DEF e

\* A transaction disturbs no part of Overtaking.
LEMMA AppendKeepsOvertaking ==
  ASSUME TypeOK, Overtaking, NEW stage \in Status,
         NEW kind \in {"progress", "held", "own"}, NEW time \in Nat,
         AppendEvent(stage, kind, time),
         UNCHANGED redis,
         \/ UNCHANGED job
         \/ kind = "own" /\ \E p \in Process : MirrorOwn(p)
  PROVE  Overtaking'
<1>1. /\ \A i \in DOMAIN log : log'[i] = log[i]
      /\ log'[Len(log) + 1].kind = kind
      /\ Len(log) \in Nat /\ DOMAIN log = 1..Len(log)
  BY AppendKeepsEvents
<1>2. \A i \in stream : i \in DOMAIN log
  BY DEF TypeOK
<1>3. \A p \in Process : Busy(p) => job[p].last \in DOMAIN log
  <2> TAKE p \in Process
  <2>1. job[p] \in [next : Nat \ {0}, last : 0..Len(log)]
    BY DEF TypeOK
  <2> QED
    BY <1>1, <2>1 DEF Busy
<1>4. stream' = stream /\ top' = top
  BY DEF redis
<1>5. OnlyOwnEventsOvertake'
  BY <1>1, <1>2, <1>4 DEF Overtaking, OnlyOwnEventsOvertake
<1>6. ASSUME NEW q \in Process, Busy(q)', job'[q] = job[q]
      PROVE  \/ job'[q].next <= top' + 1
             \/ job'[q].next = job'[q].last /\ Own(job[q].last)'
  BY <1>1, <1>3, <1>4, <1>6 DEF Overtaking, Busy, Own
<1>7. ASSUME NEW q \in Process, Busy(q)'
      PROVE  \/ job'[q].next <= top' + 1
             \/ job'[q].next = job'[q].last /\ Own(job[q].last)'
  <2>1. CASE UNCHANGED job
    BY <1>6, <1>7, <2>1
  <2>2. ASSUME NEW p \in Process, MirrorOwn(p), kind = "own"
        PROVE  \/ job'[q].next <= top' + 1
               \/ job'[q].next = job'[q].last /\ Own(job[q].last)'
    <3>1. CASE q = p
      <4>1. job'[q] = [next |-> Len(log) + 1, last |-> Len(log) + 1]
        BY <2>2, <3>1 DEF MirrorOwn, TypeOK
      <4> QED
        BY <1>1, <2>2, <4>1 DEF Own
    <3>2. CASE q # p
      <4>1. job'[q] = job[q]
        BY <2>2, <3>2 DEF MirrorOwn, TypeOK
      <4> QED
        BY <1>6, <1>7, <4>1
    <3> QED
      BY <3>1, <3>2
  <2> QED
    BY <2>1, <2>2
<1> QED
  BY <1>4, <1>5, <1>7 DEF Overtaking

\* One mirrored event: it is above the top one by one, or an own event, or the
\* stream refuses it.
LEMMA MirrorKeepsOvertaking ==
  ASSUME TypeOK, Overtaking, NEW p \in Process, Mirror(p)
  PROVE  Overtaking'
<1> DEFINE id == job[p].next
<1>1. /\ top \in Nat /\ id \in Nat \ {0} /\ log' = log
      /\ \A i \in stream : i \in Nat \ {0}
      /\ \A q \in Process : job[q] \in [next : Nat \ {0}, last : 0..Len(log)]
  BY DEF TypeOK, Mirror, row
<1>2. Busy(p) /\ id <= job[p].last
  BY DEF Mirror, Busy
<1>3. \/ id <= top /\ stream' = stream /\ top' = top
      \/ id > top /\ stream' = stream \union {id} /\ top' = id
  BY <1>1 DEF Mirror
<1>4. \/ id <= top + 1
      \/ id = job[p].last /\ Own(id)
  BY <1>2 DEF Overtaking
<1>5. OnlyOwnEventsOvertake'
  <2> SUFFICES ASSUME NEW i \in stream'
               PROVE  i = 1 \/ i - 1 \in stream' \/ Own(i)
    BY <1>1 DEF OnlyOwnEventsOvertake, Own
  <2>1. CASE i \in stream
    BY <1>3, <2>1 DEF Overtaking, OnlyOwnEventsOvertake, Own
  <2>2. CASE i = id /\ id > top /\ id <= top + 1
    <3>1. top = id - 1
      BY <1>1, <2>2
    <3> QED
      BY <1>1, <1>3, <2>2, <3>1 DEF Overtaking
  <2> QED
    BY <1>1, <1>3, <1>4, <2>1, <2>2
<1>6. /\ top' # 0 => top' \in stream'
      /\ \A i \in stream' : i <= top'
      /\ top <= top' /\ id <= top' /\ top' \in Nat
  BY <1>1, <1>3 DEF Overtaking
<1>7. ASSUME NEW q \in Process, Busy(q)'
      PROVE  \/ job'[q].next <= top' + 1
             \/ job'[q].next = job'[q].last /\ Own(job[q].last)'
  <2>1. CASE q = p
    <3>1. job'[q].next = id + 1
      BY <2>1 DEF Mirror, TypeOK
    <3> QED
      BY <1>1, <1>6, <3>1
  <2>2. CASE q # p
    <3>1. job'[q] = job[q]
      BY <2>2 DEF Mirror, TypeOK
    <3>2. Busy(q)
      BY <1>7, <3>1 DEF Busy
    <3>3. CASE job[q].next <= top + 1
      BY <1>1, <1>6, <3>1, <3>3
    <3>4. CASE job[q].next = job[q].last /\ Own(job[q].last)
      BY <1>1, <3>1, <3>4 DEF Own
    <3> QED
      BY <3>2, <3>3, <3>4 DEF Overtaking
  <2> QED
    BY <2>1, <2>2
<1> QED
  BY <1>5, <1>6, <1>7 DEF Overtaking

LEMMA NextOvertaking ==
  ASSUME ProgressStreamAssumption, TypeOK, Overtaking, [Next]_streamVars
  PROVE  Overtaking'
<1>0. /\ Worker \subseteq Process /\ Api \in Process /\ Owner \in Process
      /\ top \in Nat /\ Len(log) \in Nat /\ Now + 3 \in Nat
      /\ \A p \in Process : stamp[p] \in Nat
      /\ job \in [Process -> [next : Nat \ {0}, last : 0..Len(log)]]
  BY DEF TypeOK, Process, Now
<1>1. ASSUME log' = log, UNCHANGED redis, UNCHANGED job
      PROVE  Overtaking'
  BY <1>1 DEF Overtaking, OnlyOwnEventsOvertake, redis, Busy, Own
<1>2. ASSUME NEW p \in Process, TakeTime(p) \/ GiveUp(p)
      PROVE  Overtaking'
  BY <1>1, <1>2 DEF TakeTime, GiveUp, row
<1>3. ASSUME NEW p \in Process, MirrorFails(p) \/ Backfill(p)
      PROVE  Overtaking'
  <2>1. /\ log' = log /\ stream' = stream /\ top' = top
        /\ \E j : j.next = 1 /\ job' = [job EXCEPT ![p] = j]
    BY <1>3 DEF MirrorFails, Backfill, AfterError, NoJob, row, redis
  <2>2. \A q \in Process : job'[q].next = 1 \/ job'[q] = job[q]
    BY <1>0, <2>1
  <2>3. \A q \in Process : Busy(q)' =>
          \/ job'[q].next <= top + 1
          \/ job'[q].next = job'[q].last /\ Own(job'[q].last)
    <3> SUFFICES ASSUME NEW q \in Process, Busy(q)'
                 PROVE  \/ job'[q].next <= top + 1
                        \/ job'[q].next = job'[q].last /\ Own(job'[q].last)
      OBVIOUS
    <3>1. CASE job'[q].next = 1
      BY <1>0, <3>1
    <3>2. CASE job'[q] = job[q]
      BY <3>2 DEF Overtaking, Busy
    <3> QED
      BY <2>2, <3>1, <3>2
  <2> QED
    BY <2>1, <2>3 DEF Overtaking, OnlyOwnEventsOvertake, Own
<1>4. ASSUME NEW w \in Worker, NEW stage \in Stages, WorkerProgress(w, stage)
      PROVE  Overtaking'
  <2>1. stage \in Status
    BY DEF ProgressStreamAssumption
  <2>2. AppendEvent(stage, "progress", stamp[w]) /\ UNCHANGED redis /\ UNCHANGED job
    BY <1>4 DEF WorkerProgress, PersistProgress
  <2> QED
    BY <1>0, <2>1, <2>2, AppendKeepsOvertaking
<1>5. ASSUME NEW w \in Worker, PersistCompleted(w)
      PROVE  Overtaking'
  <2>1. PICK stage \in {"AUDITING", "COMPLETED"}, kind \in {"progress", "held"} :
          AppendEvent(stage, kind, stamp[w])
    BY <1>5 DEF PersistCompleted
  <2>2. stage \in Status /\ UNCHANGED redis /\ UNCHANGED job
    BY <1>5 DEF PersistCompleted, Status, Terminal
  <2> QED
    BY <1>0, <2>1, <2>2, AppendKeepsOvertaking
<1>6. CASE RejectRun
  <2>1. "FAILED" \in Status
    BY DEF Status, Terminal
  <2>2. AppendEvent("FAILED", "own", stamp[Api]) /\ UNCHANGED redis /\ MirrorOwn(Api)
    BY <1>6 DEF RejectRun, PersistProgress
  <2> QED
    BY <1>0, <2>1, <2>2, AppendKeepsOvertaking
<1>7. CASE Cancel
  <2>1. status' \in Status
    BY <1>7 DEF Cancel, Status, Terminal, TypeOK
  <2>2. AppendEvent(status', "own", Now + 3) /\ UNCHANGED redis /\ MirrorOwn(Owner)
    BY <1>7 DEF Cancel
  <2> QED
    BY <1>0, <2>1, <2>2, AppendKeepsOvertaking
<1>8. CASE Decide
  <2>1. status' \in Status
    BY <1>8 DEF Decide, Status, Terminal, TypeOK
  <2>2. AppendEvent(status', "progress", Now + 3) /\ UNCHANGED redis /\ UNCHANGED job
    BY <1>8 DEF Decide
  <2> QED
    BY <1>0, <2>1, <2>2, AppendKeepsOvertaking
<1>9. CASE Enqueue
  BY <1>1, <1>9 DEF Enqueue, row
<1>10. CASE Expire
  BY <1>10 DEF Expire, Overtaking, OnlyOwnEventsOvertake, Busy, writers
<1>11. CASE UNCHANGED streamVars
  BY <1>1, <1>11 DEF streamVars, row, writers
<1> QED
  BY <1>0, <1>2, <1>3, <1>4, <1>5, <1>6, <1>7, <1>8, <1>9, <1>10, <1>11,
     MirrorKeepsOvertaking DEF Next

\* Whatever Redis, the workers and the requests do, only an event that an API
\* request mirrors itself ever overtakes another one.
THEOREM OnlyOwnOvertake == Spec => []OnlyOwnEventsOvertake
<1> DEFINE IInv == TypeOK /\ Overtaking
<1>1. Init => Overtaking
  BY DEF Init, Overtaking, OnlyOwnEventsOvertake, Busy, NoJob, Process
<1>2. IInv /\ [Next]_streamVars => IInv'
  BY NextTypes, NextOvertaking, ProgressStreamAssumption
<1>3. IInv => OnlyOwnEventsOvertake
  BY DEF Overtaking
<1> QED
  BY <1>1, <1>2, <1>3, InitTypes, PTL DEF Spec

------------------------------------------------------------------------------
(* No hole *)

\* The stream holds exactly the events up to its top one, and no process is
\* further than one event ahead of it.
Prefix ==
  /\ stream = 1..top
  /\ \A p \in Process : Busy(p) => job[p].next <= top + 1

LEMMA NextPrefix ==
  ASSUME ProgressStreamAssumption, Requests \subseteq {"decide"},
         TypeOK, TypeOK', Prefix, api # "reject" , [Next]_streamVars
  PROVE  Prefix' /\ api' # "reject"
<1>0. /\ top \in Nat /\ Worker \subseteq Process
      /\ \A p \in Process : job[p].next \in Nat \ {0}
      /\ job \in [Process -> [next : Nat \ {0}, last : 0..Len(log)]]
  BY DEF TypeOK, Process
<1>1. ASSUME UNCHANGED redis, UNCHANGED job
      PROVE  Prefix'
  BY <1>1 DEF Prefix, redis, Busy
<1>2. ASSUME NEW p \in Process, TakeTime(p) \/ GiveUp(p)
      PROVE  Prefix' /\ api' # "reject"
  BY <1>1, <1>2 DEF TakeTime, GiveUp
<1>3. ASSUME NEW p \in Process, Mirror(p)
      PROVE  Prefix' /\ api' # "reject"
  <2> DEFINE id == job[p].next
  <2>1. id \in Nat \ {0} /\ id <= top + 1 /\ api' = api
    BY <1>0, <1>3 DEF Mirror, Prefix
  <2>2. /\ stream' = 1..top' /\ top' \in Nat /\ top <= top' /\ id <= top'
    <3>1. CASE id > top
      <4>1. id = top + 1 /\ top' = id /\ stream' = stream \union {id}
        BY <1>0, <1>3, <2>1, <3>1 DEF Mirror
      <4>2. (1..top) \union {top + 1} = 1..(top + 1)
        BY <1>0
      <4> QED
        BY <1>0, <4>1, <4>2 DEF Prefix
    <3>2. CASE id <= top
      BY <1>0, <1>3, <2>1, <3>2 DEF Mirror, Prefix
    <3> QED
      BY <1>0, <2>1, <3>1, <3>2
  <2>3. ASSUME NEW q \in Process, Busy(q)'
        PROVE  job'[q].next <= top' + 1
    <3>1. CASE q = p
      BY <1>0, <1>3, <2>1, <2>2, <3>1 DEF Mirror
    <3>2. CASE q # p
      <4>1. job'[q] = job[q]
        BY <1>0, <1>3, <3>2 DEF Mirror
      <4> QED
        BY <1>0, <2>2, <2>3, <4>1 DEF Prefix, Busy
    <3> QED
      BY <3>1, <3>2
  <2> QED
    BY <2>1, <2>2, <2>3 DEF Prefix
<1>4. ASSUME NEW p \in Process, MirrorFails(p) \/ Backfill(p)
      PROVE  Prefix' /\ api' # "reject"
  <2>1. /\ UNCHANGED redis /\ api' = api
        /\ \E j : j.next = 1 /\ job' = [job EXCEPT ![p] = j]
    BY <1>4 DEF MirrorFails, Backfill, AfterError, NoJob
  <2> QED
    BY <1>0, <2>1 DEF Prefix, redis, Busy
<1>5. ASSUME NEW w \in Worker,
             PersistCompleted(w) \/ \E stage \in Stages : WorkerProgress(w, stage)
      PROVE  Prefix' /\ api' # "reject"
  BY <1>1, <1>5 DEF PersistCompleted, WorkerProgress
<1>6. CASE Enqueue
  BY <1>1, <1>6 DEF Enqueue
<1>7. CASE RejectRun \/ Cancel
  BY <1>7 DEF RejectRun, Cancel
<1>8. CASE Decide
  BY <1>1, <1>8 DEF Decide
<1>9. CASE Expire
  BY <1>9 DEF Expire, Prefix, Busy, writers
<1>10. CASE UNCHANGED streamVars
  BY <1>1, <1>10 DEF streamVars, writers
<1> QED
  BY <1>0, <1>2, <1>3, <1>4, <1>5, <1>6, <1>7, <1>8, <1>9, <1>10 DEF Next

\* When no API request mirrors an event of its own after the first one, no
\* outage, no overlap of two workers' backfills and no expiry of the key leaves
\* a permanent hole in the stream.
THEOREM BackfillKeepsNoHole ==
  ASSUME Requests \subseteq {"decide"}
  PROVE  Spec => []NoPermanentHole
<1> DEFINE IInv == TypeOK /\ Prefix /\ api # "reject"
<1>1. Init => IInv
  <2> SUFFICES ASSUME Init PROVE Prefix /\ api # "reject"
    BY InitTypes
  <2> QED
    BY DEF Init, Prefix, Busy, NoJob, Process
<1>2. IInv /\ [Next]_streamVars => IInv'
  BY NextTypes, NextPrefix, ProgressStreamAssumption
<1>3. IInv => NoPermanentHole
  BY DEF Prefix, NoPermanentHole, TypeOK
<1> QED
  BY <1>1, <1>2, <1>3, PTL DEF Spec

------------------------------------------------------------------------------
(* What the page shows *)

\* No two workers wait for the row with a time in hand: at most one is at work on
\* the run, and what an earlier one left behind is only mirrored.
OneWriter == \A v, w \in Worker : stamp[v] # 0 /\ stamp[w] # 0 => v = w

Ends(i) == log[i].stage \in Terminal
HoldAt(i) == log[i].kind = "held"

\* An event that is later than all before it; and one of a worker that waited
\* while a request's event was committed.
Newest(i) == \A j \in 1..(i - 1) : log[j].at < log[i].at
Late(i) == i > 1 /\ log[i].at < log[i - 1].at /\ log[i].kind # "own"

LastIsStatus == Len(log) > 0 /\ log[Len(log)].stage = status
Ordered == \A i \in 1..Len(log) : log[i].at <= 3 * i /\ (Ends(i) \/ Newest(i) \/ Late(i))
EndStays == \A i, j \in 1..Len(log) : i <= j /\ Ends(i) => Ends(j)
AfterHold ==
  \A i \in 1..Len(log) :
    HoldAt(i) => /\ log[i].stage = "AUDITING"
                 /\ \A j \in 1..Len(log) : i <= j => Ends(j) \/ Newest(j)
LogInv == LastIsStatus /\ Ordered /\ EndStays /\ AfterHold

HoldLogged == \E i \in 1..Len(log) : HoldAt(i)
HoldInv ==
  /\ HoldLogged => publication \in Held \/ status \in Terminal
  /\ publication \in Held => HoldLogged /\ (status = "AUDITING" \/ status \in Terminal)

\* A worker's time is that of the log it saw, plus one or two; since then only
\* requests have committed, and each has ended the run, held it or cancelled it.
Waits(w) ==
  /\ \A k \in Nat : 3 * k # stamp[w]
  /\ \A k \in 1..Len(log) : stamp[w] < 3 * k => Ends(k) \/ log[k].at = 3 * k
  /\ ~cancelRequested /\ publication \notin Held /\ status \notin Terminal
       => 3 * Len(log) < stamp[w]
TimeInv ==
  /\ \A p \in Process : stamp[p] <= 3 * Len(log) + 2
  /\ \A w \in Worker : stamp[w] # 0 => Waits(w)

\* An append adds one event.
LEMMA AppendAdds ==
  ASSUME TypeOK, NEW stage \in Status,
         NEW kind \in {"progress", "held", "own"}, NEW time \in Nat,
         AppendEvent(stage, kind, time)
  PROVE  /\ \A i \in 1..Len(log) : log'[i] = log[i] /\ log[i] \in Event
         /\ log'[Len(log) + 1].kind = kind
         /\ log'[Len(log) + 1].stage = stage
         /\ log'[Len(log) + 1].at = time
         /\ Len(log) \in Nat /\ Len(log') = Len(log) + 1
         /\ 1..Len(log') = 1..Len(log) \cup {Len(log) + 1}
<1> DEFINE e == [stage |-> stage, kind |-> kind, at |-> time]
<1>1. e \in Event
  BY DEF Event
<1>2. log' = Append(log, e)
  BY DEF AppendEvent
<1> HIDE DEF e
<1>3. log \in Seq(Event)
  BY DEF TypeOK
<1>4. /\ \A i \in 1..Len(log) : log'[i] = log[i] /\ log[i] \in Event
      /\ log'[Len(log) + 1] = e
      /\ Len(log) \in Nat /\ Len(log') = Len(log) + 1
  BY <1>1, <1>2, <1>3, AppendProperties
<1>5. 1..Len(log') = 1..Len(log) \cup {Len(log) + 1}
  BY <1>4
<1> QED
  BY <1>4, <1>5 DEF e

LEMMA AppendKeepsLogInv ==
  ASSUME TypeOK, LogInv, NEW stage \in Status,
         NEW kind \in {"progress", "held", "own"}, NEW time \in Nat,
         AppendEvent(stage, kind, time), status' = stage,
         time <= 3 * Len(log) + 3,
         stage \in Terminal \/ status \notin Terminal,
         kind = "held" => stage = "AUDITING" /\ 3 * Len(log) < time,
         \/ stage \in Terminal
         \/ 3 * Len(log) < time
         \/ time < log[Len(log)].at /\ kind # "own" /\ ~HoldLogged
  PROVE  LogInv'
<1>n. PICK n \in Nat : n = Len(log)
  BY DEF TypeOK
<1>0. /\ \A i \in 1..n : log'[i] = log[i] /\ log[i] \in Event
      /\ log'[n + 1].kind = kind /\ log'[n + 1].stage = stage /\ log'[n + 1].at = time
      /\ n \in Nat /\ Len(log') = n + 1 /\ 1..Len(log') = 1..n \cup {n + 1}
      /\ n > 0 /\ n \in 1..n
  <2>1. n > 0
    BY <1>n DEF LogInv, LastIsStatus
  <2> QED
    BY <1>n, <2>1, AppendAdds
<1>1. \A i \in 1..n : log[i].at \in Nat /\ log[i].at <= 3 * i /\ 3 * i <= 3 * n
  BY <1>n, <1>0 DEF LogInv, Ordered, Event
<1>2. \A i \in 1..n : /\ Ends(i)' <=> Ends(i)
                      /\ HoldAt(i)' <=> HoldAt(i)
                      /\ Newest(i) => Newest(i)'
                      /\ Late(i) => Late(i)'
  <2> SUFFICES ASSUME NEW i \in 1..n
               PROVE  /\ Ends(i)' <=> Ends(i)
                      /\ HoldAt(i)' <=> HoldAt(i)
                      /\ Newest(i) => Newest(i)'
                      /\ Late(i) => Late(i)'
    OBVIOUS
  <2>1. \A j \in 1..(i - 1) : j \in 1..n
    BY <1>0
  <2>2. i > 1 => i - 1 \in 1..n
    BY <1>0
  <2> QED
    BY <1>0, <2>1, <2>2 DEF Ends, HoldAt, Newest, Late
<1>3. 3 * n < time => Newest(n + 1)'
  <2>1. (n + 1) - 1 = n
    BY <1>0
  <2> SUFFICES ASSUME 3 * n < time, NEW j \in 1..n PROVE log'[j].at < time
    BY <1>0, <2>1 DEF Newest
  <2> QED
    BY <1>0, <1>1
<1>4. time < log[n].at /\ kind # "own" => Late(n + 1)'
  BY <1>0 DEF Late
<1>5. Ends(n + 1)' <=> stage \in Terminal
  BY <1>0 DEF Ends
<1>6. HoldAt(n + 1)' <=> kind = "held"
  BY <1>0 DEF HoldAt
<1>7. Ends(n + 1)' \/ Newest(n + 1)' \/ Late(n + 1)'
  BY <1>n, <1>3, <1>4, <1>5
<1>8. LastIsStatus'
  BY <1>0 DEF LastIsStatus
<1>9. Ordered'
  <2>1. \A i \in 1..n : log'[i].at <= 3 * i /\ (Ends(i)' \/ Newest(i)' \/ Late(i)')
    BY <1>n, <1>0, <1>2 DEF LogInv, Ordered
  <2>2. log'[n + 1].at <= 3 * (n + 1)
    BY <1>n, <1>0
  <2> QED
    BY <1>0, <1>7, <2>1, <2>2 DEF Ordered
<1>10. EndStays'
  <2>1. \A i \in 1..n : Ends(i) => stage \in Terminal
    <3>1. \A i \in 1..n : Ends(i) => Ends(n)
      BY <1>n, <1>0 DEF LogInv, EndStays
    <3>2. Ends(n) => status \in Terminal
      BY <1>n DEF LogInv, LastIsStatus, Ends
    <3> QED
      BY <3>1, <3>2
  <2>2. \A i \in 1..n : \A j \in 1..n : i <= j /\ Ends(i)' => Ends(j)'
    BY <1>n, <1>2 DEF LogInv, EndStays
  <2>3. \A i \in 1..n : Ends(i)' => Ends(n + 1)'
    BY <1>2, <1>5, <2>1
  <2>4. \A j \in 1..n : ~(n + 1 <= j)
    BY <1>0
  <2> QED
    BY <1>0, <2>2, <2>3, <2>4 DEF EndStays
<1>11. AfterHold'
  <2>1. ASSUME NEW i \in 1..n, HoldAt(i)'
        PROVE  /\ log'[i].stage = "AUDITING"
               /\ \A j \in 1..Len(log') : i <= j => Ends(j)' \/ Newest(j)'
    <3>1. HoldAt(i) /\ HoldLogged
      BY <1>n, <1>2, <2>1 DEF HoldLogged
    <3>2. \A j \in 1..n : i <= j => Ends(j)' \/ Newest(j)'
      BY <1>n, <1>2, <3>1 DEF LogInv, AfterHold
    <3>3. Ends(n + 1)' \/ Newest(n + 1)'
      BY <1>n, <1>3, <1>5, <3>1
    <3>4. log'[i].stage = "AUDITING"
      BY <1>n, <1>0, <3>1 DEF LogInv, AfterHold
    <3> QED
      BY <1>0, <3>2, <3>3, <3>4
  <2>2. ASSUME HoldAt(n + 1)'
        PROVE  /\ log'[n + 1].stage = "AUDITING"
               /\ \A j \in 1..Len(log') : n + 1 <= j => Ends(j)' \/ Newest(j)'
    <3>1. stage = "AUDITING" /\ Newest(n + 1)'
      BY <1>n, <1>3, <1>6, <2>2
    <3>2. \A j \in 1..n : ~(n + 1 <= j)
      BY <1>0
    <3> QED
      BY <1>0, <3>1, <3>2
  <2> QED
    BY <1>0, <2>1, <2>2 DEF AfterHold
<1> QED
  BY <1>8, <1>9, <1>10, <1>11 DEF LogInv

\* A transaction ends the waiting of its own worker, or is a request's and ends,
\* holds or cancels the run.
LEMMA AppendKeepsTimeInv ==
  ASSUME TypeOK, TimeInv, NEW stage \in Status,
         NEW kind \in {"progress", "held", "own"}, NEW time \in Nat,
         AppendEvent(stage, kind, time),
         stamp' \in [Process -> Nat], Worker \subseteq Process,
         \A p \in Process : stamp'[p] \in {0, stamp[p]},
         \/ \A w \in Worker : stamp'[w] = 0
         \/ /\ stage \in Terminal \/ time = 3 * Len(log) + 3
            /\ cancelRequested' \/ publication' \in Held \/ status' \in Terminal
  PROVE  TimeInv'
<1>n. PICK n \in Nat : n = Len(log)
  BY DEF TypeOK
<1>0. /\ \A i \in 1..n : log'[i] = log[i] /\ log[i] \in Event
      /\ log'[n + 1].stage = stage /\ log'[n + 1].at = time
      /\ n \in Nat /\ Len(log') = n + 1 /\ 1..Len(log') = 1..n \cup {n + 1}
  BY <1>n, AppendAdds
<1>1. \A p \in Process : stamp[p] \in Nat /\ stamp[p] <= 3 * n + 2
  BY <1>n DEF TimeInv, TypeOK
<1>2. \A p \in Process : stamp'[p] <= 3 * (n + 1) + 2
  BY <1>0, <1>1
<1>3. ASSUME NEW w \in Worker, stamp'[w] # 0 PROVE Waits(w)'
  <2>1. /\ stamp'[w] = stamp[w] /\ Waits(w)
        /\ stage \in Terminal \/ time = 3 * (n + 1)
        /\ cancelRequested' \/ publication' \in Held \/ status' \in Terminal
    BY <1>n, <1>0, <1>3 DEF TimeInv
  <2>2. \A k \in 1..n : stamp'[w] < 3 * k => Ends(k)' \/ log'[k].at = 3 * k
    BY <1>n, <1>0, <2>1 DEF Waits, Ends
  <2>3. Ends(n + 1)' \/ log'[n + 1].at = 3 * (n + 1)
    BY <1>0, <2>1 DEF Ends
  <2>4. \A k \in Nat : 3 * k # stamp'[w]
    BY <2>1 DEF Waits
  <2> QED
    BY <1>0, <2>1, <2>2, <2>3, <2>4 DEF Waits
<1> QED
  BY <1>0, <1>2, <1>3 DEF TimeInv

WriterInv == LogInv /\ HoldInv /\ TimeInv

\* The log grows, and keeps what is in it.
Grows ==
  /\ Len(log) \in Nat /\ Len(log') \in Nat /\ Len(log) <= Len(log')
  /\ \A i \in 1..Len(log) : log'[i] = log[i]

LEMMA AppendGrows ==
  ASSUME TypeOK, NEW stage \in Status,
         NEW kind \in {"progress", "held", "own"}, NEW time \in Nat,
         AppendEvent(stage, kind, time)
  PROVE  /\ Grows
         /\ HoldLogged' <=> HoldLogged \/ kind = "held"
<1>1. /\ \A i \in 1..Len(log) : log'[i] = log[i]
      /\ log'[Len(log) + 1].kind = kind
      /\ Len(log) \in Nat /\ Len(log') = Len(log) + 1
      /\ 1..Len(log') = 1..Len(log) \cup {Len(log) + 1}
  BY AppendAdds
<1>2. Grows
  BY <1>1 DEF Grows
<1>3. HoldLogged' <=> HoldLogged \/ kind = "held"
  BY <1>1 DEF HoldLogged, HoldAt
<1> QED
  BY <1>2, <1>3

\* Nothing of the row, the log or the times changes.
LEMMA RowStays ==
  ASSUME TypeOK, WriterInv, UNCHANGED row, UNCHANGED stamp
  PROVE  WriterInv' /\ Grows
<1>1. /\ log' = log /\ status' = status /\ publication' = publication
      /\ cancelRequested' = cancelRequested /\ stamp' = stamp /\ Len(log) \in Nat
  BY DEF row, TypeOK
<1>2. LogInv'
  BY <1>1 DEF WriterInv, LogInv, LastIsStatus, Ordered, EndStays, AfterHold, Ends, HoldAt, Newest, Late
<1>3. HoldInv'
  BY <1>1 DEF WriterInv, HoldInv, HoldLogged, HoldAt
<1>4. TimeInv'
  BY <1>1 DEF WriterInv, TimeInv, Waits, Ends
<1> QED
  BY <1>1, <1>2, <1>3, <1>4 DEF WriterInv, Grows

\* A process takes a time, or gives up one.
LEMMA TimesKeepWriterInv ==
  ASSUME ProgressStreamAssumption, TypeOK, WriterInv, NEW p \in Process, TakeTime(p) \/ GiveUp(p)
  PROVE  WriterInv' /\ Grows
<1>n. PICK n \in Nat : n = Len(log)
  BY DEF TypeOK
<1>1. /\ log' = log /\ status' = status /\ publication' = publication
      /\ cancelRequested' = cancelRequested
  BY DEF row, TakeTime, GiveUp
<1>2. LogInv'
  BY <1>1 DEF WriterInv, LogInv, LastIsStatus, Ordered, EndStays, AfterHold, Ends, HoldAt, Newest, Late
<1>3. HoldInv'
  BY <1>1 DEF WriterInv, HoldInv, HoldLogged, HoldAt
<1>4. PICK time \in Nat : /\ stamp' = [stamp EXCEPT ![p] = time]
                          /\ time = 0 \/ time = 3 * n + 1 \/ time = 3 * n + 2
  <2>1. CASE TakeTime(p)
    <3>1. PICK time \in {Now + 1, Now + 2} : stamp' = [stamp EXCEPT ![p] = time]
      BY <2>1 DEF TakeTime
    <3>2. Now = 3 * n
      BY <1>n DEF Now
    <3>3. time \in Nat /\ (time = 3 * n + 1 \/ time = 3 * n + 2)
      BY <3>1, <3>2
    <3> QED
      BY <3>1, <3>3
  <2>2. CASE GiveUp(p)
    BY <2>2 DEF GiveUp
  <2> QED
    BY <2>1, <2>2
<1>5. /\ stamp'[p] = time
      /\ \A q \in Process : stamp[q] \in Nat
      /\ \A q \in Process \ {p} : stamp'[q] = stamp[q]
  BY <1>4 DEF TypeOK
<1>6. \A q \in Process : stamp'[q] <= 3 * n + 2
  <2> SUFFICES ASSUME NEW q \in Process PROVE stamp'[q] <= 3 * n + 2
    OBVIOUS
  <2>1. stamp[q] <= 3 * n + 2
    BY <1>n DEF WriterInv, TimeInv
  <2>2. time <= 3 * n + 2
    BY <1>4
  <2> QED
    BY <1>5, <2>1, <2>2
<1>7. ASSUME NEW w \in Worker, stamp'[w] # 0 PROVE Waits(w)'
  <2>0. w \in Process
    BY DEF Process
  <2>1. CASE w = p
    <3>1. stamp'[w] = 3 * n + 1 \/ stamp'[w] = 3 * n + 2
      BY <1>4, <1>5, <1>7, <2>1
    <3>2. \A k \in Nat : 3 * k # stamp'[w]
      BY <3>1
    <3>3. \A k \in 1..n : ~(stamp'[w] < 3 * k)
      BY <3>1
    <3>4. 3 * n < stamp'[w]
      BY <3>1
    <3> QED
      BY <1>n, <1>1, <3>2, <3>3, <3>4 DEF Waits
  <2>2. CASE w # p
    <3>1. stamp'[w] = stamp[w] /\ Waits(w)
      BY <1>5, <1>7, <2>0, <2>2 DEF WriterInv, TimeInv
    <3> QED
      BY <1>1, <3>1 DEF Waits, Ends
  <2> QED
    BY <2>1, <2>2
<1>8. TimeInv'
  BY <1>n, <1>1, <1>6, <1>7 DEF TimeInv
<1> QED
  BY <1>n, <1>1, <1>2, <1>3, <1>8 DEF WriterInv, Grows

\* What the time of a waiting worker is worth when it gets the row.
LEMMA TimeOfWorker ==
  ASSUME ProgressStreamAssumption, TypeOK, WriterInv, NEW w \in Worker, stamp[w] # 0,
         status \notin Terminal
  PROVE  /\ stamp[w] \in Nat /\ stamp[w] <= 3 * Len(log) + 3
         /\ 3 * Len(log) < stamp[w] \/ stamp[w] < log[Len(log)].at
         /\ ~cancelRequested /\ publication \notin Held => 3 * Len(log) < stamp[w]
<1>n. PICK n \in Nat : n = Len(log)
  BY DEF TypeOK
<1>1. w \in Process
  BY DEF Process
<1>2. stamp[w] \in Nat /\ stamp[w] <= 3 * n + 2
  BY <1>n, <1>1 DEF TypeOK, WriterInv, TimeInv
<1>3. Waits(w)
  BY DEF WriterInv, TimeInv
<1>4. n \in 1..n /\ ~Ends(n)
  BY <1>n DEF WriterInv, LogInv, LastIsStatus, Ends
<1>5. stamp[w] # 3 * n /\ (stamp[w] < 3 * n => log[n].at = 3 * n)
  BY <1>n, <1>3, <1>4 DEF Waits
<1>6. ~cancelRequested /\ publication \notin Held => 3 * n < stamp[w]
  BY <1>n, <1>3 DEF Waits
<1>7. 3 * n < stamp[w] \/ stamp[w] < 3 * n
  BY <1>2, <1>5
<1> QED
  BY <1>n, <1>2, <1>5, <1>6, <1>7

\* Each transaction of a writer keeps the invariant.
LEMMA WorkersKeepWriterInv ==
  ASSUME ProgressStreamAssumption, TypeOK, WriterInv, OneWriter, NEW w \in Worker,
         (\E stage \in Stages : WorkerProgress(w, stage)) \/ PersistCompleted(w)
  PROVE  WriterInv' /\ Grows
<1>0. /\ w \in Process /\ Worker \subseteq Process /\ stamp[w] # 0 /\ status \notin Terminal
      /\ stamp' = [stamp EXCEPT ![w] = 0] /\ stamp \in [Process -> Nat]
  BY DEF Process, WorkerProgress, PersistProgress, PersistCompleted, MayMove, Terminal, TypeOK
<1>1. /\ stamp[w] \in Nat /\ stamp[w] <= 3 * Len(log) + 3
      /\ 3 * Len(log) < stamp[w] \/ stamp[w] < log[Len(log)].at
      /\ ~cancelRequested /\ publication \notin Held => 3 * Len(log) < stamp[w]
  BY <1>0, TimeOfWorker
<1>2. /\ stamp' \in [Process -> Nat]
      /\ \A p \in Process : stamp'[p] \in {0, stamp[p]}
      /\ \A v \in Worker : stamp'[v] = 0
  <2>1. \A v \in Worker : v # w => stamp[v] = 0
    BY <1>0 DEF OneWriter
  <2> QED
    BY <1>0, <2>1
<1>3. ASSUME NEW stage \in Stages, WorkerProgress(w, stage) PROVE WriterInv' /\ Grows
  <2>1. /\ stage \in Status /\ AppendEvent(stage, "progress", stamp[w]) /\ status' = stage
        /\ publication' = publication
        /\ publication \in Held => stage \in Terminal
    BY <1>3 DEF WorkerProgress, PersistProgress, ProgressStreamAssumption, Terminal
  <2>2. HoldLogged => publication \in Held
    BY <1>0 DEF WriterInv, HoldInv
  <2>3. Grows /\ (HoldLogged' <=> HoldLogged)
    BY <1>1, <2>1, AppendGrows
  <2>4. LogInv'
    BY <1>0, <1>1, <2>1, <2>2, AppendKeepsLogInv DEF WriterInv
  <2>5. TimeInv'
    BY <1>0, <1>1, <1>2, <2>1, AppendKeepsTimeInv DEF WriterInv
  <2>6. HoldInv'
    BY <2>1, <2>2, <2>3 DEF WriterInv, HoldInv
  <2> QED
    BY <2>3, <2>4, <2>5, <2>6 DEF WriterInv
<1>4. CASE PersistCompleted(w)
  <2>0. publication \notin Held /\ ~cancelRequested /\ status = "AUDITING" /\ ~HoldLogged
    BY <1>0, <1>4 DEF PersistCompleted, WriterInv, HoldInv
  <2>1. PICK stage \in Status, kind \in {"progress", "held", "own"} :
          /\ AppendEvent(stage, kind, stamp[w]) /\ status' = stage
          /\ \/ kind = "held" /\ stage = "AUDITING" /\ publication' = "review_required"
             \/ kind = "progress" /\ stage = "COMPLETED" /\ publication' = "published"
    BY <1>4 DEF PersistCompleted, Status, Terminal
  <2>3. Grows /\ (HoldLogged' <=> kind = "held")
    BY <1>1, <2>0, <2>1, AppendGrows
  <2>4. LogInv'
    BY <1>0, <1>1, <2>0, <2>1, AppendKeepsLogInv DEF WriterInv
  <2>5. TimeInv'
    BY <1>0, <1>1, <1>2, <2>1, AppendKeepsTimeInv DEF WriterInv
  <2>6. HoldInv'
    BY <2>1, <2>3 DEF HoldInv, Held
  <2> QED
    BY <2>3, <2>4, <2>5, <2>6 DEF WriterInv
<1> QED
  BY <1>3, <1>4

LEMMA RequestsKeepWriterInv ==
  ASSUME ProgressStreamAssumption, TypeOK, WriterInv, RejectRun \/ Cancel \/ Decide
  PROVE  WriterInv' /\ Grows
<1>n. PICK n \in Nat : n = Len(log)
  BY DEF TypeOK
<1>0. Worker \subseteq Process /\ Api \in Process /\ Api \notin Worker /\ stamp \in [Process -> Nat]
  BY DEF Process, ProgressStreamAssumption, TypeOK
<1>1. CASE RejectRun
  <2>1. /\ AppendEvent("FAILED", "own", stamp[Api]) /\ status' = "FAILED"
        /\ publication' = publication /\ status \notin Terminal
        /\ stamp' = [stamp EXCEPT ![Api] = 0] /\ "FAILED" \in Status /\ "FAILED" \in Terminal
    BY <1>1 DEF RejectRun, PersistProgress, MayMove, Status, Terminal
  <2>2. stamp[Api] \in Nat /\ stamp[Api] <= 3 * Len(log) + 3
    <3>1. stamp[Api] \in Nat /\ stamp[Api] <= 3 * n + 2
      BY <1>n, <1>0 DEF WriterInv, TimeInv
    <3> QED
      BY <1>n, <3>1
  <2>3. Grows /\ (HoldLogged' <=> HoldLogged)
    BY <2>1, <2>2, AppendGrows
  <2>4. LogInv'
    BY <2>1, <2>2, AppendKeepsLogInv DEF WriterInv
  <2>5. TimeInv'
    <3>1. stamp' \in [Process -> Nat] /\ \A p \in Process : stamp'[p] \in {0, stamp[p]}
      BY <1>0, <2>1
    <3> QED
      BY <1>0, <2>1, <2>2, <3>1, AppendKeepsTimeInv DEF WriterInv
  <2>6. HoldInv'
    BY <2>1, <2>3 DEF WriterInv, HoldInv
  <2> QED
    BY <2>3, <2>4, <2>5, <2>6 DEF WriterInv
<1>2. CASE Cancel
  <2>1. /\ AppendEvent(status', "own", Now + 3) /\ status' \in Status /\ status \notin Terminal
        /\ publication' = publication /\ stamp' = stamp /\ cancelRequested'
        /\ status' = status \/ (status = "QUEUED" /\ status' = "CANCELLED")
    BY <1>2 DEF Cancel, TypeOK, Status, Terminal
  <2>2. Now + 3 = 3 * Len(log) + 3 /\ Now + 3 \in Nat /\ 3 * Len(log) < Now + 3
        /\ Now + 3 <= 3 * Len(log) + 3
    BY <1>n DEF Now
  <2>3. Grows /\ (HoldLogged' <=> HoldLogged)
    BY <2>1, <2>2, AppendGrows
  <2>4. LogInv'
    BY <2>1, <2>2, AppendKeepsLogInv DEF WriterInv
  <2>5. TimeInv'
    BY <1>0, <2>1, <2>2, AppendKeepsTimeInv DEF WriterInv
  <2>6. HoldInv'
    BY <2>1, <2>3 DEF WriterInv, HoldInv, Terminal
  <2> QED
    BY <2>3, <2>4, <2>5, <2>6 DEF WriterInv
<1>3. CASE Decide
  <2>1. /\ AppendEvent(status', "progress", Now + 3) /\ status' \in Status
        /\ status' = "COMPLETED" \/ (status' = status /\ publication' \in Held)
        /\ publication \in Held /\ stamp' = stamp
    BY <1>3 DEF Decide, TypeOK, Status, Terminal, Held
  <2>2. Now + 3 = 3 * Len(log) + 3 /\ Now + 3 \in Nat /\ 3 * Len(log) < Now + 3
        /\ Now + 3 <= 3 * Len(log) + 3
    BY <1>n DEF Now
  <2>3. Grows /\ (HoldLogged' <=> HoldLogged)
    BY <2>1, <2>2, AppendGrows
  <2>4. LogInv'
    <3>1. status' \in Terminal \/ status \notin Terminal
      BY <2>1 DEF Terminal
    <3> QED
      BY <2>1, <2>2, <3>1, AppendKeepsLogInv DEF WriterInv
  <2>5. TimeInv'
    <3>1. publication' \in Held \/ status' \in Terminal
      BY <2>1 DEF Terminal
    <3> QED
      BY <1>0, <2>1, <2>2, <3>1, AppendKeepsTimeInv DEF WriterInv
  <2>6. HoldInv'
    BY <2>1, <2>3 DEF WriterInv, HoldInv, Terminal
  <2> QED
    BY <2>3, <2>4, <2>5, <2>6 DEF WriterInv
<1> QED
  BY <1>1, <1>2, <1>3

LEMMA NextWriterInv ==
  ASSUME ProgressStreamAssumption, TypeOK, WriterInv, OneWriter, [Next]_streamVars
  PROVE  WriterInv' /\ Grows
<1>1. ASSUME NEW p \in Process, Mirror(p) \/ MirrorFails(p) PROVE WriterInv' /\ Grows
  BY <1>1, RowStays DEF Mirror, MirrorFails
<1>2. ASSUME NEW w \in Worker, Backfill(w) PROVE WriterInv' /\ Grows
  BY <1>2, RowStays DEF Backfill
<1>3. CASE Enqueue
  BY <1>3, RowStays DEF Enqueue
<1>4. CASE Expire
  BY <1>4, RowStays DEF Expire, writers
<1>5. CASE UNCHANGED streamVars
  BY <1>5, RowStays DEF streamVars, writers
<1> QED
  BY <1>1, <1>2, <1>3, <1>4, <1>5, TimesKeepWriterInv, WorkersKeepWriterInv,
     RequestsKeepWriterInv DEF Next

\* The handler and the hook.
Readers == [state : {"none", "check", "read", "recheck"}, cursor : Nat, view : View]
Clients == [mode : {"opening", "open", "waiting", "polling", "closed"}, attempts : 0..3,
            fallback : BOOLEAN, latest : Nat, known : Status, held : BOOLEAN]

\* What the handler has loaded was so: its status is in the log, and a report it
\* takes for held was held.
Loaded(v) ==
  /\ \E i \in 1..Len(log) : log[i].stage = v.status
  /\ v.publication = "review_required" =>
       HoldLogged /\ (v.status = "AUDITING" \/ v.status \in Terminal)

\* The page shows the end, or an event later than all before it; a connection has
\* read no event that is later than the one shown.
PageInv ==
  /\ reader \in Readers /\ client \in Clients
  /\ reader.cursor <= Len(log) /\ client.latest <= Len(log)
  /\ reader.state # "none" => client.mode = "open"
  /\ client.latest # 0 => \/ Ends(client.latest) /\ client.mode = "closed"
                          \/ ~Ends(client.latest) /\ Newest(client.latest)
  /\ reader.cursor # 0 =>
       client.latest # 0 /\ log[reader.cursor].at <= log[client.latest].at
  /\ reader.state # "none" => Loaded(reader.view)

\* The writers change nothing of it.
LEMMA WritersKeepPageInv ==
  ASSUME PageInv, Grows, UNCHANGED <<reader, client>>
  PROVE  PageInv'
<1>n. PICK n \in Nat : n = Len(log)
  BY DEF Grows
<1>1. /\ \A i \in 1..n : log'[i] = log[i]
      /\ n <= Len(log')
      /\ reader' = reader /\ client' = client
  BY <1>n DEF Grows
<1>2. reader.cursor \in Nat /\ client.latest \in Nat /\ reader.cursor <= n /\ client.latest <= n
  BY <1>n DEF PageInv, Readers, Clients
<1>3. 1..n \subseteq 1..Len(log') /\ reader'.cursor <= Len(log') /\ client'.latest <= Len(log')
  BY <1>1, <1>2, <1>n DEF Grows
<1>4. (reader.state # "none" => Loaded(reader.view))'
  <2>1. HoldLogged => HoldLogged'
    BY <1>n, <1>1, <1>3 DEF HoldLogged, HoldAt
  <2>2. (\E i \in 1..n : log[i].stage = reader.view.status)
          => \E i \in 1..Len(log') : log'[i].stage = reader.view.status
    BY <1>1, <1>3
  <2> QED
    BY <1>n, <1>1, <2>1, <2>2 DEF PageInv, Loaded
<1>5. client.latest # 0 => /\ log'[client.latest] = log[client.latest]
                           /\ Ends(client.latest)' <=> Ends(client.latest)
                           /\ Newest(client.latest) => Newest(client.latest)'
  <2> SUFFICES ASSUME client.latest # 0
               PROVE  /\ log'[client.latest] = log[client.latest]
                      /\ Ends(client.latest)' <=> Ends(client.latest)
                      /\ Newest(client.latest) => Newest(client.latest)'
    OBVIOUS
  <2>1. client.latest \in 1..n /\ \A j \in 1..(client.latest - 1) : j \in 1..n
    BY <1>2
  <2> QED
    BY <1>1, <2>1 DEF Ends, Newest
<1>6. reader.cursor # 0 => log'[reader.cursor] = log[reader.cursor]
  BY <1>1, <1>2
<1> QED
  BY <1>1, <1>2, <1>3, <1>4, <1>5, <1>6 DEF PageInv

\* The hook after an event, and after the end of a connection.
LEMMA AfterEvent ==
  ASSUME client \in Clients, NEW i \in Nat
  PROVE  /\ Shown(i) \in Clients /\ Shown(i).mode = client.mode
         /\ Shown(i).latest = IF Newer(i) THEN i ELSE client.latest
<1>1. PICK n \in Nat : n = IF Newer(i) THEN i ELSE client.latest
  BY DEF Clients
<1>2. Shown(i) = [client EXCEPT !.attempts = 0, !.latest = n]
  BY <1>1 DEF Shown
<1>3. Shown(i) = [mode |-> client.mode, attempts |-> 0, fallback |-> client.fallback,
                  latest |-> n, known |-> client.known, held |-> client.held]
  BY <1>2 DEF Clients
<1>4. /\ client.mode \in {"opening", "open", "waiting", "polling", "closed"}
      /\ client.fallback \in BOOLEAN /\ client.known \in Status /\ client.held \in BOOLEAN
  BY DEF Clients
<1>5. Shown(i) \in Clients
  BY <1>3, <1>4 DEF Clients
<1> QED
  BY <1>1, <1>3, <1>5

LEMMA AfterLoss ==
  ASSUME NEW c \in Clients
  PROVE  /\ ReconnectOrPoll(c) \in Clients /\ ReconnectOrPoll(c).latest = c.latest
         /\ ReconnectOrPoll(c).mode \in {"polling", "waiting"}
<1>1. PICK a \in 0..3 : a = IF c.attempts < 3 THEN c.attempts + 1 ELSE 3
  BY DEF Clients
<1>2. ReconnectOrPoll(c) = IF a = 3 THEN [c EXCEPT !.attempts = a, !.mode = "polling", !.fallback = TRUE]
                           ELSE [c EXCEPT !.attempts = a, !.mode = "waiting"]
  BY <1>1 DEF ReconnectOrPoll
<1>3. PICK fallback \in BOOLEAN, mode \in {"polling", "waiting"} :
        ReconnectOrPoll(c) = [mode |-> mode, attempts |-> a, fallback |-> fallback,
                              latest |-> c.latest, known |-> c.known, held |-> c.held]
  <2>1. c.fallback \in BOOLEAN /\ c = [mode |-> c.mode, attempts |-> c.attempts,
          fallback |-> c.fallback, latest |-> c.latest, known |-> c.known, held |-> c.held]
    BY DEF Clients
  <2>2. CASE a = 3
    BY <1>2, <2>1, <2>2
  <2>3. CASE a # 3
    BY <1>2, <2>1, <2>3
  <2> QED
    BY <2>2, <2>3
<1>4. c.latest \in Nat /\ c.known \in Status /\ c.held \in BOOLEAN
  BY DEF Clients
<1>5. ReconnectOrPoll(c) \in Clients
  BY <1>3, <1>4 DEF Clients
<1> QED
  BY <1>3, <1>5

LEMMA AfterRefetch ==
  ASSUME NEW c \in Clients, NEW known \in Status, NEW held \in BOOLEAN
  PROVE  LET d == [c EXCEPT !.known = known, !.held = held] IN
           d \in Clients /\ d.latest = c.latest /\ d.mode = c.mode
  BY DEF Clients

LEMMA AfterLast ==
  ASSUME client \in Clients, NEW i \in Nat
  PROVE  /\ AfterEnd(i) \in Clients
         /\ AfterEnd(i).latest = IF Newer(i) THEN i ELSE client.latest
         /\ Ends(i) => AfterEnd(i).mode = "closed"
         /\ AfterEnd(i).mode # "open"
<1>1. PICK c \in Clients : c = Shown(i) /\ c.latest = IF Newer(i) THEN i ELSE client.latest
  BY AfterEvent
<1>2. CASE Ends(i)
  <2>1. AfterEnd(i) = [c EXCEPT !.mode = "closed"]
    BY <1>1, <1>2 DEF AfterEnd, Ends
  <2> QED
    BY <1>1, <2>1 DEF Clients
<1>3. CASE ~Ends(i)
  <2>1. AfterEnd(i) = ReconnectOrPoll(c)
    BY <1>1, <1>3 DEF AfterEnd, Ends
  <2>2. AfterEnd(i).mode \in {"polling", "waiting"} /\ AfterEnd(i) \in Clients /\ AfterEnd(i).latest = c.latest
    BY <2>1, AfterLoss
  <2> QED
    BY <1>1, <1>3, <2>2
<1> QED
  BY <1>2, <1>3

\* The event shown after another one has come: it is no earlier in the log, and it
\* is the end or later than all before it.
ShowsWell(i, n) ==
  /\ n # 0 /\ n <= Len(log) /\ client.latest <= n
  /\ (Ends(i) /\ n = i) \/ (~Ends(i) /\ ~Ends(n) /\ Newest(n) /\ log[i].at <= log[n].at)

LEMMA ShownForward ==
  ASSUME TypeOK, LogInv, PageInv, client.mode = "open", NEW i \in 1..Len(log),
         \/ Ends(i) \/ Newest(i)
         \/ client.latest # 0 /\ log[i].at < log[client.latest].at
  PROVE  ShowsWell(i, IF Newer(i) THEN i ELSE client.latest)
<1>n. PICK n \in Nat : n = Len(log)
  BY DEF TypeOK
<1>1. client.latest \in 0..n
  BY <1>n DEF PageInv, Clients
<1>2. \A j \in 1..n : log[j].at \in Nat
  <2>1. \A j \in 1..n : log[j] \in Event
    BY <1>n DEF TypeOK
  <2> QED
    BY <2>1 DEF Event
<1>3. i \in 1..n
  BY <1>n
<1>4. CASE client.latest = 0
  <2>1. Newer(i)
    BY <1>4 DEF Newer
  <2> QED
    BY <1>2, <1>3, <1>4, <1>n, <2>1 DEF ShowsWell
<1>5. CASE client.latest # 0
  <2> DEFINE l == client.latest
  <2>1. l \in 1..n /\ ~Ends(l) /\ Newest(l)
    BY <1>1, <1>5 DEF PageInv
  <2>2. Newer(i) <=> Ends(i) \/ log[l].at <= log[i].at
    BY <1>2, <1>3, <1>5, <2>1 DEF Newer, Ends
  <2> HIDE DEF l
  <2>3. CASE Ends(i)
    <3>1. ~(i <= l)
      BY <1>n, <2>1, <2>3 DEF LogInv, EndStays
    <3> QED
      BY <1>3, <1>n, <2>1, <2>2, <2>3, <3>1 DEF ShowsWell, l
  <2>4. CASE ~Ends(i) /\ log[l].at <= log[i].at
    <3>1. Newest(i)
      BY <1>2, <1>3, <1>5, <2>1, <2>4 DEF l
    <3>2. ~(i < l)
      <4>1. i < l => log[i].at < log[l].at
        BY <1>3, <2>1 DEF Newest
      <4> QED
        BY <1>2, <1>3, <2>1, <2>4, <4>1
    <3> QED
      BY <1>2, <1>3, <1>n, <2>1, <2>2, <2>4, <3>1, <3>2 DEF ShowsWell, l
  <2>5. CASE ~Ends(i) /\ ~(log[l].at <= log[i].at)
    <3>1. log[i].at <= log[l].at
      BY <1>2, <1>3, <2>1, <2>5
    <3> QED
      BY <1>3, <1>n, <2>1, <2>2, <2>5, <3>1 DEF ShowsWell, l
  <2> QED
    BY <2>3, <2>4, <2>5
<1> QED
  BY <1>4, <1>5

\* A set of numbers that is not empty has a least member.
LEMMA LeastOf ==
  ASSUME NEW S \in SUBSET Nat, S # {}
  PROVE  \E m \in S : \A x \in S : m <= x
<1> DEFINE F == {0..n : n \in S}
<1>1. \A n \in Nat : IsFiniteSet(0..n)
  BY FS_Interval
<1>2. F \subseteq FiniteSubsetsOf(Nat) /\ F # {}
  <2>1. \A n \in S : 0..n \in FiniteSubsetsOf(Nat)
    BY <1>1 DEF FiniteSubsetsOf
  <2> QED
    BY <2>1
<1> HIDE DEF F
<1>3. IsWellFoundedOn(StrictSubsetOrdering(Nat), FiniteSubsetsOf(Nat))
  BY FS_StrictSubsetOrderingWellFounded
<1>4. PICK b \in F : \A c \in F : <<c, b>> \notin StrictSubsetOrdering(Nat)
  BY <1>2, <1>3, WFMin
<1>5. PICK m \in S : b = 0..m
  BY <1>4 DEF F
<1>6. ASSUME NEW x \in S, x < m PROVE FALSE
  <2>1. 0..x \in F /\ 0..x \subseteq Nat /\ 0..m \subseteq Nat
    BY DEF F
  <2>2. 0..x \subseteq 0..m /\ m \in 0..m /\ m \notin 0..x
    BY <1>6
  <2> QED
    BY <1>4, <1>5, <2>1, <2>2 DEF StrictSubsetOrdering
<1> QED
  BY <1>6

LEMMA MinIsLeast ==
  ASSUME NEW S \in SUBSET Nat, S # {}
  PROVE  Min(S) \in S /\ \A x \in S : Min(S) <= x
BY LeastOf DEF Min

LEMMA MaxIsGreatest ==
  ASSUME NEW n \in Nat, NEW S \in SUBSET (1..n), S # {}
  PROVE  Max(S) \in S /\ \A x \in S : x <= Max(S)
<1> DEFINE T == {n - x : x \in S}
<1>1. T \in SUBSET Nat /\ T # {}
  <2>1. \A x \in S : n - x \in Nat
    OBVIOUS
  <2> QED
    BY <2>1
<1> HIDE DEF T
<1>2. PICK m \in T : \A x \in T : m <= x
  BY <1>1, LeastOf
<1>3. PICK g \in S : m = n - g
  BY <1>2 DEF T
<1>4. \A x \in S : x <= g
  <2> SUFFICES ASSUME NEW x \in S PROVE x <= g
    OBVIOUS
  <2>1. n - g <= n - x
    BY <1>2, <1>3 DEF T
  <2> QED
    BY <2>1
<1>5. \A x \in S : g >= x
  BY <1>4
<1> QED
  BY <1>5 DEF Max

\* The event a connection ends with, and the next one it reads, are shown well.
LEMMA AnswerForward ==
  ASSUME TypeOK, LogInv, PageInv, client.mode = "open", NEW v, Loaded(v), Over(v)
  PROVE  /\ DurableEvent(v) \in 1..Len(log)
         /\ ShowsWell(DurableEvent(v), IF Newer(DurableEvent(v)) THEN DurableEvent(v) ELSE client.latest)
<1>n. PICK n \in Nat : n = Len(log)
  BY DEF TypeOK
<1> DEFINE S == {i \in 1..n : log[i].stage = v.status}
<1>1. DOMAIN log = 1..n
  BY <1>n DEF TypeOK
<1>2. DurableEvent(v) = Max(S)
  BY <1>1 DEF DurableEvent
<1>3. S \in SUBSET (1..n) /\ S # {}
  BY <1>n DEF Loaded
<1> HIDE DEF S
<1>4. Max(S) \in S /\ \A x \in S : x <= Max(S)
  BY <1>3, MaxIsGreatest
<1>5. PICK d \in 1..n : d = DurableEvent(v) /\ d \in S /\ \A x \in S : x <= d
  BY <1>2, <1>3, <1>4
<1>6. Ends(d) \/ Newest(d)
  <2>1. CASE v.status \in Terminal
    BY <1>5, <2>1 DEF Ends, S
  <2>2. CASE v.status \notin Terminal
    <3>1. v.status = "AUDITING" /\ HoldLogged
      BY <2>2 DEF Over, Loaded
    <3>2. PICK h \in 1..n : HoldAt(h)
      BY <1>n, <3>1 DEF HoldLogged
    <3>3. h \in S
      BY <1>n, <3>1, <3>2 DEF LogInv, AfterHold, S
    <3>4. h <= d
      BY <1>5, <3>3
    <3> QED
      BY <1>n, <3>2, <3>4 DEF LogInv, AfterHold
  <2> QED
    BY <2>1, <2>2
<1>7. ShowsWell(d, IF Newer(d) THEN d ELSE client.latest)
  BY <1>n, <1>6, ShownForward
<1> QED
  BY <1>n, <1>5, <1>7

LEMMA ReadForward ==
  ASSUME TypeOK, LogInv, PageInv, OnlyOwnEventsOvertake, client.mode = "open", Unread # {}
  PROVE  /\ Min(Unread) \in 1..Len(log)
         /\ ShowsWell(Min(Unread), IF Newer(Min(Unread)) THEN Min(Unread) ELSE client.latest)
<1>n. PICK n \in Nat : n = Len(log)
  BY DEF TypeOK
<1>1. stream \subseteq 1..n /\ reader.cursor \in Nat
  BY <1>n DEF TypeOK, PageInv, Readers
<1>2. Unread \in SUBSET Nat
  <2>1. \A i \in stream : i \in Nat
    BY <1>1
  <2> QED
    BY <2>1 DEF Unread
<1>3. Min(Unread) \in Unread /\ \A x \in Unread : Min(Unread) <= x
  BY <1>2, MinIsLeast
<1>4. PICK i \in 1..n : i = Min(Unread) /\ i \in stream /\ reader.cursor < i /\ \A x \in Unread : i <= x
  BY <1>1, <1>3 DEF Unread
<1>5. ASSUME ~Ends(i), ~Newest(i) PROVE client.latest # 0 /\ log[i].at < log[client.latest].at
  <2>1. Late(i)
    BY <1>n, <1>5 DEF LogInv, Ordered
  <2>2. i - 1 \in stream /\ i - 1 \in 1..n /\ i > 1
    BY <1>1, <1>4, <2>1 DEF Late, OnlyOwnEventsOvertake
  <2>3. i - 1 \notin Unread
    BY <1>4, <2>2
  <2>4. reader.cursor = i - 1
    BY <1>1, <1>4, <2>2, <2>3 DEF Unread
  <2>5. client.latest # 0 /\ log[i - 1].at <= log[client.latest].at
    BY <2>2, <2>4 DEF PageInv
  <2>6. client.latest \in 1..n
    BY <1>n, <2>5 DEF PageInv, Clients
  <2>7. \A j \in 1..n : log[j].at \in Nat
    <3>1. \A j \in 1..n : log[j] \in Event
      BY <1>n DEF TypeOK
    <3> QED
      BY <3>1 DEF Event
  <2>8. log[i].at < log[i - 1].at
    BY <2>1 DEF Late
  <2> QED
    BY <2>2, <2>5, <2>6, <2>7, <2>8
<1>6. ShowsWell(i, IF Newer(i) THEN i ELSE client.latest)
  BY <1>n, <1>5, ShownForward
<1> QED
  BY <1>n, <1>4, <1>6

\* A connection that ends with an event, or is lost.
LEMMA EndKeepsPageInv ==
  ASSUME TypeOK, LogInv, PageInv, UNCHANGED streamVars, reader' = NoReader,
         client' \in Clients,
         \/ client'.latest = client.latest /\ (client'.mode = "closed" <=> client.mode = "closed")
         \/ \E i \in 1..Len(log) : /\ ShowsWell(i, client'.latest)
                                   /\ Ends(i) => client'.mode = "closed"
  PROVE  PageInv' /\ client'.latest >= client.latest
<1>n. PICK n \in Nat : n = Len(log)
  BY DEF TypeOK
<1>1. log' = log /\ status' = status /\ publication' = publication
  BY DEF streamVars, row
<1>2. NoReader \in Readers /\ NoReader.cursor = 0 /\ NoReader.state = "none"
  BY DEF NoReader, Readers, View, Status, Publication
<1>3. client.latest \in 0..n /\ client'.latest \in Nat
  BY <1>n DEF PageInv, Clients
<1>4. \A i : (Ends(i)' <=> Ends(i)) /\ (Newest(i)' <=> Newest(i))
  BY <1>1 DEF Ends, Newest
<1> DEFINE l == client'.latest
<1>5. /\ l <= n /\ client.latest <= l
      /\ l # 0 => (Ends(l) /\ client'.mode = "closed") \/ (~Ends(l) /\ Newest(l))
  <2>1. CASE /\ client'.latest = client.latest
             /\ client'.mode = "closed" <=> client.mode = "closed"
    BY <1>3, <2>1 DEF PageInv
  <2>2. ASSUME NEW i \in 1..Len(log), ShowsWell(i, client'.latest),
               Ends(i) => client'.mode = "closed"
        PROVE  /\ l <= n /\ client.latest <= l
               /\ l # 0 => (Ends(l) /\ client'.mode = "closed") \/ (~Ends(l) /\ Newest(l))
    BY <1>n, <2>2 DEF ShowsWell
  <2> QED
    BY <2>1, <2>2
<1>6. l >= client.latest
  BY <1>3, <1>5
<1>7. PageInv'
  BY <1>n, <1>1, <1>2, <1>3, <1>4, <1>5 DEF PageInv
<1> QED
  BY <1>6, <1>7

\* A connection goes on: the page keeps what it has.
LEMMA LoadedNow ==
  ASSUME TypeOK, LogInv, HoldInv
  PROVE  Row \in View /\ Loaded(Row)
<1>1. Row \in View
  BY DEF Row, View, TypeOK
<1>2. \E i \in 1..Len(log) : log[i].stage = Row.status
  <2>1. Len(log) \in 1..Len(log) /\ log[Len(log)].stage = status
    BY DEF LogInv, LastIsStatus, TypeOK
  <2> QED
    BY <2>1 DEF Row
<1>3. Row.publication = "review_required" =>
        HoldLogged /\ (Row.status = "AUDITING" \/ Row.status \in Terminal)
  BY DEF Row, HoldInv, Held
<1> QED
  BY <1>1, <1>2, <1>3 DEF Loaded

LEMMA ReaderKeepsPageInv ==
  ASSUME TypeOK, PageInv, UNCHANGED streamVars,
         reader' \in Readers, client' \in Clients,
         client'.latest = client.latest,
         client.latest # 0 /\ Ends(client.latest) => client'.mode = "closed",
         reader'.state # "none" => client'.mode = "open" /\ Loaded(reader'.view),
         reader'.cursor \in {0, reader.cursor}
  PROVE  PageInv' /\ client'.latest >= client.latest
<1>1. log' = log /\ Len(log) \in Nat
  BY DEF streamVars, row, TypeOK
<1>2. client.latest \in Nat /\ client.latest >= client.latest
  BY DEF PageInv, Clients
<1>3. /\ \A v : Loaded(v)' <=> Loaded(v)
      /\ \A i : (Ends(i)' <=> Ends(i)) /\ (Newest(i)' <=> Newest(i))
  BY <1>1 DEF Loaded, HoldLogged, HoldAt, Ends, Newest
<1>4. (reader.state # "none" => Loaded(reader.view))'
  BY <1>1 DEF Loaded, HoldLogged, HoldAt
<1>5. reader'.cursor <= Len(log) /\ client'.latest <= Len(log)
  BY <1>1 DEF PageInv
<1>6. reader'.cursor # 0 => client.latest # 0 /\ log[reader'.cursor].at <= log[client.latest].at
  BY DEF PageInv
<1>7. client.latest # 0 => (Ends(client.latest) /\ client'.mode = "closed")
                           \/ (~Ends(client.latest) /\ Newest(client.latest))
  BY DEF PageInv
<1>8. PageInv'
  BY <1>1, <1>2, <1>3, <1>4, <1>5, <1>6, <1>7 DEF PageInv
<1> QED
  BY <1>2, <1>8

\* The steps of the handler and of the hook.
LEMMA ReadingKeepsPageInv ==
  ASSUME TypeOK, LogInv, HoldInv, OnlyOwnEventsOvertake, PageInv, Reading
  PROVE  PageInv' /\ client'.latest >= client.latest
<1>0. /\ reader \in Readers /\ client \in Clients
      /\ NoReader \in Readers /\ NoReader.cursor = 0 /\ NoReader.state = "none"
      /\ client.latest # 0 /\ Ends(client.latest) => client.mode = "closed" /\ status \in Terminal
  <2>1. PICK n \in Nat : n = Len(log)
    BY DEF TypeOK
  <2>2. client.latest # 0 /\ Ends(client.latest) => Ends(n)
    <3>1. client.latest # 0 => client.latest \in 1..n /\ client.latest <= n /\ n \in 1..n
      BY <2>1 DEF PageInv, Clients
    <3> QED
      BY <2>1, <3>1 DEF LogInv, EndStays
  <2>3. Ends(n) => status \in Terminal
    BY <2>1 DEF LogInv, LastIsStatus, Ends
  <2> QED
    BY <2>2, <2>3 DEF PageInv, NoReader, Readers, View, Status, Publication
<1>1. ASSUME NEW v, Loaded(v), Over(v), Answer(v), UNCHANGED streamVars, client.mode = "open"
      PROVE  PageInv' /\ client'.latest >= client.latest
  <2>1. PICK i \in 1..Len(log) : i = DurableEvent(v) /\ ShowsWell(i, IF Newer(i) THEN i ELSE client.latest)
    BY <1>1, AnswerForward
  <2>2. client' = AfterEnd(i) /\ reader' = NoReader
    BY <1>1, <2>1 DEF Answer
  <2>3. client' \in Clients /\ client'.latest = (IF Newer(i) THEN i ELSE client.latest)
        /\ (Ends(i) => client'.mode = "closed")
    BY <1>0, <2>2, AfterLast
  <2> QED
    BY <1>1, <2>1, <2>2, <2>3, EndKeepsPageInv
<1>2. CASE Open
  <2>1. client' = [client EXCEPT !.mode = "open"] /\ reader' = [state |-> "check", cursor |-> 0, view |-> Row]
        /\ UNCHANGED streamVars /\ client.mode = "opening"
    BY <1>2 DEF Open
  <2>2. Row \in View /\ Loaded(Row)
    BY LoadedNow
  <2>3. client' \in Clients /\ client'.latest = client.latest /\ client'.mode = "open"
    BY <1>0, <2>1 DEF Clients
  <2>4. reader' \in Readers /\ reader'.view = Row /\ reader'.cursor = 0
    BY <2>1, <2>2 DEF Readers
  <2> QED
    BY <1>0, <2>1, <2>2, <2>3, <2>4, ReaderKeepsPageInv
<1>3. CASE Check
  <2>1. UNCHANGED streamVars /\ client.mode = "open" /\ Loaded(reader.view)
    BY <1>3 DEF Check, PageInv
  <2>2. CASE Over(reader.view) /\ Answer(reader.view)
    BY <1>1, <2>1, <2>2
  <2>3. CASE reader' = [reader EXCEPT !.state = "read"] /\ UNCHANGED client
    <3>1. reader' \in Readers /\ reader'.view = reader.view /\ reader'.cursor = reader.cursor
      BY <1>0, <2>3 DEF Readers
    <3> QED
      BY <1>0, <2>1, <2>3, <3>1, ReaderKeepsPageInv
  <2> QED
    BY <1>3, <2>2, <2>3 DEF Check
<1>4. CASE Read
  <2>0. client.mode = "open" /\ Unread # {} /\ UNCHANGED streamVars /\ Loaded(reader.view)
    BY <1>4 DEF Read, PageInv
  <2>1. PICK i \in 1..Len(log) : i = Min(Unread) /\ ShowsWell(i, IF Newer(i) THEN i ELSE client.latest)
    BY <2>0, ReadForward
  <2>2. CASE client' = AfterEnd(i) /\ reader' = NoReader
    <3>1. client' \in Clients /\ client'.latest = (IF Newer(i) THEN i ELSE client.latest)
          /\ (Ends(i) => client'.mode = "closed")
      BY <1>0, <2>2, AfterLast
    <3> QED
      BY <2>0, <2>1, <2>2, <3>1, EndKeepsPageInv
  <2>3. CASE ~EndsStream(i) /\ client' = Shown(i) /\ reader' = [reader EXCEPT !.cursor = i]
    <3>1. client' \in Clients /\ client'.mode = "open" /\ client'.latest = (IF Newer(i) THEN i ELSE client.latest)
      BY <1>0, <2>0, <2>3, AfterEvent
    <3>2. reader' \in Readers /\ reader'.view = reader.view /\ reader'.cursor = i
      BY <1>0, <2>3 DEF Readers
    <3>3. ShowsWell(i, client'.latest) /\ ~Ends(i)
      BY <2>1, <2>3, <3>1 DEF EndsStream, Ends
    <3>4. /\ client'.latest # 0 /\ client'.latest <= Len(log) /\ client.latest <= client'.latest
          /\ ~Ends(client'.latest) /\ Newest(client'.latest)
          /\ log[i].at <= log[client'.latest].at
      BY <3>3 DEF ShowsWell
    <3>5. log' = log /\ Len(log) \in Nat
      BY <2>0 DEF streamVars, row, TypeOK
    <3>6. (reader.state # "none" => Loaded(reader.view))'
      BY <2>0, <3>2, <3>5 DEF Loaded, HoldLogged, HoldAt
    <3>7. (~Ends(client.latest) /\ Newest(client.latest))'
      BY <3>4, <3>5 DEF Ends, Newest
    <3>8. PageInv'
      <4>1. (reader.cursor <= Len(log) /\ client.latest <= Len(log))'
        BY <3>2, <3>4, <3>5
      <4>2. (client.latest # 0 /\ log[reader.cursor].at <= log[client.latest].at)'
        BY <3>2, <3>4, <3>5
      <4> QED
        BY <3>1, <3>2, <3>6, <3>7, <4>1, <4>2 DEF PageInv
    <3>9. client'.latest >= client.latest
      BY <1>0, <3>1, <3>4 DEF Clients
    <3> QED
      BY <3>8, <3>9
  <2> QED
    BY <1>4, <2>1, <2>2, <2>3 DEF Read
<1>5. CASE Timeout
  <2>1. UNCHANGED streamVars /\ client.mode = "open" /\ Loaded(reader.view) /\ UNCHANGED client
        /\ reader' = [reader EXCEPT !.state = "recheck"]
    BY <1>5 DEF Timeout, PageInv
  <2>2. reader' \in Readers /\ reader'.view = reader.view /\ reader'.cursor = reader.cursor
    BY <1>0, <2>1 DEF Readers
  <2> QED
    BY <1>0, <2>1, <2>2, ReaderKeepsPageInv
<1>6. CASE Recheck
  <2>0. Row \in View /\ Loaded(Row)
    BY LoadedNow
  <2>1. UNCHANGED streamVars /\ client.mode = "open"
    BY <1>6 DEF Recheck, PageInv
  <2>2. CASE Over(Row) /\ Answer(Row)
    BY <1>1, <2>0, <2>1, <2>2
  <2>3. CASE reader' = [reader EXCEPT !.state = "read", !.view = Row] /\ UNCHANGED client
    <3>1. reader' \in Readers /\ reader'.view = Row /\ reader'.cursor = reader.cursor
      BY <1>0, <2>0, <2>3 DEF Readers
    <3> QED
      BY <1>0, <2>0, <2>1, <2>3, <3>1, ReaderKeepsPageInv
  <2> QED
    BY <1>6, <2>2, <2>3 DEF Recheck, Reloaded
<1>7. CASE Drop
  <2>1. client' = ReconnectOrPoll(client) /\ reader' = NoReader /\ UNCHANGED streamVars
        /\ client.mode # "closed"
    BY <1>7 DEF Drop
  <2>2. client' \in Clients /\ client'.latest = client.latest /\ client'.mode # "closed"
    BY <1>0, <2>1, AfterLoss
  <2> QED
    BY <2>1, <2>2, EndKeepsPageInv
<1>8. CASE Reconnect
  <2>1. client' = [client EXCEPT !.mode = "opening"] /\ UNCHANGED <<streamVars, reader>>
        /\ client.mode = "waiting"
    BY <1>8 DEF Reconnect
  <2>2. client' \in Clients /\ client'.latest = client.latest
    BY <1>0, <2>1 DEF Clients
  <2>3. reader.state = "none"
    BY <2>1 DEF PageInv
  <2> QED
    BY <1>0, <2>1, <2>2, <2>3, ReaderKeepsPageInv
<1>9. CASE Refetch
  <2>0. PICK held \in BOOLEAN : held = HoldInLog
    BY DEF HoldInLog
  <2>1. PICK c \in Clients : /\ c = [client EXCEPT !.known = status, !.held = held]
                             /\ c.latest = client.latest /\ c.mode = client.mode
    <3>1. status \in Status
      BY DEF TypeOK
    <3> QED
      BY <1>0, <3>1, AfterRefetch
  <2>2. /\ UNCHANGED streamVars
        /\ \/ status \in Terminal /\ client' = [c EXCEPT !.mode = "closed"] /\ reader' = NoReader
           \/ status \notin Terminal /\ client' = [c EXCEPT !.mode = "opening"] /\ reader' = NoReader
           \/ client' = c /\ UNCHANGED reader
    BY <1>9, <2>0, <2>1 DEF Refetch
  <2>3. client' \in Clients /\ client'.latest = client.latest
    BY <2>1, <2>2 DEF Clients
  <2>4. client.latest # 0 /\ Ends(client.latest) => client'.mode = "closed"
    BY <1>0, <2>1, <2>2 DEF Clients
  <2>5. CASE reader' = NoReader
    BY <1>0, <2>2, <2>3, <2>4, <2>5, ReaderKeepsPageInv
  <2>6. CASE client' = c /\ UNCHANGED reader
    <3>1. reader'.state # "none" => client'.mode = "open" /\ Loaded(reader'.view)
      BY <2>1, <2>6 DEF PageInv
    <3> QED
      BY <1>0, <2>2, <2>3, <2>4, <2>6, <3>1, ReaderKeepsPageInv
  <2> QED
    BY <2>2, <2>5, <2>6
<1> QED
  BY <1>2, <1>3, <1>4, <1>5, <1>6, <1>7, <1>8, <1>9 DEF Reading

LEMMA InitWriterInv == RunEventsInit => TypeOK /\ Overtaking /\ WriterInv /\ PageInv
<1> SUFFICES ASSUME RunEventsInit PROVE TypeOK /\ Overtaking /\ WriterInv /\ PageInv
  OBVIOUS
<1>1. TypeOK /\ Init
  BY InitTypes DEF RunEventsInit
<1>2. Overtaking
  BY <1>1 DEF Init, Overtaking, OnlyOwnEventsOvertake, Busy, NoJob, Process
<1>3. /\ Len(log) = 1 /\ 1..Len(log) = {1} /\ log[1].stage = "QUEUED"
      /\ log[1].kind = "own" /\ log[1].at = 3 /\ status = "QUEUED"
      /\ publication = "unreviewed" /\ ~Ends(1) /\ ~HoldAt(1) /\ Newest(1)
  BY <1>1 DEF Init, Ends, HoldAt, Newest, Terminal
<1>4. LogInv
  <2>1. LastIsStatus
    BY <1>3 DEF LastIsStatus
  <2>3. EndStays
    BY <1>3 DEF EndStays
  <2>4. AfterHold
    BY <1>3 DEF AfterHold
  <2>2. Ordered
    BY <1>3 DEF Ordered
  <2> QED
    BY <2>1, <2>2, <2>3, <2>4 DEF LogInv
<1>5. HoldInv
  BY <1>3 DEF HoldInv, HoldLogged, Held
<1>6. TimeInv
  <2>1. \A p \in Process : stamp[p] = 0
    BY <1>1 DEF Init
  <2> QED
    BY <1>3, <2>1 DEF TimeInv, Process
<1>7. reader = NoReader /\ NoReader \in Readers /\ NoReader.cursor = 0 /\ NoReader.state = "none"
  BY DEF RunEventsInit, NoReader, Readers, View, Status, Publication
<1>8. client \in Clients /\ client.latest = 0
  BY DEF RunEventsInit, Clients, Status
<1>9. PageInv
  BY <1>3, <1>7, <1>8 DEF PageInv
<1> QED
  BY <1>1, <1>2, <1>4, <1>5, <1>6, <1>9 DEF WriterInv

LEMMA StepKeepsPageInv ==
  ASSUME ProgressStreamAssumption, TypeOK, Overtaking, WriterInv, PageInv, OneWriter,
         [RunEventsNext]_vars
  PROVE  /\ TypeOK' /\ Overtaking' /\ WriterInv' /\ PageInv'
         /\ client'.latest >= client.latest
<1>1. [Next]_streamVars
  BY DEF RunEventsNext, Reading, Open, Check, Read, Timeout, Recheck, Drop, Reconnect,
         Refetch, vars
<1>2. TypeOK' /\ Overtaking' /\ WriterInv' /\ Grows
  BY <1>1, NextTypes, NextOvertaking, NextWriterInv
<1>3. CASE UNCHANGED <<reader, client>>
  <2>1. PageInv'
    BY <1>2, <1>3, WritersKeepPageInv
  <2> QED
    BY <1>2, <1>3, <2>1 DEF PageInv, Clients
<1>4. CASE Reading
  BY <1>2, <1>4, ReadingKeepsPageInv DEF WriterInv, Overtaking
<1> QED
  BY <1>3, <1>4 DEF RunEventsNext, vars

\* What the page shows never goes back to an earlier event of the log, however
\* often a connection drops and replays the stream, as long as no two workers wait
\* for the run's row with a time in hand.
THEOREM DisplayForward == RunEventsSpec /\ []OneWriter => DisplayMovesForward
<1> DEFINE IInv == TypeOK /\ Overtaking /\ WriterInv /\ PageInv
           Forward == client'.latest >= client.latest
<1>1. RunEventsInit => IInv
  BY InitWriterInv
<1>2. IInv /\ OneWriter /\ [RunEventsNext]_vars => IInv' /\ Forward
  BY StepKeepsPageInv, ProgressStreamAssumption
<1> HIDE DEF IInv
<1>3. RunEventsSpec /\ []OneWriter => [][Forward]_vars
  BY <1>1, <1>2, PTL DEF RunEventsSpec
<1> QED
  BY <1>3 DEF DisplayMovesForward

------------------------------------------------------------------------------
(* The types of the handler and of the hook, however many workers wait *)

KnownStatus(v) == \E i \in 1..Len(log) : log[i].stage = v.status

WatchInv ==
  /\ LastIsStatus
  /\ reader \in Readers /\ reader.cursor <= Len(log)
  /\ client \in Clients /\ client.latest <= Len(log)
  /\ reader.state # "none" => KnownStatus(reader.view)

\* Every transaction that appends an event names the status it leaves.
LEMMA AppendKeepsLast ==
  ASSUME TypeOK, NEW stage \in Status, NEW kind \in {"progress", "held", "own"},
         NEW time \in Nat, AppendEvent(stage, kind, time), status' = stage
  PROVE  LastIsStatus' /\ Grows
<1>1. /\ log'[Len(log) + 1].stage = stage
      /\ Len(log) \in Nat /\ Len(log') = Len(log) + 1
  BY AppendAdds
<1>2. Len(log') > 0 /\ log'[Len(log')].stage = status'
  BY <1>1
<1>3. LastIsStatus'
  BY <1>2 DEF LastIsStatus
<1> QED
  BY <1>3, AppendGrows

LEMMA NextKeepsLast ==
  ASSUME ProgressStreamAssumption, TypeOK, LastIsStatus, [Next]_streamVars
  PROVE  LastIsStatus' /\ Grows
<1>0. /\ Worker \subseteq Process /\ Api \in Process
      /\ stamp \in [Process -> Nat] /\ Now + 3 \in Nat
  BY DEF Process, TypeOK, Now
<1>1. CASE UNCHANGED row
  BY <1>1 DEF row, LastIsStatus, Grows, TypeOK
<1>2. ASSUME NEW w \in Worker, NEW stage \in Stages, WorkerProgress(w, stage)
      PROVE  LastIsStatus' /\ Grows
  <2>1. /\ stage \in Status /\ stamp[w] \in Nat
        /\ AppendEvent(stage, "progress", stamp[w]) /\ status' = stage
    BY <1>0, <1>2 DEF WorkerProgress, PersistProgress, ProgressStreamAssumption
  <2> QED
    BY <2>1, AppendKeepsLast
<1>3. ASSUME NEW w \in Worker, PersistCompleted(w) PROVE LastIsStatus' /\ Grows
  <2>1. PICK stage \in Status, kind \in {"progress", "held", "own"} :
          AppendEvent(stage, kind, stamp[w]) /\ status' = stage
    BY <1>3 DEF PersistCompleted, Status, Terminal
  <2>2. stamp[w] \in Nat
    BY <1>0
  <2> QED
    BY <2>1, <2>2, AppendKeepsLast
<1>4. CASE RejectRun
  <2>1. /\ "FAILED" \in Status /\ stamp[Api] \in Nat
        /\ AppendEvent("FAILED", "own", stamp[Api]) /\ status' = "FAILED"
    BY <1>0, <1>4 DEF RejectRun, PersistProgress, Status, Terminal
  <2> QED
    BY <2>1, AppendKeepsLast
<1>5. CASE Cancel
  <2>1. AppendEvent(status', "own", Now + 3) /\ status' \in Status
    BY <1>5 DEF Cancel, TypeOK, Status, Terminal
  <2> QED
    BY <1>0, <2>1, AppendKeepsLast
<1>6. CASE Decide
  <2>1. AppendEvent(status', "progress", Now + 3) /\ status' \in Status
    BY <1>6 DEF Decide, TypeOK, Status, Terminal
  <2> QED
    BY <1>0, <2>1, AppendKeepsLast
<1> QED
  BY <1>1, <1>2, <1>3, <1>4, <1>5, <1>6 DEF Next, TakeTime, GiveUp, Mirror, MirrorFails,
     Backfill, Enqueue, Expire, streamVars

\* The event that answers a connection, and the next one to read, are in the log.
LEMMA EventsExist ==
  ASSUME TypeOK, WatchInv
  PROVE  /\ \A v : KnownStatus(v) => DurableEvent(v) \in 1..Len(log)
         /\ Unread # {} => Min(Unread) \in 1..Len(log)
<1>n. PICK n \in Nat : n = Len(log) /\ DOMAIN log = 1..n
  BY DEF TypeOK
<1>1. ASSUME NEW v, KnownStatus(v) PROVE DurableEvent(v) \in 1..Len(log)
  <2> DEFINE S == {i \in DOMAIN log : log[i].stage = v.status}
  <2>1. S \in SUBSET (1..n) /\ S # {}
    BY <1>n, <1>1 DEF KnownStatus
  <2>2. DurableEvent(v) = Max(S)
    BY DEF DurableEvent
  <2> HIDE DEF S
  <2>3. Max(S) \in S
    BY <2>1, MaxIsGreatest
  <2> QED
    BY <1>n, <2>1, <2>2, <2>3
<1>2. ASSUME Unread # {} PROVE Min(Unread) \in 1..Len(log)
  <2>1. Unread \subseteq 1..n
    BY <1>n DEF Unread, TypeOK
  <2>2. Unread \in SUBSET Nat
    <3>1. \A i \in 1..n : i \in Nat
      OBVIOUS
    <3> QED
      BY <2>1, <3>1
  <2>3. Min(Unread) \in Unread
    BY <1>2, <2>2, MinIsLeast
  <2> QED
    BY <1>n, <2>1, <2>3
<1> QED
  BY <1>1, <1>2

\* The steps of the handler and of the hook.
LEMMA ReadingKeepsWatchInv ==
  ASSUME TypeOK, WatchInv, Reading
  PROVE  UNCHANGED streamVars /\ WatchInv'
<1>0. /\ reader \in Readers /\ client \in Clients /\ NoReader \in Readers
      /\ NoReader.cursor = 0 /\ NoReader.state = "none"
      /\ reader.cursor <= Len(log) /\ client.latest <= Len(log) /\ Len(log) \in Nat
      /\ reader.state # "none" => KnownStatus(reader.view)
  BY DEF WatchInv, TypeOK, NoReader, Readers, View, Status, Publication
<1>1. UNCHANGED streamVars
  BY DEF Reading, Open, Check, Read, Timeout, Recheck, Drop, Reconnect, Refetch
<1> SUFFICES WatchInv'
  BY <1>1
<1>2. log' = log /\ status' = status
  BY <1>1 DEF streamVars, row
<1>3. ASSUME reader' \in Readers, reader'.cursor <= Len(log),
             client' \in Clients, client'.latest <= Len(log),
             reader'.state # "none" => KnownStatus(reader'.view)
      PROVE  WatchInv'
  <2>1. (reader.state # "none" => KnownStatus(reader.view))'
    BY <1>2, <1>3 DEF KnownStatus
  <2>2. LastIsStatus'
    BY <1>2 DEF WatchInv, LastIsStatus
  <2> QED
    BY <1>2, <1>3, <2>1, <2>2 DEF WatchInv
<1>4. ASSUME NEW i \in 1..Len(log)
      PROVE  /\ AfterEnd(i) \in Clients /\ AfterEnd(i).latest <= Len(log)
             /\ Shown(i) \in Clients /\ Shown(i).latest <= Len(log)
  BY <1>0, <1>4, AfterEvent, AfterLast
<1>5. Row \in View /\ KnownStatus(Row)
  <2>1. Len(log) \in 1..Len(log) /\ log[Len(log)].stage = status
    BY <1>0 DEF WatchInv, LastIsStatus
  <2> QED
    BY <2>1 DEF Row, View, KnownStatus, TypeOK
<1>6. ASSUME NEW v, KnownStatus(v), Answer(v) PROVE WatchInv'
  <2>1. DurableEvent(v) \in 1..Len(log)
    BY <1>6, EventsExist
  <2>2. client' \in Clients /\ client'.latest <= Len(log) /\ reader' = NoReader
    BY <1>4, <1>6, <2>1 DEF Answer
  <2> QED
    BY <1>0, <1>3, <2>2
<1>7. CASE Open
  <2>1. client' = [client EXCEPT !.mode = "open"]
        /\ reader' = [state |-> "check", cursor |-> 0, view |-> Row]
    BY <1>7 DEF Open
  <2>2. client' \in Clients /\ client'.latest = client.latest
    BY <1>0, <2>1 DEF Clients
  <2>3. reader' \in Readers /\ reader'.view = Row /\ reader'.cursor = 0
    BY <1>5, <2>1 DEF Readers
  <2> QED
    BY <1>0, <1>3, <1>5, <2>2, <2>3
<1>8. CASE Check
  <2>1. KnownStatus(reader.view)
    BY <1>0, <1>8 DEF Check
  <2>2. CASE Answer(reader.view)
    BY <1>6, <2>1, <2>2
  <2>3. CASE reader' = [reader EXCEPT !.state = "read"] /\ UNCHANGED client
    <3>1. reader' \in Readers /\ reader'.view = reader.view /\ reader'.cursor = reader.cursor
      BY <1>0, <2>3 DEF Readers
    <3> QED
      BY <1>0, <1>3, <2>1, <2>3, <3>1
  <2> QED
    BY <1>8, <2>2, <2>3 DEF Check
<1>9. CASE Read
  <2>1. PICK i \in 1..Len(log) : i = Min(Unread)
    BY <1>9, EventsExist DEF Read
  <2>2. KnownStatus(reader.view)
    BY <1>0, <1>9 DEF Read
  <2>3. CASE client' = AfterEnd(i) /\ reader' = NoReader
    BY <1>0, <1>3, <1>4, <2>3
  <2>4. CASE client' = Shown(i) /\ reader' = [reader EXCEPT !.cursor = i]
    <3>1. reader' \in Readers /\ reader'.view = reader.view /\ reader'.cursor = i
      BY <1>0, <2>4 DEF Readers
    <3>2. client' \in Clients /\ client'.latest <= Len(log)
      BY <1>4, <2>4
    <3>3. reader'.cursor <= Len(log)
      BY <3>1
    <3> QED
      BY <1>3, <2>2, <3>1, <3>2, <3>3
  <2> QED
    BY <1>9, <2>1, <2>3, <2>4 DEF Read
<1>10. CASE Timeout
  <2>1. UNCHANGED client /\ reader' = [reader EXCEPT !.state = "recheck"] /\ KnownStatus(reader.view)
    BY <1>0, <1>10 DEF Timeout
  <2>2. reader' \in Readers /\ reader'.view = reader.view /\ reader'.cursor = reader.cursor
    BY <1>0, <2>1 DEF Readers
  <2> QED
    BY <1>0, <1>3, <2>1, <2>2
<1>11. CASE Recheck
  <2>1. CASE Answer(Row)
    BY <1>5, <1>6, <2>1
  <2>2. CASE reader' = [reader EXCEPT !.state = "read", !.view = Row] /\ UNCHANGED client
    <3>1. reader' \in Readers /\ reader'.view = Row /\ reader'.cursor = reader.cursor
      BY <1>0, <1>5, <2>2 DEF Readers
    <3> QED
      BY <1>0, <1>3, <1>5, <2>2, <3>1
  <2> QED
    BY <1>11, <2>1, <2>2 DEF Recheck, Reloaded
<1>12. CASE Drop
  <2>1. client' \in Clients /\ client'.latest = client.latest /\ reader' = NoReader
    BY <1>0, <1>12, AfterLoss DEF Drop
  <2> QED
    BY <1>0, <1>3, <2>1
<1>13. CASE Reconnect
  <2>1. client' = [client EXCEPT !.mode = "opening"] /\ reader' = reader
    BY <1>13 DEF Reconnect
  <2>2. client' \in Clients /\ client'.latest = client.latest
    BY <1>0, <2>1 DEF Clients
  <2> QED
    BY <1>0, <1>3, <2>1, <2>2
<1>14. CASE Refetch
  <2>0. PICK held \in BOOLEAN : held = HoldInLog
    BY DEF HoldInLog
  <2>1. PICK c \in Clients : /\ c = [client EXCEPT !.known = status, !.held = held]
                             /\ c.latest = client.latest
    <3>1. status \in Status
      BY DEF TypeOK
    <3> QED
      BY <1>0, <3>1, AfterRefetch
  <2>2. /\ reader' \in {reader, NoReader}
        /\ \/ client' = [c EXCEPT !.mode = "closed"]
           \/ client' = [c EXCEPT !.mode = "opening"]
           \/ client' = c
    BY <1>14, <2>0, <2>1 DEF Refetch
  <2>3. client' \in Clients /\ client'.latest = client.latest
    BY <2>1, <2>2 DEF Clients
  <2> QED
    BY <1>0, <1>3, <2>2, <2>3
<1> QED
  BY <1>7, <1>8, <1>9, <1>10, <1>11, <1>12, <1>13, <1>14 DEF Reading

LEMMA StepKeepsWatchInv ==
  ASSUME ProgressStreamAssumption, TypeOK, WatchInv, [RunEventsNext]_vars
  PROVE  TypeOK' /\ WatchInv'
<1>1. CASE Reading
  <2>1. UNCHANGED streamVars /\ WatchInv'
    BY <1>1, ReadingKeepsWatchInv
  <2> QED
    BY <2>1, NextTypes
<1>2. CASE [Next]_streamVars /\ UNCHANGED <<reader, client>>
  <2>1. TypeOK' /\ LastIsStatus' /\ Grows
    BY <1>2, NextTypes, NextKeepsLast DEF WatchInv
  <2>2. PICK n \in Nat, m \in Nat : n = Len(log) /\ m = Len(log') /\ n <= m
    BY <2>1 DEF Grows
  <2>3. (reader.state # "none" => KnownStatus(reader.view))'
    <3>1. \A i \in 1..n : i \in 1..m /\ log'[i] = log[i]
      BY <2>1, <2>2 DEF Grows
    <3> QED
      BY <1>2, <2>2, <3>1 DEF WatchInv, KnownStatus
  <2>4. (reader.cursor <= Len(log) /\ client.latest <= Len(log))'
    BY <1>2, <2>2 DEF WatchInv, Readers, Clients
  <2>5. reader' \in Readers /\ client' \in Clients
    BY <1>2 DEF WatchInv
  <2> QED
    BY <2>1, <2>3, <2>4, <2>5 DEF WatchInv
<1> QED
  BY <1>1, <1>2 DEF RunEventsNext, vars

\* The handler and the hook keep their types: in particular the event that answers
\* a connection, which the handler looks up by the status it has loaded, exists.
THEOREM WatchTypeCorrect == RunEventsSpec => []RunEventsTypeOK
<1> DEFINE IInv == TypeOK /\ WatchInv
<1>1. RunEventsInit => IInv
  BY InitWriterInv DEF WriterInv, LogInv, PageInv, Loaded, WatchInv, KnownStatus
<1>2. IInv /\ [RunEventsNext]_vars => IInv'
  BY StepKeepsWatchInv, ProgressStreamAssumption
<1>3. IInv => RunEventsTypeOK
  <2> SUFFICES ASSUME IInv PROVE RunEventsTypeOK
    OBVIOUS
  <2>1. Len(log) \in Nat
    BY DEF TypeOK
  <2>2. reader.cursor \in 0..Len(log) /\ client.latest \in 0..Len(log)
    BY <2>1 DEF WatchInv, Readers, Clients
  <2> QED
    BY <2>2 DEF WatchInv, Readers, Clients, RunEventsTypeOK
<1> HIDE DEF IInv
<1> QED
  BY <1>1, <1>2, <1>3, PTL DEF RunEventsSpec
==============================================================================
