--------------------------- MODULE RunLeaseProofs ---------------------------
(***************************************************************************)
(* For every hard limit, lock TTL and pool lag that pass the validation of *)
(* the settings, the lease protects a live task until it ends.             *)
(***************************************************************************)
EXTENDS RunLease, TLAPS

\* The records of the state, named so that the provers need not open them.
TaskState == [state : {"idle", "starting", "holding"},
              msg : Message \union {None}, started : Nat]
MessageState == [state : {"ready", "taken", "gone"}, visibleAt : Nat]

\* A live task is within its limits, its message is out of everybody's sight
\* until after those limits, and nobody else works on that message.
TaskOK(w) ==
  Alive(w) =>
    /\ task[w].msg \in Message
    /\ task[w].started <= now
    /\ now <= task[w].started + HardLimit + KillLag
    /\ message[task[w].msg].state = "taken"
    /\ message[task[w].msg].visibleAt = task[w].started + HardLimit + Slack

\* A holder's lock is its own and outlives it.
LockOK(w) ==
  Holding(w) => lock.owner = w /\ lock.until >= task[w].started + LockTTL

IInv ==
  /\ TypeOK
  /\ \A w \in Worker : TaskOK(w) /\ LockOK(w)
  /\ NoEarlyRedelivery

\* The settings keep a lock and a message hidden beyond the end of the task.
LEMMA Margins ==
  ASSUME IInv, NEW w \in Worker
  PROVE  /\ Alive(w) => now < message[task[w].msg].visibleAt
         /\ Holding(w) => ~LockFree
<1>1. /\ task[w].started \in Nat /\ now \in Nat
      /\ lock.until \in Nat
      /\ lock.owner = w => lock.owner # None
  BY RunLeaseAssumption DEF IInv, TypeOK
<1>2. TaskOK(w) /\ LockOK(w) /\ (Holding(w) => Alive(w))
  BY DEF IInv, Holding, Alive
<1> QED
  BY <1>1, <1>2, RunLeaseAssumption, LockOutlivesHardLimit
  DEF TaskOK, LockOK, LockFree

LEMMA InitIInv == Init => IInv
<1> SUFFICES ASSUME Init PROVE IInv
  OBVIOUS
<1>1. Idle \in TaskState
  BY DEF Idle, TaskState
<1>2. /\ task \in [Worker -> TaskState]
      /\ \A w \in Worker : task[w].state = "idle"
  BY <1>1 DEF Init, Idle
<1>3. message \in [Message -> MessageState]
  BY DEF Init, MessageState
<1>4. TypeOK
  BY <1>2, <1>3, RunLeaseAssumption DEF Init, TypeOK, TaskState, MessageState
<1> QED BY <1>2, <1>4
        DEF IInv, TaskOK, LockOK, NoEarlyRedelivery, Alive, Holding

\* Records stay typed under the updates the actions make.
LEMMA TaskTypes ==
  ASSUME task \in [Worker -> TaskState], NEW w \in Worker
  PROVE  /\ Ends(w) => /\ task' \in [Worker -> TaskState]
                       /\ ~Alive(w)'
                       /\ \A v \in Worker \ {w} : task'[v] = task[v]
<1>1. Idle \in TaskState /\ Idle.state = "idle"
  BY DEF Idle, TaskState
<1> QED BY <1>1 DEF Ends, Alive

LEMMA NextIInv == IInv /\ [Next]_vars => IInv'
<1> SUFFICES ASSUME IInv, [Next]_vars PROVE IInv'
  OBVIOUS
<1>1. /\ task \in [Worker -> TaskState]
      /\ message \in [Message -> MessageState]
      /\ now \in Nat
      /\ lock \in [owner : Worker \union {None}, until : Nat]
      /\ losses \in 0..MaxLosses
  BY DEF IInv, TypeOK, TaskState, MessageState
<1>2. ASSUME task' \in [Worker -> TaskState], message' \in [Message -> MessageState],
             now' \in Nat, losses' \in 0..MaxLosses,
             lock' \in [owner : Worker \union {None}, until : Nat]
      PROVE  TypeOK'
  BY <1>2 DEF TypeOK, TaskState, MessageState
<1>3. \A w \in Worker : TaskOK(w) /\ LockOK(w)
  BY DEF IInv
<1>4. CASE UNCHANGED vars
  BY <1>4 DEF IInv, vars, TypeOK, TaskOK, LockOK, NoEarlyRedelivery, Alive, Holding
<1>5. CASE Tick
  <2>1. TypeOK'
    BY <1>1, <1>2, <1>5 DEF Tick
  <2>2. ASSUME NEW w \in Worker PROVE TaskOK(w)' /\ LockOK(w)'
    <3>1. task[w].started \in Nat /\ HardLimit \in Nat /\ KillLag \in Nat
      BY <1>1, RunLeaseAssumption DEF TaskState
    <3>2. TaskOK(w) /\ LockOK(w)
      BY <1>3
    <3>3. Alive(w) => now < task[w].started + HardLimit + KillLag
      BY <1>5 DEF Tick
    <3> QED BY <1>1, <1>5, <3>1, <3>2, <3>3
            DEF Tick, TaskOK, LockOK, Alive, Holding
  <2> QED BY <1>5, <2>1, <2>2 DEF Tick, IInv, NoEarlyRedelivery, Alive
<1>6. ASSUME NEW m \in Message, Restore(m) PROVE IInv'
  <2>1. message' \in [Message -> MessageState]
        /\ \A n \in Message \ {m} : message'[n] = message[n]
    BY <1>1, <1>6 DEF Restore, MessageState
  <2>2. TypeOK'
    BY <1>1, <1>2, <1>6, <2>1 DEF Restore
  <2>3. \A w \in Worker : Alive(w) => task[w].msg # m
    <3>1. message[m].visibleAt \in Nat
      BY <1>1 DEF MessageState
    <3> QED BY <1>1, <1>6, <3>1, Margins DEF Restore
  <2>4. ASSUME NEW w \in Worker PROVE TaskOK(w)' /\ LockOK(w)'
    BY <1>3, <1>6, <2>1, <2>3 DEF Restore, TaskOK, LockOK, Alive, Holding
  <2> QED BY <1>6, <2>2, <2>4 DEF Restore, IInv, NoEarlyRedelivery, Alive
<1>7. ASSUME NEW w \in Worker, NEW m \in Message, Deliver(w, m) PROVE IInv'
  <2>1. [state |-> "starting", msg |-> m, started |-> now] \in TaskState
        /\ [state |-> "taken", visibleAt |-> VisibleAt] \in MessageState
        /\ VisibleAt = now + HardLimit + Slack
    BY <1>1, RunLeaseAssumption DEF TaskState, MessageState, VisibleAt
  <2>2. /\ task' \in [Worker -> TaskState]
        /\ message' \in [Message -> MessageState]
        /\ \A v \in Worker \ {w} : task'[v] = task[v]
        /\ \A n \in Message \ {m} : message'[n] = message[n]
        /\ task'[w] = [state |-> "starting", msg |-> m, started |-> now]
        /\ message'[m] = [state |-> "taken", visibleAt |-> VisibleAt]
    BY <1>1, <1>7, <2>1 DEF Deliver
  <2>3. TypeOK'
    BY <1>1, <1>2, <1>7, <2>2 DEF Deliver
  <2>4. \A v \in Worker : Alive(v) => task[v].msg # m
    BY <1>3, <1>7 DEF Deliver, TaskOK
  <2>5. TaskOK(w)' /\ LockOK(w)'
    BY <1>1, <1>7, <2>1, <2>2, RunLeaseAssumption
    DEF Deliver, TaskOK, LockOK, Holding
  <2>6. ASSUME NEW v \in Worker \ {w} PROVE TaskOK(v)' /\ LockOK(v)'
    BY <1>3, <1>7, <2>2, <2>4 DEF Deliver, TaskOK, LockOK, Alive, Holding
  <2>7. NoEarlyRedelivery'
    BY <2>2, <2>4 DEF NoEarlyRedelivery, Alive, IInv
  <2> QED BY <2>3, <2>5, <2>6, <2>7 DEF IInv
<1>8. ASSUME NEW w \in Worker, Acquire(w) PROVE IInv'
  <2>1. /\ task' \in [Worker -> TaskState]
        /\ \A v \in Worker \ {w} : task'[v] = task[v]
        /\ task'[w].state = "holding"
        /\ task'[w].msg = task[w].msg
        /\ task'[w].started = task[w].started
    BY <1>1, <1>8 DEF Acquire, TaskState
  <2>2. /\ ExpiresAt \in Nat
        /\ lock' = [owner |-> w, until |-> ExpiresAt]
        /\ lock' \in [owner : Worker \union {None}, until : Nat]
    BY <1>1, <1>8, RunLeaseAssumption DEF Acquire, ExpiresAt
  <2>3. TypeOK'
    BY <1>1, <1>2, <1>8, <2>1, <2>2 DEF Acquire
  <2>4. \A v \in Worker : ~Holding(v)
    BY <1>8, Margins DEF Acquire
  <2>5. TaskOK(w) /\ Alive(w) /\ task[w].started \in Nat
    BY <1>1, <1>3, <1>8 DEF Acquire, Alive, TaskState
  <2>6. TaskOK(w)' /\ LockOK(w)'
    BY <1>1, <1>8, <2>1, <2>2, <2>5, RunLeaseAssumption
    DEF Acquire, TaskOK, LockOK, ExpiresAt
  <2>7. ASSUME NEW v \in Worker \ {w} PROVE TaskOK(v)' /\ LockOK(v)'
    BY <1>3, <1>8, <2>1, <2>4 DEF Acquire, TaskOK, LockOK, Alive, Holding
  <2>8. NoEarlyRedelivery'
    BY <2>1, <2>5 DEF NoEarlyRedelivery, Alive, IInv
  <2> QED BY <2>3, <2>6, <2>7, <2>8 DEF IInv
\* The ends of a task: its message goes its way, the others keep theirs.
<1>9. ASSUME NEW w \in Worker, Alive(w), Ends(w), UNCHANGED now,
             \/ UNCHANGED message
             \/ Acked(w)
             \/ message' = [message EXCEPT ![task[w].msg].state = "ready"],
             losses' \in 0..MaxLosses,
             \/ UNCHANGED lock
             \/ Holding(w) /\ lock' = [lock EXCEPT !.owner = None]
      PROVE  IInv'
  <2>1. /\ task' \in [Worker -> TaskState]
        /\ ~Alive(w)'
        /\ \A v \in Worker \ {w} : task'[v] = task[v]
    BY <1>1, <1>9, TaskTypes
  <2>2. task[w].msg \in Message
    BY <1>3, <1>9 DEF TaskOK
  <2>3. /\ message' \in [Message -> MessageState]
        /\ \A n \in Message \ {task[w].msg} : message'[n] = message[n]
    BY <1>1, <1>9, <2>2 DEF Acked, MessageState
  <2>4. lock' \in [owner : Worker \union {None}, until : Nat]
        /\ \A v \in Worker \ {w} : Holding(v) => lock' = lock
    <3>1. Holding(w) => \A v \in Worker \ {w} : ~Holding(v)
      BY <1>3 DEF LockOK
    <3> QED BY <1>1, <1>9, <3>1
  <2>5. TypeOK'
    BY <1>1, <1>2, <1>9, <2>1, <2>3, <2>4
  <2>6. TaskOK(w)' /\ LockOK(w)'
    BY <2>1 DEF TaskOK, LockOK, Alive, Holding
  <2>7. ASSUME NEW v \in Worker \ {w} PROVE TaskOK(v)' /\ LockOK(v)'
    <3>1. Alive(v) => task[v].msg # task[w].msg
      BY <1>9 DEF IInv, NoEarlyRedelivery
    <3>2. task'[v] = task[v] /\ now' = now /\ TaskOK(v) /\ LockOK(v)
      BY <1>3, <1>9, <2>1
    <3>3. Alive(v) => message'[task[v].msg] = message[task[v].msg]
      BY <2>3, <3>1, <3>2 DEF TaskOK
    <3> QED BY <2>4, <3>2, <3>3 DEF TaskOK, LockOK, Alive, Holding
  <2>8. NoEarlyRedelivery'
    BY <2>1 DEF NoEarlyRedelivery, Alive, IInv
  <2> QED BY <2>5, <2>6, <2>7, <2>8 DEF IInv
<1>10. ASSUME NEW w \in Worker, FindLocked(w) PROVE IInv'
  BY <1>1, <1>9, <1>10 DEF FindLocked, Alive
<1>11. ASSUME NEW w \in Worker, Finish(w) PROVE IInv'
  BY <1>1, <1>9, <1>11 DEF Finish, Alive, Holding
<1>12. ASSUME NEW w \in Worker, HardKill(w) PROVE IInv'
  BY <1>1, <1>9, <1>12 DEF HardKill
<1>13. ASSUME NEW w \in Worker, NEW kind, Lose(w, kind) PROVE IInv'
  <2>1. losses' \in 0..MaxLosses
    BY <1>1, <1>13, RunLeaseAssumption DEF Lose
  <2>2. UNCHANGED message
        \/ message' = [message EXCEPT ![task[w].msg].state = "ready"]
    BY <1>13 DEF Lose
  <2> QED BY <1>9, <1>13, <2>1, <2>2 DEF Lose
<1> QED
  BY <1>4, <1>5, <1>6, <1>7, <1>8, <1>10, <1>11, <1>12, <1>13 DEF Next

LEMMA Invariance == Spec => []IInv
BY InitIInv, NextIInv, PTL DEF Spec

\* However long the limits are, a run has one live holder: the lock TTL that
\* the settings enforce covers the task's hard limit and the lag of its kill.
THEOREM LeaseIsExclusive == Spec => []OneHolder
<1>1. IInv => OneHolder
  BY DEF IInv, LockOK, OneHolder
<1> QED BY <1>1, Invariance, PTL

\* The broker's visibility timeout never hands a message out a second time
\* while the task of its first delivery lives.
THEOREM DeliveryIsExclusive == Spec => []NoEarlyRedelivery
<1>1. IInv => NoEarlyRedelivery
  BY DEF IInv
<1> QED BY <1>1, Invariance, PTL
==============================================================================
