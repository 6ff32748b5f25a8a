------------------------------ MODULE RunLease ------------------------------
(***************************************************************************)
(* The clocks behind a run's single owner.  The run lock is a Redis key    *)
(* with a TTL that nobody renews; a delivered message is invisible for the *)
(* broker's visibility timeout; Celery kills a task at its hard time       *)
(* limit.  VerificationTask assumes what follows from their order: no task *)
(* outlives its lock (TimelyTasks).                                        *)
(***************************************************************************)
EXTENDS Naturals

CONSTANTS
  Worker,
  Message,    \* messages that name this run: the first one and its duplicates
  None,       \* no owner
  HardLimit,  \* celery_task_time_limit_seconds
  KillLag,    \* how late a task may end: a retry's countdown, the pool's delay
  Slack,      \* the 60 seconds config.py and celery_app.py add to HardLimit
  LockTTL,    \* redis_lock_ttl_seconds
  LossKinds,  \* how workers die: "process" (the pool sees it) | "host"
  MaxTime,    \* bound on the clock
  MaxLosses   \* bound on lost workers

ASSUME RunLeaseAssumption ==
  /\ None \notin Worker
  /\ HardLimit \in Nat /\ KillLag \in Nat /\ Slack \in Nat /\ LockTTL \in Nat
  /\ MaxTime \in Nat /\ MaxLosses \in Nat
  /\ LossKinds \subseteq {"process", "host"}
  /\ KillLag < Slack

\* run_lock_outlives_the_hard_task_limit refuses any other configuration.
ASSUME LockOutlivesHardLimit == LockTTL >= HardLimit + Slack

VARIABLES
  now,
  lock,     \* the key: its owner's token and its expiry
  message,  \* "ready" | "taken" | "gone", and when a taken one is visible again
  task,     \* what each worker runs: its message, since when, holding the lock?
  losses

vars == <<now, lock, message, task, losses>>

Idle == [state |-> "idle", msg |-> None, started |-> 0]

Alive(w) == task[w].state # "idle"
Holding(w) == task[w].state = "holding"
LockFree == lock.owner = None \/ lock.until <= now

Init ==
  /\ now = 0
  /\ lock = [owner |-> None, until |-> 0]
  /\ message = [m \in Message |-> [state |-> "ready", visibleAt |-> 0]]
  /\ task = [w \in Worker |-> Idle]
  /\ losses = 0

------------------------------------------------------------------------------
\* Faulty variant of VisibleAt: the timeout is the hard limit itself.
VisibleAtLimit == now + HardLimit

\* broker_transport_options
VisibleAt == now + HardLimit + Slack

\* Faulty variant of ExpiresAt: the lock is taken for the hard limit itself.
ExpiresAtLimit == now + HardLimit

\* run_lock
ExpiresAt == now + LockTTL

Deliver(w, m) ==
  /\ task[w].state = "idle"
  /\ message[m].state = "ready"
  /\ message' =
       [message EXCEPT ![m] = [state |-> "taken", visibleAt |-> VisibleAt]]
  /\ task' =
       [task EXCEPT ![w] = [state |-> "starting", msg |-> m, started |-> now]]
  /\ UNCHANGED <<now, lock, losses>>

\* The broker restores a message nobody acknowledged in time.
Restore(m) ==
  /\ message[m].state = "taken"
  /\ message[m].visibleAt <= now
  /\ message' = [message EXCEPT ![m].state = "ready"]
  /\ UNCHANGED <<now, lock, task, losses>>

\* SET NX PX: the lock is taken with a fresh token.
Acquire(w) ==
  /\ task[w].state = "starting"
  /\ LockFree
  /\ lock' = [owner |-> w, until |-> ExpiresAt]
  /\ task' = [task EXCEPT ![w].state = "holding"]
  /\ UNCHANGED <<now, message, losses>>

\* The worker is done with its delivery.
Ends(w) == task' = [task EXCEPT ![w] = Idle]
Acked(w) == message' = [message EXCEPT ![task[w].msg].state = "gone"]

\* "already owned by another worker": the task returns and is acknowledged.
FindLocked(w) ==
  /\ task[w].state = "starting"
  /\ ~LockFree
  /\ Ends(w)
  /\ Acked(w)
  /\ UNCHANGED <<now, lock, losses>>

\* The task ends; the release deletes the key only if it holds this token.
Finish(w) ==
  /\ Holding(w)
  /\ lock' = IF lock.owner = w /\ ~LockFree
               THEN [lock EXCEPT !.owner = None] ELSE lock
  /\ Ends(w)
  /\ Acked(w)
  /\ UNCHANGED <<now, losses>>

\* The pool kills a task over its hard limit; Celery acknowledges it.
HardKill(w) ==
  /\ Alive(w)
  /\ now >= task[w].started + HardLimit
  /\ Ends(w)
  /\ Acked(w)
  /\ UNCHANGED <<now, lock, losses>>

\* A lost pool process is seen by its parent, which requeues the message at
\* once (task_reject_on_worker_lost); a lost host leaves it to the visibility
\* timeout. Either way the lock stays behind.
Lose(w, kind) ==
  /\ Alive(w)
  /\ losses < MaxLosses
  /\ losses' = losses + 1
  /\ Ends(w)
  /\ message' = IF kind = "process"
                  THEN [message EXCEPT ![task[w].msg].state = "ready"] ELSE message
  /\ UNCHANGED <<now, lock>>

\* Time passes, but no task lives past its limit and the pool's lag.
Tick ==
  /\ now < MaxTime
  /\ \A w \in Worker : Alive(w) => now < task[w].started + HardLimit + KillLag
  /\ now' = now + 1
  /\ UNCHANGED <<lock, message, task, losses>>

Next ==
  \/ Tick
  \/ \E m \in Message : Restore(m)
  \/ \E w \in Worker :
       \/ \E m \in Message : Deliver(w, m)
       \/ Acquire(w) \/ FindLocked(w) \/ Finish(w) \/ HardKill(w)
       \/ \E kind \in LossKinds : Lose(w, kind)

Spec == Init /\ [][Next]_vars

------------------------------------------------------------------------------
(* Properties *)

\* The key, the messages and the tasks keep their types under the bounded clock.
TypeOK ==
  /\ now \in Nat
  /\ lock \in [owner : Worker \union {None}, until : Nat]
  /\ message \in [Message -> [state : {"ready", "taken", "gone"},
                              visibleAt : Nat]]
  /\ task \in [Worker -> [state : {"idle", "starting", "holding"},
                          msg : Message \union {None}, started : Nat]]
  /\ losses \in 0..MaxLosses

\* Two live tasks never hold the run at once, although the lock is not renewed
\* and expires by the clock.
OneHolder ==
  \A v, w \in Worker : Holding(v) /\ Holding(w) => v = w

\* The broker never delivers a message a second time while its first task is
\* still alive.
NoEarlyRedelivery ==
  \A v, w \in Worker :
    Alive(v) /\ Alive(w) /\ task[v].msg = task[w].msg => v = w
==============================================================================
