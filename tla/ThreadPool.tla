------------------------------- MODULE ThreadPool ------------------------------
(***************************************************************************)
(* The worker pool of the DHCPv4 server: DHCPv4/utils/thread_pool.c.       *)
(*                                                                         *)
(* Each critical section of the code (from pthread_mutex_lock to           *)
(* pthread_mutex_unlock or pthread_cond_wait) is one action, guarded by    *)
(* the mutex being free.  The mutex is only seen held between actions when *)
(* a call returns without unlocking it.  The condition variable is the set *)
(* of workers whose pc is "waiting".                                       *)
(*                                                                         *)
(* Several threads may call thread_pool_add and thread_pool_destroy, as    *)
(* the API allows.  The counter "started" is written and never read by the *)
(* code, and is left out.  A task is the pair (function, argument) of one  *)
(* thread_pool_add call.                                                   *)
(***************************************************************************)
EXTENDS Naturals, Sequences

CONSTANTS Tasks,        \* submissions callers may make, each once
          Workers,      \* the num_threads threads
          QueueSize,    \* queue_size
          Idle,         \* no task
          MaxDestroys   \* bound: calls of thread_pool_destroy by the callers

ASSUME QueueSizeAssumption == QueueSize \in Nat \ {0}
ASSUME WorkersAssumption == Workers # {}
ASSUME IdleAssumption == Idle \notin Tasks
ASSUME MaxDestroysAssumption == MaxDestroys \in Nat

VARIABLES queue,        \* the circular buffer
          head, tail, count,
          shutdown,     \* 0 running, 1 graceful, 2 immediate
          lock,         \* "free", or "held" by a call that has returned
          life,         \* "creating", "open", "joining", "failing" (create is
                        \* giving up: no caller has the pool) or "freed"
          pc,           \* where each worker thread is
          task,         \* the local variable task of each worker
          destroys,     \* calls of thread_pool_destroy so far
          offered,      \* history: tasks submitted
          finished      \* history: tasks executed

vars == <<queue, head, tail, count, shutdown, lock, life, pc, task, destroys,
          offered, finished>>

Slots == 0 .. QueueSize - 1

TypeOK ==
    /\ queue \in [Slots -> Tasks \union {Idle}]
    /\ head \in Slots
    /\ tail \in Slots
    /\ count \in 0 .. QueueSize
    /\ shutdown \in {0, 1, 2}
    /\ lock \in {"free", "held"}
    /\ life \in {"creating", "open", "joining", "failing", "freed"}
    /\ pc \in [Workers -> {"unborn", "ready", "waiting", "running", "exited"}]
    /\ task \in [Workers -> Tasks \union {Idle}]
    /\ destroys \in Nat
    /\ offered \subseteq Tasks
    /\ finished \subseteq Tasks

Init ==
    /\ queue = [i \in Slots |-> Idle]
    /\ head = 0 /\ tail = 0 /\ count = 0
    /\ shutdown = 0
    /\ lock = "free"
    /\ life = "creating"
    /\ pc = [w \in Workers |-> "unborn"]
    /\ task = [w \in Workers |-> Idle]
    /\ destroys = 0
    /\ offered = {} /\ finished = {}

(***************************************************************************)
(* pthread_cond_broadcast: every waiting thread goes back to competing for *)
(* the mutex.  pthread_cond_signal: one of them does, if there is one.     *)
(***************************************************************************)
Broadcast == pc' = [w \in Workers |-> IF pc[w] = "waiting" THEN "ready" ELSE pc[w]]

Signal ==
    \/ /\ \A w \in Workers : pc[w] # "waiting"
       /\ UNCHANGED pc
    \/ \E w \in Workers : /\ pc[w] = "waiting"
                          /\ pc' = [pc EXCEPT ![w] = "ready"]

--------------------------------------------------------------------------------
(* thread_pool_create: one step per pthread_create. *)

CreateWorker(w) ==
    /\ life = "creating"
    /\ pc[w] = "unborn"
    /\ pc' = [pc EXCEPT ![w] = "ready"]
    /\ UNCHANGED <<queue, head, tail, count, shutdown, lock, life, task, destroys,
                   offered, finished>>

CreateReturns ==
    /\ life = "creating"
    /\ \A w \in Workers : pc[w] # "unborn"
    /\ life' = "open"
    /\ UNCHANGED <<queue, head, tail, count, shutdown, lock, pc, task, destroys,
                   offered, finished>>

\* pthread_create fails: thread_pool_destroy(pool, 0) joins those already created.
CreateFails ==
    /\ life = "creating"
    /\ \E w \in Workers : pc[w] = "unborn"
    /\ lock = "free"
    /\ shutdown' = 1
    /\ Broadcast
    /\ life' = "failing"
    /\ UNCHANGED <<queue, head, tail, count, lock, task, destroys, offered, finished>>

--------------------------------------------------------------------------------
(* thread_pool_add *)

AddRefused(t) ==
    /\ life \in {"open", "joining"}
    /\ lock = "free"
    /\ t \notin offered
    /\ count = QueueSize \/ shutdown # 0
    /\ offered' = offered \union {t}
    /\ UNCHANGED <<queue, head, tail, count, shutdown, lock, life, pc, task, destroys,
                   finished>>

\* Mutations of AddAccepted: the advance of tail and the signal are forgotten.
AddAcceptedTailStuck(t) ==
    /\ life \in {"open", "joining"} /\ lock = "free" /\ t \notin offered /\ shutdown = 0
    /\ count # QueueSize
    /\ offered' = offered \union {t}
    /\ queue' = [queue EXCEPT ![tail] = t]
    /\ count' = count + 1
    /\ Signal
    /\ UNCHANGED <<head, tail, shutdown, lock, life, task, destroys, finished>>

AddAcceptedNoSignal(t) ==
    /\ life \in {"open", "joining"} /\ lock = "free" /\ t \notin offered /\ shutdown = 0
    /\ count # QueueSize
    /\ offered' = offered \union {t}
    /\ queue' = [queue EXCEPT ![tail] = t]
    /\ tail' = (tail + 1) % QueueSize /\ count' = count + 1
    /\ UNCHANGED <<head, shutdown, lock, life, pc, task, destroys, finished>>

AddAccepted(t) ==
    /\ life \in {"open", "joining"}
    /\ lock = "free"
    /\ t \notin offered
    /\ count # QueueSize
    /\ shutdown = 0
    /\ offered' = offered \union {t}
    /\ queue' = [queue EXCEPT ![tail] = t]
    /\ tail' = (tail + 1) % QueueSize
    /\ count' = count + 1
    /\ Signal
    /\ UNCHANGED <<head, shutdown, lock, life, task, destroys, finished>>

--------------------------------------------------------------------------------
(* thread_pool_destroy *)

\* Mutation of DestroyBegin: pthread_cond_signal in place of the broadcast.
DestroyBeginSignal(flags) ==
    /\ life = "open" /\ lock = "free" /\ destroys < MaxDestroys /\ shutdown = 0
    /\ destroys' = destroys + 1
    /\ shutdown' = IF flags % 2 = 1 THEN 2 ELSE 1
    /\ Signal
    /\ life' = "joining"
    /\ UNCHANGED <<queue, head, tail, count, lock, task, offered, finished>>

DestroyBegin(flags) ==
    /\ life = "open"
    /\ lock = "free"
    /\ destroys < MaxDestroys
    /\ destroys' = destroys + 1
    /\ shutdown = 0
    /\ shutdown' = IF flags % 2 = 1 THEN 2 ELSE 1
    /\ Broadcast
    /\ life' = "joining"
    /\ UNCHANGED <<queue, head, tail, count, lock, task, offered, finished>>

\* The pool is already shutting down: the call returns -1 and keeps the mutex.
DestroyAgain ==
    /\ life = "joining"
    /\ lock = "free"
    /\ destroys < MaxDestroys
    /\ destroys' = destroys + 1
    /\ shutdown # 0
    /\ lock' = "held"
    /\ UNCHANGED <<queue, head, tail, count, shutdown, life, pc, task, offered,
                   finished>>

\* Mutation of DestroyReturns: one thread is left unjoined.
DestroyReturnsEarly ==
    /\ life \in {"joining", "failing"}
    /\ \E u \in Workers : \A w \in Workers \ {u} : pc[w] \in {"unborn", "exited"}
    /\ life' = "freed"
    /\ UNCHANGED <<queue, head, tail, count, shutdown, lock, pc, task, destroys,
                   offered, finished>>

\* pthread_join has returned for every thread created; the pool is freed.
DestroyReturns ==
    /\ life \in {"joining", "failing"}
    /\ \A w \in Workers : pc[w] \in {"unborn", "exited"}
    /\ life' = "freed"
    /\ UNCHANGED <<queue, head, tail, count, shutdown, lock, pc, task, destroys,
                   offered, finished>>

--------------------------------------------------------------------------------
(* thread_pool_worker: a "ready" worker is about to take the mutex, either at
   the top of its loop or on its way out of pthread_cond_wait. *)

WorkerWaits(w) ==
    /\ pc[w] = "ready"
    /\ lock = "free"
    /\ count = 0 /\ shutdown = 0
    /\ pc' = [pc EXCEPT ![w] = "waiting"]
    /\ UNCHANGED <<queue, head, tail, count, shutdown, lock, life, task, destroys,
                   offered, finished>>

\* pthread_cond_wait may return without a signal.
SpuriousWakeup(w) ==
    /\ pc[w] = "waiting"
    /\ pc' = [pc EXCEPT ![w] = "ready"]
    /\ UNCHANGED <<queue, head, tail, count, shutdown, lock, life, task, destroys,
                   offered, finished>>

MustExit == (shutdown = 1 /\ count = 0) \/ shutdown = 2

WorkerExits(w) ==
    /\ pc[w] = "ready"
    /\ lock = "free"
    /\ MustExit
    /\ pc' = [pc EXCEPT ![w] = "exited"]
    /\ UNCHANGED <<queue, head, tail, count, shutdown, lock, life, task, destroys,
                   offered, finished>>

\* Mutations of WorkerTakes: the task is read but not removed before the unlock;
\* the newest task is taken in place of the oldest.
WorkerTakesPeek(w) ==
    /\ pc[w] = "ready" /\ lock = "free"
    /\ ~ (count = 0 /\ shutdown = 0) /\ ~ MustExit
    /\ task' = [task EXCEPT ![w] = queue[head]]
    /\ pc' = [pc EXCEPT ![w] = "running"]
    /\ UNCHANGED <<queue, head, tail, count, shutdown, lock, life, destroys, offered,
                   finished>>

WorkerTakesNewest(w) ==
    /\ pc[w] = "ready" /\ lock = "free"
    /\ ~ (count = 0 /\ shutdown = 0) /\ ~ MustExit
    /\ tail' = (tail + QueueSize - 1) % QueueSize
    /\ task' = [task EXCEPT ![w] = queue[tail']]
    /\ count' = count - 1
    /\ pc' = [pc EXCEPT ![w] = "running"]
    /\ UNCHANGED <<queue, head, shutdown, lock, life, destroys, offered, finished>>

WorkerTakes(w) ==
    /\ pc[w] = "ready"
    /\ lock = "free"
    /\ ~ (count = 0 /\ shutdown = 0)
    /\ ~ MustExit
    /\ task' = [task EXCEPT ![w] = queue[head]]
    /\ head' = (head + 1) % QueueSize
    /\ count' = count - 1
    /\ pc' = [pc EXCEPT ![w] = "running"]
    /\ UNCHANGED <<queue, tail, shutdown, lock, life, destroys, offered, finished>>

\* task.function(task.argument) returns, outside the mutex.
WorkerFinishes(w) ==
    /\ pc[w] = "running"
    /\ finished' = finished \union {task[w]}
    /\ task' = [task EXCEPT ![w] = Idle]
    /\ pc' = [pc EXCEPT ![w] = "ready"]
    /\ UNCHANGED <<queue, head, tail, count, shutdown, lock, life, destroys, offered>>

WorkerStep(w) ==
    WorkerWaits(w) \/ WorkerExits(w) \/ WorkerTakes(w) \/ WorkerFinishes(w)

\* The process has left thread_pool_destroy and uses the pool no more.
Terminated == life = "freed" /\ UNCHANGED vars

Next ==
    \/ \E w \in Workers : CreateWorker(w)
    \/ CreateReturns
    \/ CreateFails
    \/ \E t \in Tasks : AddRefused(t) \/ AddAccepted(t)
    \/ \E flags \in {0, 1} : DestroyBegin(flags)
    \/ DestroyAgain
    \/ DestroyReturns
    \/ \E w \in Workers : WorkerStep(w) \/ SpuriousWakeup(w)
    \/ Terminated

Spec == Init /\ [][Next]_vars

(***************************************************************************)
(* Threads are scheduled and the mutex is eventually granted to a thread   *)
(* that keeps asking for it; the handler given to the pool returns; join   *)
(* returns when its thread has exited.  Nobody is obliged to add tasks or  *)
(* to destroy the pool, and no spurious wakeup is relied on.               *)
(***************************************************************************)
Fairness ==
    /\ \A w \in Workers : WF_vars(WorkerStep(w))
    /\ WF_vars(DestroyReturns)

FairSpec == Spec /\ Fairness

--------------------------------------------------------------------------------
(* The tasks in the circular buffer, oldest first. *)
Buffered == [i \in 1 .. count |-> queue[(head + i - 1) % QueueSize]]

\* Some buffer position still holds t.
Queued(t) == \E i \in 1 .. count : Buffered[i] = t

\* What the pool promises is TaskQueue, read off the pool's state like this.
Phase == IF life = "freed" THEN "stopped"
         ELSE IF shutdown = 0 THEN "open"
         ELSE IF shutdown = 1 THEN "drain" ELSE "discard"

Promise == INSTANCE TaskQueue
             WITH pending <- Buffered, running <- task, phase <- Phase

(***************************************************************************)
(* The pool implements the abstract queue: thread_pool_add accepts in      *)
(* order unless full or closing, the workers start tasks in that order,    *)
(* and thread_pool_destroy(.., 0) returns only once all of them have run.  *)
(***************************************************************************)
ImplementsTaskQueue == Promise!Spec

(***************************************************************************)
(* The index arithmetic of add and of the workers never lets the three     *)
(* cursors disagree: tail is always count slots after head.                *)
(***************************************************************************)
RingConsistent == tail = (head + count) % QueueSize

(***************************************************************************)
(* No task is lost or run twice: an accepted task sits in exactly one      *)
(* buffer position, or is held by exactly one worker, or has been          *)
(* executed, and never two of these.                                       *)
(***************************************************************************)
EachTaskInOnePlace ==
    \A t \in Tasks :
        /\ \A i, j \in 1 .. count : Buffered[i] = t /\ Buffered[j] = t => i = j
        /\ \A v, w \in Workers : task[v] = t /\ task[w] = t => v = w
        /\ Queued(t) => t \in offered /\ t \notin finished /\ \A w \in Workers : task[w] # t
        /\ \A w \in Workers : task[w] = t => t \in offered /\ t \notin finished
        /\ t \in finished => t \in offered

(***************************************************************************)
(* thread_pool_destroy frees the mutex, the queue and the pool only when   *)
(* no worker can touch them any more, and after a graceful shutdown not    *)
(* one accepted task is left behind in the buffer.                         *)
(***************************************************************************)
FreedPoolIsQuiet ==
    life = "freed" => /\ \A w \in Workers : pc[w] \in {"unborn", "exited"} /\ task[w] = Idle
                      /\ shutdown = 1 => count = 0

(***************************************************************************)
(* A signal in thread_pool_add is never lost: if tasks are buffered, some  *)
(* created worker is awake (holding a task or about to look at the queue). *)
(***************************************************************************)
NoLostWakeup ==
    count > 0 /\ shutdown # 2 => \E w \in Workers : pc[w] \in {"ready", "running"}

(***************************************************************************)
(* Once thread_pool_destroy has set shutdown, its joins return and the     *)
(* pool is freed: no worker sleeps through the broadcast.  Excepted is a   *)
(* second thread_pool_destroy, which returns with the mutex locked.        *)
(***************************************************************************)
ShutdownCompletes == (shutdown # 0) ~> (life = "freed" \/ lock = "held")

(***************************************************************************)
(* Every accepted task is executed, unless an immediate shutdown           *)
(* (flags = 1) discards it: "0 for graceful shutdown (wait for tasks)",    *)
(* include/utils/thread_pool.h:56.  Excepted is a second                   *)
(* thread_pool_destroy, which returns with the mutex locked.               *)
(***************************************************************************)
AcceptedTasksRun == \A t \in Tasks : Queued(t) ~> (t \in finished \/ shutdown = 2 \/ lock = "held")
================================================================================
