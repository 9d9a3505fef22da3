------------------------------ MODULE DhcpV6Agent ------------------------------
(***************************************************************************)
(* The threads of the DHCPv6 server: dhcpv6_agent_start with its receive   *)
(* loop, the packet queue, worker_thread, cleanup_thread, the shutdown,    *)
(* and the logger they all write to.  What the workers and the cleaner do  *)
(* to leases and pools under ctx.db_lock is in DhcpV6Server.               *)
(*                                                                         *)
(* Three mutexes matter.  queue.lock guards the queue; it is held across a *)
(* step only while the main thread logs that it drops a packet.            *)
(* ctx.db_lock is held during process_packet and a cleanup round.  g_lock  *)
(* is held by whoever writes a log line, with the other two held or not.   *)
(* Every place that may log is a place that does: one line inside and one  *)
(* after process_packet, one before and one inside a cleanup round.        *)
(*                                                                         *)
(* pthread_cancel takes effect when the cleaner is in a call that is a     *)
(* cancellation point: sleep, the write of a log line, the calls that      *)
(* write the lease file.  The mutexes it holds then stay locked.           *)
(***************************************************************************)
EXTENDS Naturals, Sequences, FiniteSets

CONSTANTS Workers,      \* the THREAD_POOL_SIZE workers
          Packets,      \* packets that may arrive
          QUEUE_SIZE,   \* slots of the queue
          MaxRounds     \* bound on the rounds of the cleaner

ASSUME AgentAssumption ==
    /\ IsFiniteSet(Workers) /\ Workers \cap {"main", "cleaner", "nobody"} = {}
    /\ QUEUE_SIZE \in Nat \ {0} /\ MaxRounds \in Nat

VARIABLES running,      \* the flag dhcpv6_agent_stop clears
          main,         \* where dhcpv6_agent_start is
          inited,       \* g_inited of the logger
          worker,       \* where each worker is
          cleaner,      \* where the cleaner is
          rounds,       \* rounds it has begun
          cancelled,    \* pthread_cancel was called
          queue,        \* queue.tasks from head to tail
          shutdown,     \* queue.shutdown
          accepted,     \* packets in the order in which they entered the queue
          taken,        \* packets in the order in which workers took them
          arrived,      \* packets that have arrived
          db_lock, g_lock   \* who holds the mutex

agentVars == <<running, main, inited, worker, cleaner, rounds, cancelled, queue, shutdown,
               accepted, taken, arrived, db_lock, g_lock>>

Nobody == "nobody"

MainPlaces == {"begin", "hello", "create", "poll", "drop", "close", "join", "joincleaner", "stopped",
               "save", "saving", "done", "failed", "stuck"}
WorkerPlaces == {"none", "idle", "wait", "lock", "inside", "after", "done"}
CleanerPlaces == {"none", "sleep", "debug", "lock", "round", "save", "done", "dead"}

AgentTypeOK ==
    /\ running \in BOOLEAN /\ inited \in BOOLEAN /\ cancelled \in BOOLEAN /\ shutdown \in BOOLEAN
    /\ main \in MainPlaces
    /\ worker \in [Workers -> WorkerPlaces]
    /\ cleaner \in CleanerPlaces
    /\ rounds \in 0 .. MaxRounds
    /\ queue \in Seq(Packets) /\ Len(queue) <= QUEUE_SIZE
    /\ accepted \in Seq(Packets) /\ taken \in Seq(Packets) /\ arrived \subseteq Packets
    /\ db_lock \in Workers \union {"cleaner", Nobody}
    /\ g_lock \in Workers \union {"main", "cleaner", Nobody}

(* The caller ignores what init_logger returns: the log file may not be writable. *)
AgentInit ==
    /\ running = TRUE /\ inited \in BOOLEAN
    /\ main = "begin"
    /\ worker = [w \in Workers |-> "none"] /\ cleaner = "none"
    /\ rounds = 0 /\ cancelled = FALSE
    /\ queue = <<>> /\ shutdown = FALSE
    /\ accepted = <<>> /\ taken = <<>> /\ arrived = {}
    /\ db_lock = Nobody /\ g_lock = Nobody

-----------------------------------------------------------------------------
(* log_msg: the lock is taken, the line written, the lock released.  If the logger
   is not initialised, log_msg calls init_logger, which takes the lock again. *)
log_msg(t) == g_lock = Nobody /\ g_lock' = t
Logged(t) == g_lock = t /\ g_lock' = Nobody

-----------------------------------------------------------------------------
(* The main thread *)

(* The flag is set at the start, whatever a signal has done to it. *)
Begin ==
    /\ main = "begin"
    /\ running' = TRUE /\ main' = "hello"
    /\ UNCHANGED <<inited, worker, cleaner, rounds, cancelled, queue, shutdown,
                   accepted, taken, arrived, db_lock, g_lock>>

Hello ==
    /\ main = "hello"
    /\ \/ log_msg("main") /\ main' = (IF inited THEN main ELSE "stuck")
       \/ Logged("main") /\ main' = "create"
    /\ UNCHANGED <<running, inited, worker, cleaner, rounds, cancelled, queue, shutdown,
                   accepted, taken, arrived, db_lock>>

CreateWorker(w) ==
    /\ main = "create" /\ worker[w] = "none"
    /\ worker' = [worker EXCEPT ![w] = "idle"]
    /\ UNCHANGED <<running, main, inited, cleaner, rounds, cancelled, queue, shutdown,
                   accepted, taken, arrived, db_lock, g_lock>>

CreateCleaner ==
    /\ main = "create" /\ \A w \in Workers : worker[w] # "none"
    /\ cleaner' = "sleep" /\ main' = "poll"
    /\ UNCHANGED <<running, inited, worker, rounds, cancelled, queue, shutdown,
                   accepted, taken, arrived, db_lock, g_lock>>

(* A thread, the socket or the address is not to be had: dhcpv6_agent_start returns,
   and main ends the process. *)
StartFails ==
    /\ main = "create"
    /\ main' = "failed"
    /\ worker' = [w \in Workers |-> "done"] /\ cleaner' = "done"
    /\ UNCHANGED <<running, inited, rounds, cancelled, queue, shutdown,
                   accepted, taken, arrived, db_lock, g_lock>>

(* pthread_cond_signal wakes one of the waiting workers, if there is one. *)
Signalled ==
    IF \E w \in Workers : worker[w] = "wait"
    THEN \E w \in Workers : worker[w] = "wait" /\ worker' = [worker EXCEPT ![w] = "idle"]
    ELSE UNCHANGED worker

(* A mutation of queue_push: the worker is not woken. *)
PushWithoutSignal(p) ==
    /\ main = "poll" /\ running /\ p \notin arrived
    /\ arrived' = arrived \union {p}
    /\ IF Len(queue) < QUEUE_SIZE /\ ~shutdown
       THEN /\ queue' = Append(queue, p) /\ accepted' = Append(accepted, p)
            /\ UNCHANGED main
       ELSE main' = "drop" /\ UNCHANGED <<queue, accepted>>
    /\ UNCHANGED <<running, inited, worker, cleaner, rounds, cancelled, shutdown, taken, db_lock, g_lock>>

(* A packet is received and put into the queue, or the main thread goes on to log
   that it is dropped. *)
queue_push(p) ==
    /\ main = "poll" /\ running /\ p \notin arrived
    /\ arrived' = arrived \union {p}
    /\ IF Len(queue) < QUEUE_SIZE /\ ~shutdown
       THEN /\ queue' = Append(queue, p) /\ accepted' = Append(accepted, p)
            /\ Signalled
            /\ UNCHANGED main
       ELSE main' = "drop" /\ UNCHANGED <<queue, accepted, worker>>
    /\ UNCHANGED <<running, inited, cleaner, rounds, cancelled, shutdown, taken, db_lock, g_lock>>

Dropped ==
    /\ main = "drop"
    /\ \/ log_msg("main") /\ UNCHANGED main
       \/ Logged("main") /\ main' = "poll"
    /\ UNCHANGED <<running, inited, worker, cleaner, rounds, cancelled, queue, shutdown,
                   accepted, taken, arrived, db_lock>>

(* The loop ends within a second after running was cleared. *)
LoopEnds ==
    /\ main = "poll" /\ ~running
    /\ main' = "close"
    /\ UNCHANGED <<running, inited, worker, cleaner, rounds, cancelled, queue, shutdown,
                   accepted, taken, arrived, db_lock, g_lock>>

(* poll or recvfrom fails: the loop ends although running is still set. *)
ReceiveFails ==
    /\ main = "poll"
    /\ main' = "close"
    /\ UNCHANGED <<running, inited, worker, cleaner, rounds, cancelled, queue, shutdown,
                   accepted, taken, arrived, db_lock, g_lock>>

(* The broadcast wakes every waiting worker. *)
Awake == [w \in Workers |-> IF worker[w] = "wait" THEN "idle" ELSE worker[w]]

Close ==
    /\ main = "close"
    /\ \/ log_msg("main") /\ UNCHANGED <<main, shutdown, worker>>
       \/ /\ Logged("main")
          /\ shutdown' = TRUE /\ worker' = Awake /\ main' = "join"
    /\ UNCHANGED <<running, inited, cleaner, rounds, cancelled, queue,
                   accepted, taken, arrived, db_lock>>

(* A mutation of JoinWorkers: the cleaner is cancelled first. *)
CancelFirst ==
    /\ main = "join"
    /\ IF ~cancelled THEN cancelled' = TRUE /\ UNCHANGED main
       ELSE /\ \A w \in Workers : worker[w] = "done"
            /\ main' = "joincleaner" /\ UNCHANGED cancelled
    /\ UNCHANGED <<running, inited, worker, cleaner, rounds, queue, shutdown,
                   accepted, taken, arrived, db_lock, g_lock>>

JoinWorkers ==
    /\ main = "join"
    /\ \A w \in Workers : worker[w] = "done"
    /\ cancelled' = TRUE /\ main' = "joincleaner"
    /\ UNCHANGED <<running, inited, worker, cleaner, rounds, queue, shutdown,
                   accepted, taken, arrived, db_lock, g_lock>>

(* A mutation of JoinCleaner: the cleaner is cancelled but not joined. *)
NoJoinCleaner ==
    /\ main = "joincleaner"
    /\ main' = "stopped"
    /\ UNCHANGED <<running, inited, worker, cleaner, rounds, cancelled, queue, shutdown,
                   accepted, taken, arrived, db_lock, g_lock>>

JoinCleaner ==
    /\ main = "joincleaner"
    /\ cleaner \in {"done", "dead"}
    /\ main' = "stopped"
    /\ UNCHANGED <<running, inited, worker, cleaner, rounds, cancelled, queue, shutdown,
                   accepted, taken, arrived, db_lock, g_lock>>

(* "Thread pool stopped.", the last save with its log line, and the rest. *)
Finish ==
    /\ \/ main = "stopped" /\ log_msg("main") /\ UNCHANGED main
       \/ main = "stopped" /\ Logged("main") /\ main' = "save"
       \/ main = "save" /\ main' = "saving" /\ UNCHANGED g_lock
       \/ main = "saving" /\ log_msg("main") /\ UNCHANGED main
       \/ main = "saving" /\ Logged("main") /\ main' = "done"
    /\ UNCHANGED <<running, inited, worker, cleaner, rounds, cancelled, queue, shutdown,
                   accepted, taken, arrived, db_lock>>

-----------------------------------------------------------------------------
(* worker_thread; queue.lock is taken only while the main thread logs a drop *)

(* A mutation of WorkerLooks: the packet stays in the queue. *)
WorkerPeeks(w) ==
    /\ worker[w] = "idle" /\ main # "drop"
    /\ IF shutdown
       THEN worker' = [worker EXCEPT ![w] = "done"] /\ UNCHANGED <<queue, taken>>
       ELSE IF queue = <<>>
       THEN worker' = [worker EXCEPT ![w] = "wait"] /\ UNCHANGED <<queue, taken>>
       ELSE /\ worker' = [worker EXCEPT ![w] = "lock"]
            /\ taken' = Append(taken, Head(queue))
            /\ UNCHANGED queue
    /\ UNCHANGED <<running, main, inited, cleaner, rounds, cancelled, shutdown, accepted,
                   arrived, db_lock, g_lock>>

WorkerLooks(w) ==
    /\ worker[w] = "idle" /\ main # "drop"
    /\ IF shutdown
       THEN worker' = [worker EXCEPT ![w] = "done"] /\ UNCHANGED <<queue, taken>>
       ELSE IF queue = <<>>
       THEN worker' = [worker EXCEPT ![w] = "wait"] /\ UNCHANGED <<queue, taken>>
       ELSE /\ worker' = [worker EXCEPT ![w] = "lock"]
            /\ taken' = Append(taken, Head(queue))
            /\ queue' = Tail(queue)
    /\ UNCHANGED <<running, main, inited, cleaner, rounds, cancelled, shutdown, accepted,
                   arrived, db_lock, g_lock>>

SpuriousWake(w) ==
    /\ worker[w] = "wait"
    /\ worker' = [worker EXCEPT ![w] = "idle"]
    /\ UNCHANGED <<running, main, inited, cleaner, rounds, cancelled, queue, shutdown, accepted,
                   taken, arrived, db_lock, g_lock>>

(* A mutation of WorkerProcesses: the lock is kept on the way out. *)
WorkerKeepsLock(w) ==
    /\ \/ /\ worker[w] = "lock" /\ db_lock = Nobody
          /\ db_lock' = w
          /\ worker' = [worker EXCEPT ![w] = "inside"]
          /\ UNCHANGED g_lock
       \/ /\ worker[w] \in {"inside", "after"} /\ log_msg(w)
          /\ UNCHANGED <<db_lock, worker>>
       \/ /\ worker[w] = "inside" /\ Logged(w)
          /\ worker' = [worker EXCEPT ![w] = "after"]
          /\ UNCHANGED db_lock
       \/ /\ worker[w] = "after" /\ Logged(w)
          /\ worker' = [worker EXCEPT ![w] = "idle"]
          /\ UNCHANGED db_lock
    /\ UNCHANGED <<running, main, inited, cleaner, rounds, cancelled, queue, shutdown, accepted,
                   taken, arrived>>

(* process_packet: lock, a log line inside, unlock, the answer and its log line. *)
WorkerProcesses(w) ==
    /\ \/ /\ worker[w] = "lock" /\ db_lock = Nobody
          /\ db_lock' = w
          /\ worker' = [worker EXCEPT ![w] = "inside"]
          /\ UNCHANGED g_lock
       \/ /\ worker[w] \in {"inside", "after"} /\ log_msg(w)
          /\ UNCHANGED <<db_lock, worker>>
       \/ /\ worker[w] = "inside" /\ Logged(w)
          /\ db_lock' = Nobody
          /\ worker' = [worker EXCEPT ![w] = "after"]
       \/ /\ worker[w] = "after" /\ Logged(w)
          /\ worker' = [worker EXCEPT ![w] = "idle"]
          /\ UNCHANGED db_lock
    /\ UNCHANGED <<running, main, inited, cleaner, rounds, cancelled, queue, shutdown, accepted,
                   taken, arrived>>

-----------------------------------------------------------------------------
(* cleanup_thread *)

SleepEnds ==
    /\ cleaner = "sleep" /\ rounds < MaxRounds
    /\ rounds' = rounds + 1
    /\ cleaner' = IF running THEN "debug" ELSE "done"
    /\ UNCHANGED <<running, main, inited, worker, cancelled, queue, shutdown, accepted,
                   taken, arrived, db_lock, g_lock>>

CleanerRuns ==
    /\ \/ cleaner \in {"debug", "round"} /\ log_msg("cleaner") /\ UNCHANGED <<cleaner, db_lock>>
       \/ cleaner = "debug" /\ Logged("cleaner") /\ cleaner' = "lock" /\ UNCHANGED db_lock
       \/ /\ cleaner = "lock" /\ db_lock = Nobody
          /\ db_lock' = "cleaner" /\ cleaner' = "round" /\ UNCHANGED g_lock
       \/ cleaner = "round" /\ Logged("cleaner") /\ cleaner' = "save" /\ UNCHANGED db_lock
       \/ /\ cleaner = "save"
          /\ db_lock' = Nobody /\ cleaner' = (IF running THEN "sleep" ELSE "done") /\ UNCHANGED g_lock
    /\ UNCHANGED <<running, main, inited, worker, rounds, cancelled, queue, shutdown, accepted,
                   taken, arrived>>

(* In sleep, in the write of a log line, or while the lease file is written. *)
CleanerDies ==
    /\ cancelled
    /\ cleaner \in {"sleep", "save"} \/ g_lock = "cleaner"
    /\ cleaner \notin {"done", "dead"}
    /\ cleaner' = "dead"
    /\ UNCHANGED <<running, main, inited, worker, rounds, cancelled, queue, shutdown, accepted,
                   taken, arrived, db_lock, g_lock>>

-----------------------------------------------------------------------------
(* SIGINT or SIGTERM *)
dhcpv6_agent_stop ==
    /\ running /\ main \notin {"failed", "done"}
    /\ running' = FALSE
    /\ UNCHANGED <<main, inited, worker, cleaner, rounds, cancelled, queue, shutdown, accepted,
                   taken, arrived, db_lock, g_lock>>

MainStep ==
    Begin \/ Hello \/ (\E w \in Workers : CreateWorker(w)) \/ CreateCleaner \/ Dropped \/ LoopEnds \/ Close
    \/ JoinWorkers \/ JoinCleaner \/ Finish

WorkerStep(w) == WorkerLooks(w) \/ WorkerProcesses(w)

CleanerStep == CleanerRuns \/ CleanerDies

AgentNext ==
    \/ MainStep \/ StartFails \/ ReceiveFails
    \/ \E p \in Packets : queue_push(p)
    \/ \E w \in Workers : WorkerStep(w) \/ SpuriousWake(w)
    \/ CleanerStep \/ SleepEnds
    \/ dhcpv6_agent_stop

(* Threads that can run do run.  Nothing makes packets, signals, errors, spurious
   wakeups or the end of a sleep happen. *)
AgentFairness ==
    /\ WF_agentVars(MainStep)
    /\ \A w \in Workers : WF_agentVars(WorkerStep(w))
    /\ WF_agentVars(CleanerStep)

AgentSpec == AgentInit /\ [][AgentNext]_agentVars /\ AgentFairness

-----------------------------------------------------------------------------
(* Properties *)

(* Workers take the packets in the order in which they were received, none twice
   and none that was dropped. *)
PacketsInOrder == accepted = taken \o queue

(* While the last lease_v6_db_save runs, without ctx.db_lock, no other thread can
   change the database, even if the cleaner was cancelled in the middle of a round. *)
SaveIsAlone ==
    main \in {"save", "saving", "done"} =>
        /\ \A w \in Workers : worker[w] = "done"
        /\ cleaner \in {"done", "dead"}

LoggerStuck == main = "stuck" \/ (cleaner = "dead" /\ g_lock = "cleaner")

(* Nobody waits in vain.  Whoever holds g_lock is at the log line it took it for and
   waits for nothing else; whoever holds ctx.db_lock waits for g_lock at most; the
   cleaner that was cancelled leaves ctx.db_lock locked only when no worker can want it
   any more.  A worker sleeps in queue_pop only while the queue is open, and then every
   queued packet has a worker that was woken and has not looked yet.  Excepted is a
   logger that stays locked, as in AgentStops. *)
WaitsAreServed ==
    /\ \A w \in Workers :
          /\ db_lock = w => worker[w] = "inside"
          /\ g_lock = w => worker[w] \in {"inside", "after"}
          /\ worker[w] = "wait" =>
                 ~shutdown /\ Len(queue) <= Cardinality({v \in Workers : worker[v] = "idle"})
    /\ db_lock = "cleaner" => cleaner \in {"round", "save"} \/ \A w \in Workers : worker[w] = "done"
    /\ g_lock = "cleaner" => cleaner \in {"debug", "round"} \/ LoggerStuck
    /\ g_lock = "main" => main \in {"hello", "drop", "close", "stopped", "saving"} \/ LoggerStuck

(* After dhcpv6_agent_stop the agent ends: no worker is left waiting for a packet,
   for ctx.db_lock or for the log, and the joins return.  Excepted are a stop before
   dhcpv6_agent_start has set running, and a logger that stays locked: it was not
   initialised, or the cleaner was cancelled in a write. *)
AgentStops == (~running /\ main # "begin") ~> (main \in {"done", "failed"} \/ LoggerStuck)

(* A packet in the queue is processed, unless the server shuts down first. *)
QueuedIsProcessed ==
    \A p \in Packets :
        (\E i \in DOMAIN queue : queue[i] = p) ~>
            ((\E i \in DOMAIN taken : taken[i] = p) \/ shutdown)
=============================================================================
