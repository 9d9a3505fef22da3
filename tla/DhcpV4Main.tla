------------------------------ MODULE DhcpV4Main ------------------------------
(***************************************************************************)
(* The life of the DHCPv4 server process: main.c starts the pool           *)
(* synchronisation thread, the lease timer, the I/O thread and the thread  *)
(* pool, receives packets until a signal, and takes everything down again. *)
(*                                                                         *)
(* The thread pool and the I/O thread are modelled in ThreadPool and       *)
(* LeaseIo; here a task is only queued, running or done, and the I/O       *)
(* thread starts and stops in one step.  The timer and the synchronisation *)
(* thread are here with their condition variables, and with the mutexes of *)
(* the pool and of the database that they and the workers take.            *)
(***************************************************************************)
EXTENDS Naturals, FiniteSets

CONSTANT Tasks      \* packets that can be in the thread pool at a time

ASSUME TasksAssumption == Tasks \cap {"sync", "free"} = {}

VARIABLES g_running,
          step,             \* where main is
          task,             \* task[t]: a packet in the thread pool
          sync_running,     \* pool_syncs[0].running
          sync,             \* where the synchronisation thread is
          timer_running,    \* timer->running
          timer,            \* where the timer thread is
          pool_mutex, db_mutex,     \* who holds them
          freed             \* what was freed or destroyed

mainVars == <<g_running, step, task, sync_running, sync, timer_running, timer,
              pool_mutex, db_mutex, freed>>

Free4 == "free"

Steps == {"startsync", "starttimer", "startio", "undo", "bind", "recv", "destroy", "stopsync", "joinsync",
          "freepools", "stoptimer", "jointimer", "stopio", "save", "done", "failed"}
TaskStates == {"none", "queued", "running", "locked"}
SyncPlaces == {"none", "prepare", "wait", "woken", "pool", "db", "sync", "done"}
TimerPlaces == {"none", "prepare", "wait", "woken", "db", "expire", "done"}

MainTypeOK ==
    /\ g_running \in BOOLEAN /\ sync_running \in BOOLEAN /\ timer_running \in BOOLEAN
    /\ step \in Steps
    /\ task \in [Tasks -> TaskStates]
    /\ sync \in SyncPlaces /\ timer \in TimerPlaces
    /\ pool_mutex \in Tasks \union {"sync", Free4}
    /\ db_mutex \in {"sync", "timer", Free4}
    /\ freed \subseteq {"sync", "pools", "timer", "db"}

MainInit ==
    /\ g_running = TRUE /\ step = "startsync"
    /\ task = [t \in Tasks |-> "none"]
    /\ sync_running = FALSE /\ sync = "none"
    /\ timer_running = FALSE /\ timer = "none"
    /\ pool_mutex = Free4 /\ db_mutex = Free4
    /\ freed = {}

-----------------------------------------------------------------------------
(* Start *)

(* Without a thread the server runs on, and running is FALSE again. *)
ip_pool_sync_start ==
    /\ step = "startsync"
    /\ \/ sync_running' = TRUE /\ sync' = "prepare"
       \/ UNCHANGED <<sync_running, sync>>
    /\ step' = "starttimer"
    /\ UNCHANGED <<g_running, task, timer_running, timer, pool_mutex, db_mutex, freed>>

lease_timer_start ==
    /\ step = "starttimer"
    /\ timer_running' = TRUE /\ timer' = "prepare"
    /\ step' = "startio"
    /\ UNCHANGED <<g_running, task, sync_running, sync, pool_mutex, db_mutex, freed>>

StartIoAndPool ==
    /\ \/ step = "startio" /\ step' = "bind"
       \/ step = "bind" /\ step' = (IF g_running THEN "recv" ELSE "destroy")
    /\ UNCHANGED <<g_running, task, sync_running, sync, timer_running, timer, pool_mutex, db_mutex, freed>>

(* pthread_cond_signal to a thread that waits, or to nobody. *)
Woken(place) == IF place = "wait" THEN "woken" ELSE place

(* main returns 1, and the threads end with the process. *)
Exit ==
    /\ step' = "failed"
    /\ sync' = "done" /\ timer' = "done" /\ task' = [t \in Tasks |-> "none"]
    /\ pool_mutex' = Free4 /\ db_mutex' = Free4
    /\ UNCHANGED <<g_running, sync_running, timer_running, freed>>

(* No timer thread, no thread pool or no socket. *)
MainFails == step \in {"starttimer", "bind"} /\ Exit

(* No I/O thread: dhcp_server_start stops the timer before it returns. *)
IoFails ==
    /\ step = "startio"
    /\ timer_running' = FALSE /\ timer' = Woken(timer)
    /\ step' = "undo"
    /\ UNCHANGED <<g_running, task, sync_running, sync, pool_mutex, db_mutex, freed>>

Undone == step = "undo" /\ timer = "done" /\ Exit

-----------------------------------------------------------------------------
(* Receiving.  signal() makes recvfrom start again, so the flag is read only after a
   packet. *)

handle_signal ==
    /\ g_running /\ step \notin {"done", "failed"}
    /\ g_running' = FALSE
    /\ UNCHANGED <<step, task, sync_running, sync, timer_running, timer, pool_mutex, db_mutex, freed>>

(* The task goes to the thread pool, or is dropped if that is full. *)
Receive ==
    /\ step = "recv"
    /\ IF \E t \in Tasks : task[t] = "none"
       THEN \E t \in Tasks : task[t] = "none" /\ task' = [task EXCEPT ![t] = "queued"]
       ELSE UNCHANGED task
    /\ step' = IF g_running THEN "recv" ELSE "destroy"
    /\ UNCHANGED <<g_running, sync_running, sync, timer_running, timer, pool_mutex, db_mutex, freed>>

ReceiveFails4 ==
    /\ step = "recv"
    /\ step' = "destroy"
    /\ UNCHANGED <<g_running, task, sync_running, sync, timer_running, timer, pool_mutex, db_mutex, freed>>

(* packet_processor: a DISCOVER without a lease and a RELEASE take the pool's mutex in
   between (addresses are not pinged), other messages take none. *)
packet_processor(t) ==
    /\ \/ task[t] = "queued" /\ task' = [task EXCEPT ![t] = "running"] /\ UNCHANGED pool_mutex
       \/ /\ task[t] = "running" /\ pool_mutex = Free4
          /\ pool_mutex' = t /\ task' = [task EXCEPT ![t] = "locked"]
       \/ task[t] = "running" /\ task' = [task EXCEPT ![t] = "none"] /\ UNCHANGED pool_mutex
       \/ /\ task[t] = "locked"
          /\ pool_mutex' = Free4 /\ task' = [task EXCEPT ![t] = "none"]
    /\ UNCHANGED <<g_running, step, sync_running, sync, timer_running, timer, db_mutex, freed>>

-----------------------------------------------------------------------------
(* The synchronisation thread.  A signal is lost unless the thread waits; the wait
   ends after the interval anyway. *)

(* A mutation of SyncWait: the wait has no timeout. *)
SyncWaitForever ==
    /\ \/ sync = "prepare" /\ sync' = "wait"
       \/ sync = "woken" /\ sync' = (IF sync_running THEN "pool" ELSE "done")
    /\ UNCHANGED <<g_running, step, task, sync_running, timer_running, timer, pool_mutex, db_mutex, freed>>

SyncWait ==
    /\ \/ sync = "prepare" /\ sync' = "wait"
       \/ sync = "wait" /\ sync' = "woken"
       \/ sync = "woken" /\ sync' = (IF sync_running THEN "pool" ELSE "done")
    /\ UNCHANGED <<g_running, step, task, sync_running, timer_running, timer, pool_mutex, db_mutex, freed>>

(* A mutation of SyncRound: the locks are taken in the other order. *)
SyncRoundReversed ==
    /\ \/ sync = "pool" /\ db_mutex = Free4 /\ db_mutex' = "sync" /\ sync' = "db" /\ UNCHANGED pool_mutex
       \/ sync = "db" /\ pool_mutex = Free4 /\ pool_mutex' = "sync" /\ sync' = "sync" /\ UNCHANGED db_mutex
       \/ sync = "sync" /\ pool_mutex' = Free4 /\ db_mutex' = Free4 /\ sync' = "prepare"
    /\ UNCHANGED <<g_running, step, task, sync_running, timer_running, timer, freed>>

SyncRound ==
    /\ \/ sync = "pool" /\ pool_mutex = Free4 /\ pool_mutex' = "sync" /\ sync' = "db" /\ UNCHANGED db_mutex
       \/ sync = "db" /\ db_mutex = Free4 /\ db_mutex' = "sync" /\ sync' = "sync" /\ UNCHANGED pool_mutex
       \/ sync = "sync" /\ pool_mutex' = Free4 /\ db_mutex' = Free4 /\ sync' = "prepare"
    /\ UNCHANGED <<g_running, step, task, sync_running, timer_running, timer, freed>>

(* The timer thread *)

TimerWait ==
    /\ \/ timer = "prepare" /\ timer' = "wait"
       \/ timer = "wait" /\ timer' = "woken"
       \/ timer = "woken" /\ timer' = (IF timer_running THEN "db" ELSE "done")
    /\ UNCHANGED <<g_running, step, task, sync_running, sync, timer_running, pool_mutex, db_mutex, freed>>

TimerRound ==
    /\ \/ timer = "db" /\ db_mutex = Free4 /\ db_mutex' = "timer" /\ timer' = "expire"
       \/ timer = "expire" /\ db_mutex' = Free4 /\ timer' = "prepare"
    /\ UNCHANGED <<g_running, step, task, sync_running, sync, timer_running, pool_mutex, freed>>

-----------------------------------------------------------------------------
(* Shutdown *)

(* A mutation of DestroyPool: the tasks are not waited for. *)
DestroyPoolNow ==
    /\ step = "destroy"
    /\ step' = "stopsync"
    /\ UNCHANGED <<g_running, task, sync_running, sync, timer_running, timer, pool_mutex, db_mutex, freed>>

(* thread_pool_destroy returns when every task has run. *)
DestroyPool ==
    /\ step = "destroy"
    /\ \A t \in Tasks : task[t] = "none"
    /\ step' = "stopsync"
    /\ UNCHANGED <<g_running, task, sync_running, sync, timer_running, timer, pool_mutex, db_mutex, freed>>

ip_pool_sync_stop ==
    /\ \/ /\ step = "stopsync" /\ ~sync_running
          /\ step' = "freepools" /\ UNCHANGED <<sync_running, sync, freed>>
       \/ /\ step = "stopsync" /\ sync_running
          /\ sync_running' = FALSE /\ sync' = Woken(sync)
          /\ step' = "joinsync" /\ UNCHANGED freed
       \/ /\ step = "joinsync" /\ sync = "done"
          /\ freed' = freed \union {"sync"}
          /\ step' = "freepools" /\ UNCHANGED <<sync_running, sync>>
    /\ UNCHANGED <<g_running, task, timer_running, timer, pool_mutex, db_mutex>>

FreePools ==
    /\ step = "freepools"
    /\ freed' = freed \union {"pools"} /\ step' = "stoptimer"
    /\ UNCHANGED <<g_running, task, sync_running, sync, timer_running, timer, pool_mutex, db_mutex>>

lease_timer_stop ==
    /\ \/ /\ step = "stoptimer"
          /\ timer_running' = FALSE /\ timer' = Woken(timer)
          /\ step' = "jointimer" /\ UNCHANGED freed
       \/ /\ step = "jointimer" /\ timer = "done"
          /\ freed' = freed \union {"timer"} /\ step' = "stopio"
          /\ UNCHANGED <<timer_running, timer>>
    /\ UNCHANGED <<g_running, task, sync_running, sync, pool_mutex, db_mutex>>

(* dhcp_server_stop after the timer: the I/O queue, the last save, the database. *)
SaveAndFree ==
    /\ \/ step = "stopio" /\ step' = "save" /\ UNCHANGED freed
       \/ step = "save" /\ step' = "done" /\ freed' = freed \union {"db"}
    /\ UNCHANGED <<g_running, task, sync_running, sync, timer_running, timer, pool_mutex, db_mutex>>

MainThread ==
    ip_pool_sync_start \/ lease_timer_start \/ StartIoAndPool \/ Undone \/ DestroyPool \/ ip_pool_sync_stop
    \/ FreePools \/ lease_timer_stop \/ SaveAndFree

SyncThread == SyncWait \/ SyncRound
TimerThread == TimerWait \/ TimerRound

MainNext ==
    \/ MainThread \/ MainFails \/ IoFails \/ Receive \/ ReceiveFails4 \/ handle_signal
    \/ SyncThread \/ TimerThread
    \/ \E t \in Tasks : packet_processor(t)

(* Threads that can run do run, timeouts pass, and a mutex that is free again and
   again is eventually got.  Nothing makes packets, signals or errors happen. *)
MainFairness ==
    /\ WF_mainVars(MainThread)
    /\ SF_mainVars(SyncThread) /\ SF_mainVars(TimerThread)
    /\ \A t \in Tasks : SF_mainVars(packet_processor(t))

MainSpec == MainInit /\ [][MainNext]_mainVars /\ MainFairness

-----------------------------------------------------------------------------
(* Properties *)

(* Nothing is freed under a thread that can still use it: the pools are freed, and the
   leases saved without the mutex and freed, when no worker, no synchronisation round
   and no timer round can be under way or begin. *)
FreedIsUnused ==
    /\ "sync" \in freed => sync = "done"
    /\ "timer" \in freed => timer = "done"
    /\ "pools" \in freed => sync \in {"none", "done"} /\ \A t \in Tasks : task[t] = "none"
    /\ step \in {"save", "done"} =>
           sync \in {"none", "done"} /\ timer = "done" /\ \A t \in Tasks : task[t] = "none"

(* Every mutex comes free again.  It is locked exactly while its holder is in the
   section that locks it; the holder of the database's mutex waits for nothing, the
   holder of the pool's at most for the database's; and main destroys each of them, with
   the pools and with the database, unlocked. *)
MutexesComeFree ==
    /\ \A t \in Tasks : pool_mutex = t <=> task[t] = "locked"
    /\ pool_mutex = "sync" <=> sync \in {"db", "sync"}
    /\ db_mutex = "sync" <=> sync = "sync"
    /\ db_mutex = "timer" <=> timer = "expire"
    /\ "pools" \in freed => pool_mutex = Free4
    /\ "db" \in freed => db_mutex = Free4

(* After a signal the server ends, whatever the workers, the timer and the
   synchronisation thread are doing, provided that packets keep coming: recvfrom is
   not interrupted. *)
ServerStops ==
    WF_mainVars(Receive) => (~g_running ~> step \in {"done", "failed"})
=============================================================================
