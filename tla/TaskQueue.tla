------------------------------- MODULE TaskQueue -------------------------------
(***************************************************************************)
(* What a bounded task queue served by worker threads promises to its      *)
(* caller, whatever buffer, lock and condition variable it is built from:  *)
(* tasks are started in the order they were accepted, each by one worker;  *)
(* a task is refused only when the queue is full or closing; a graceful    *)
(* close stops only when everything accepted has run.                      *)
(*                                                                         *)
(* ThreadPool.tla is the detailed specification shown to implement it.     *)
(***************************************************************************)
EXTENDS Naturals, Sequences

CONSTANTS Tasks,        \* the tasks callers may submit, each at most once
          Workers,      \* the threads that run them
          QueueSize,    \* how many accepted tasks may be pending
          Idle          \* the value of an unoccupied worker, no task

VARIABLES pending,      \* accepted and not started, oldest first
          running,      \* running[w]: the task w is executing, or Idle
          finished,     \* the tasks that have been executed
          offered,      \* the tasks callers have submitted so far
          phase         \* "open", "drain", "discard" or "stopped"

vars == <<pending, running, finished, offered, phase>>

Init ==
    /\ pending = <<>>
    /\ running = [w \in Workers |-> Idle]
    /\ finished = {}
    /\ offered = {}
    /\ phase = "open"

Accept(t) ==
    /\ phase = "open"
    /\ t \notin offered
    /\ Len(pending) < QueueSize
    /\ offered' = offered \union {t}
    /\ pending' = Append(pending, t)
    /\ UNCHANGED <<running, finished, phase>>

Refuse(t) ==
    /\ t \notin offered
    /\ Len(pending) = QueueSize \/ phase # "open"
    /\ offered' = offered \union {t}
    /\ UNCHANGED <<pending, running, finished, phase>>

Start(w) ==
    /\ phase \in {"open", "drain"}
    /\ running[w] = Idle
    /\ pending # <<>>
    /\ running' = [running EXCEPT ![w] = Head(pending)]
    /\ pending' = Tail(pending)
    /\ UNCHANGED <<finished, offered, phase>>

Finish(w) ==
    /\ running[w] # Idle
    /\ finished' = finished \union {running[w]}
    /\ running' = [running EXCEPT ![w] = Idle]
    /\ UNCHANGED <<pending, offered, phase>>

Close(mode) ==
    /\ phase = "open"
    /\ phase' = mode
    /\ UNCHANGED <<pending, running, finished, offered>>

Stop ==
    /\ phase \in {"drain", "discard"}
    /\ phase = "drain" => pending = <<>>
    /\ \A w \in Workers : running[w] = Idle
    /\ phase' = "stopped"
    /\ UNCHANGED <<pending, running, finished, offered>>

Next ==
    \/ \E t \in Tasks : Accept(t) \/ Refuse(t)
    \/ \E w \in Workers : Start(w) \/ Finish(w)
    \/ \E mode \in {"drain", "discard"} : Close(mode)
    \/ Stop

Spec == Init /\ [][Next]_vars
================================================================================
