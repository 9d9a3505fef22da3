------------------------------ MODULE MCThreads -------------------------------
(* The threads of the two DHCP servers.  They are separate processes that share
   nothing: one runs, and the other has ended. *)
EXTENDS DhcpV6Agent, DhcpV4Main

AgentOver ==
    /\ running = FALSE /\ inited = TRUE /\ main = "done"
    /\ worker = [w \in Workers |-> "done"] /\ cleaner = "done"
    /\ rounds = 0 /\ cancelled = TRUE
    /\ queue = <<>> /\ shutdown = TRUE
    /\ accepted = <<>> /\ taken = <<>> /\ arrived = {}
    /\ db_lock = Nobody /\ g_lock = Nobody

MainOver ==
    /\ g_running = FALSE /\ step = "done"
    /\ task = [t \in Tasks |-> "none"]
    /\ sync_running = FALSE /\ sync = "done"
    /\ timer_running = FALSE /\ timer = "done"
    /\ pool_mutex = Free4 /\ db_mutex = Free4
    /\ freed = {"sync", "pools", "timer", "db"}

Init == (AgentInit /\ MainOver) \/ (MainInit /\ AgentOver)

Next ==
    \/ AgentNext /\ UNCHANGED mainVars
    \/ MainNext /\ UNCHANGED agentVars

Spec == Init /\ [][Next]_<<agentVars, mainVars>> /\ AgentFairness /\ MainFairness
=============================================================================
