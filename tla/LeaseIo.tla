-------------------------------- MODULE LeaseIo --------------------------------
(***************************************************************************)
(* The asynchronous writer of the DHCPv4 lease file (lease_io_* of         *)
(* lease_v4.c): a bounded queue of save operations, the thread that        *)
(* carries them out, its stop, the final save of dhcp_server_stop, crashes *)
(* at any point of a write, and the load that follows.                     *)
(*                                                                         *)
(* A lease is its address and a stamp that stands for everything else in   *)
(* it: each change to a lease gives it a new stamp.  The circular buffer   *)
(* is a sequence of at most QueueSize operations; its indices advance as   *)
(* those of ThreadPool do.                                                 *)
(***************************************************************************)
EXTENDS Naturals, Sequences, FiniteSets

CONSTANTS Ips,          \* the addresses that get leases
          QueueSize,    \* IO_QUEUE_SIZE
          MaxStamp,     \* bound on the changes made to leases
          MaxOps,       \* bound on the operations accepted by the queue
          MaxStarts     \* bound on the starts after a stop or a crash

ASSUME QueueSizeAssumption == QueueSize \in Nat \ {0}
ASSUME BoundsAssumption == MaxStamp \in Nat /\ MaxOps \in Nat /\ MaxStarts \in Nat

VARIABLES db,           \* lease_db->leases
          queue,        \* the pending operations
          running,      \* io_queue->running
          thread,       \* where the I/O thread is
          op,           \* the operation it has taken
          server,       \* where dhcp_server_stop is
          writer,       \* the open lease file: the leases printed to it and not yet flushed
          file,         \* the blocks of the lease file, as lease_db_load reads them
          saved,        \* history: leases whose save succeeded
          promised,     \* history: leases queued before the stop and not yet carried out
          damaged,      \* history: a crash hit an unfinished write
          full,         \* history: lease_io_stop found the queue full
          stamp, ops, starts

vars == <<db, queue, running, thread, op, server, writer, file, saved, promised,
          damaged, full, stamp, ops, starts>>

Lease == [ip : Ips, stamp : 1 .. MaxStamp]

(* IO_OP_SAVE_LEASE carries a copy of its lease. *)
SaveAll == [type |-> "SAVE_ALL"]
Shutdown == [type |-> "SHUTDOWN"]
SaveLease(l) == [type |-> "SAVE_LEASE", lease |-> l]

Operations == {SaveAll, Shutdown} \union {SaveLease(l) : l \in Lease}

(* A block of the file; torn if the file ends within it. *)
Block(l, torn) == [ip |-> l.ip, stamp |-> l.stamp, torn |-> torn]
Blocks == [ip : Ips, stamp : 1 .. MaxStamp, torn : BOOLEAN]

TypeOK ==
    /\ db \in Seq(Lease)
    /\ queue \in Seq(Operations) /\ Len(queue) <= QueueSize
    /\ running \in BOOLEAN
    /\ thread \in {"waiting", "ready", "taken", "writing", "exited"}
    /\ op \in Operations
    /\ server \in {"running", "joining", "joined", "saving", "saved", "unsaved"}
    /\ writer \in Seq(Lease)
    /\ file \in Seq(Blocks)
    /\ saved \subseteq Lease /\ promised \subseteq Lease
    /\ damaged \in BOOLEAN /\ full \in BOOLEAN
    /\ stamp \in 0 .. MaxStamp /\ ops \in 0 .. MaxOps /\ starts \in 0 .. MaxStarts

Init ==
    /\ db = <<>> /\ queue = <<>> /\ running = TRUE
    /\ thread = "ready" /\ op = SaveAll
    /\ server = "running"
    /\ writer = <<>> /\ file = <<>>
    /\ saved = {} /\ promised = {} /\ damaged = FALSE /\ full = FALSE
    /\ stamp = 0 /\ ops = 0 /\ starts = 0

--------------------------------------------------------------------------------
(* The rest of the server adds and renews leases: the first one of an address is
   the one that lease_db_find_by_ip finds. *)

Change(ip) ==
    LET found == {i \in DOMAIN db : db[i].ip = ip}
        new == [ip |-> ip, stamp |-> stamp + 1]
    IN  /\ server = "running"
        /\ stamp < MaxStamp
        /\ stamp' = stamp + 1
        /\ \/ found = {} /\ db' = Append(db, new)
           \/ \E i \in found : (\A j \in found : i <= j) /\ db' = [db EXCEPT ![i] = new]
        /\ UNCHANGED <<queue, running, thread, op, server, writer, file, saved, promised,
                       damaged, full, ops, starts>>

(* pthread_cond_signal: the I/O thread is the only one that waits. *)
Signalled == IF thread = "waiting" THEN "ready" ELSE thread

(* lease_io_queue_save_lease and lease_io_queue_save_all, until lease_io_stop has
   destroyed the mutex. *)
Enqueue(new) ==
    /\ server \in {"running", "joining"}
    /\ Len(queue) < QueueSize
    /\ ops < MaxOps
    /\ ops' = ops + 1
    /\ queue' = Append(queue, new)
    /\ thread' = Signalled
    /\ UNCHANGED <<db, running, op, server, writer, file, saved, damaged, full, stamp, starts>>

\* Mutation of QueueSaveLease: the check for a full queue is off by one.
QueueSaveLeaseBeyond(i) ==
    /\ server \in {"running", "joining"}
    /\ Len(queue) <= QueueSize
    /\ ops < MaxOps
    /\ ops' = ops + 1
    /\ queue' = Append(queue, SaveLease(db[i]))
    /\ thread' = Signalled
    /\ promised' = promised \union {db[i]}
    /\ UNCHANGED <<db, running, op, server, writer, file, saved, damaged, full, stamp, starts>>

\* Mutation of QueueSaveLease: the I/O thread is not signalled.
QueueSaveLeaseNoSignal(i) ==
    /\ server \in {"running", "joining"}
    /\ Len(queue) < QueueSize
    /\ ops < MaxOps
    /\ ops' = ops + 1
    /\ queue' = Append(queue, SaveLease(db[i]))
    /\ promised' = IF server = "running" THEN promised \union {db[i]} ELSE promised
    /\ UNCHANGED <<db, running, thread, op, server, writer, file, saved, damaged, full,
                   stamp, starts>>

QueueSaveLease(i) ==
    /\ Enqueue(SaveLease(db[i]))
    /\ promised' = IF server = "running" THEN promised \union {db[i]} ELSE promised

QueueSaveAll ==
    /\ Enqueue(SaveAll)
    /\ UNCHANGED promised

--------------------------------------------------------------------------------
(* The lease file.  lease_db_append_lease prints one lease, lease_db_save the
   ones of the database, however many there are when it gets to the last.  What
   was printed is in the file for sure once it is closed. *)

Source == IF server = "saving" \/ op = SaveAll THEN db ELSE <<op.lease>>

EndsTorn(blocks) == blocks # <<>> /\ blocks[Len(blocks)].torn

(* parse_lease_block reads on to the next closing brace, so what is printed
   behind a torn block gets the address of that block. *)
Joined(blocks, new) ==
    IF EndsTorn(blocks) /\ new # <<>>
    THEN SubSeq(blocks, 1, Len(blocks) - 1) \o [new EXCEPT ![1].ip = blocks[Len(blocks)].ip]
    ELSE blocks \o new

Printed(blocks, leases) ==
    Joined(blocks, [i \in 1 .. Len(leases) |-> Block(leases[i], FALSE)])

(* lease_db_load drops a block that the file ends in. *)
Loaded(blocks) ==
    [i \in 1 .. (IF EndsTorn(blocks) THEN Len(blocks) - 1 ELSE Len(blocks)) |->
       [ip |-> blocks[i].ip, stamp |-> blocks[i].stamp]]

IoWaits ==
    /\ thread = "ready" /\ queue = <<>> /\ running
    /\ thread' = "waiting"
    /\ UNCHANGED <<db, queue, running, op, server, writer, file, saved, promised, damaged,
                   full, stamp, ops, starts>>

SpuriousWakeup ==
    /\ thread = "waiting"
    /\ thread' = "ready"
    /\ UNCHANGED <<db, queue, running, op, server, writer, file, saved, promised, damaged,
                   full, stamp, ops, starts>>

IoTakes ==
    /\ thread = "ready" /\ queue # <<>>
    /\ op' = Head(queue)
    /\ queue' = Tail(queue)
    /\ thread' = "taken"
    /\ UNCHANGED <<db, running, server, writer, file, saved, promised, damaged, full,
                   stamp, ops, starts>>

IoShutdown ==
    /\ thread = "taken" /\ op = Shutdown
    /\ running' = FALSE
    /\ thread' = "exited"
    /\ UNCHANGED <<db, queue, op, server, writer, file, saved, promised, damaged, full,
                   stamp, ops, starts>>

(* fopen: "w" for the database, "a" for one lease ... *)
\* Mutation of IoOpens: the file is truncated for every operation.
IoOpensTruncating ==
    /\ thread = "taken" /\ op # Shutdown
    /\ file' = <<>>
    /\ thread' = "writing"
    /\ UNCHANGED <<db, queue, running, op, server, writer, saved, promised, damaged, full,
                   stamp, ops, starts>>

IoOpens ==
    /\ thread = "taken" /\ op # Shutdown
    /\ file' = IF op = SaveAll THEN <<>> ELSE file
    /\ thread' = "writing"
    /\ UNCHANGED <<db, queue, running, op, server, writer, saved, promised, damaged, full,
                   stamp, ops, starts>>

(* The lease an operation was queued for; a full save was queued for none. *)
Concerned == IF op.type = "SAVE_LEASE" THEN {op.lease} ELSE {}

(* ... which may fail, and the operation is given up ... *)
IoFails ==
    /\ thread = "taken" /\ op # Shutdown
    /\ promised' = promised \ Concerned
    /\ thread' = "ready"
    /\ UNCHANGED <<db, queue, running, op, server, writer, file, saved, damaged, full,
                   stamp, ops, starts>>

(* ... then one lease after the other, and fclose. *)
Prints ==
    /\ thread = "writing" \/ server = "saving"
    /\ Len(writer) < Len(Source)
    /\ writer' = Append(writer, Source[Len(writer) + 1])
    /\ UNCHANGED <<db, queue, running, thread, op, server, file, saved, promised, damaged,
                   full, stamp, ops, starts>>

Closes ==
    /\ Len(writer) >= Len(Source)
    /\ file' = Printed(file, writer)
    /\ saved' = saved \union {writer[i] : i \in DOMAIN writer}
    /\ writer' = <<>>

IoCloses ==
    /\ thread = "writing"
    /\ Closes
    /\ promised' = promised \ Concerned
    /\ thread' = "ready"
    /\ UNCHANGED <<db, queue, running, op, server, damaged, full, stamp, ops, starts>>

IoStep ==
    \/ IoWaits \/ IoTakes \/ IoShutdown \/ IoOpens \/ IoFails
    \/ (thread = "writing" /\ Prints) \/ IoCloses

--------------------------------------------------------------------------------
(* dhcp_server_stop: lease_io_stop queues the shutdown operation if there is
   room, signals and joins; then the whole database is saved. *)

\* Mutation of StopBegin: the shutdown operation overtakes the pending ones.
StopBeginUrgent ==
    /\ server = "running"
    /\ queue' = IF Len(queue) < QueueSize THEN <<Shutdown>> \o queue ELSE queue
    /\ full' = (Len(queue) = QueueSize)
    /\ thread' = Signalled
    /\ server' = "joining"
    /\ UNCHANGED <<db, running, op, writer, file, saved, promised, damaged, stamp, ops, starts>>

\* Mutation of StopBegin: the I/O thread is not signalled.
StopBeginNoSignal ==
    /\ server = "running"
    /\ queue' = IF Len(queue) < QueueSize THEN Append(queue, Shutdown) ELSE queue
    /\ full' = (Len(queue) = QueueSize)
    /\ server' = "joining"
    /\ UNCHANGED <<db, running, thread, op, writer, file, saved, promised, damaged, stamp,
                   ops, starts>>

StopBegin ==
    /\ server = "running"
    /\ queue' = IF Len(queue) < QueueSize THEN Append(queue, Shutdown) ELSE queue
    /\ full' = (Len(queue) = QueueSize)
    /\ thread' = Signalled
    /\ server' = "joining"
    /\ UNCHANGED <<db, running, op, writer, file, saved, promised, damaged, stamp, ops, starts>>

StopReturns ==
    /\ server = "joining" /\ thread = "exited"
    /\ server' = "joined"
    /\ UNCHANGED <<db, queue, running, thread, op, writer, file, saved, promised, damaged,
                   full, stamp, ops, starts>>

\* Mutation of FinalOpens: the file is opened for appending.
FinalOpensAppending ==
    /\ server = "joined"
    /\ server' = "saving"
    /\ UNCHANGED <<db, queue, running, thread, op, writer, file, saved, promised, damaged,
                   full, stamp, ops, starts>>

FinalOpens ==
    /\ server = "joined"
    /\ file' = <<>>
    /\ server' = "saving"
    /\ UNCHANGED <<db, queue, running, thread, op, writer, saved, promised, damaged, full,
                   stamp, ops, starts>>

FinalFails ==
    /\ server = "joined"
    /\ server' = "unsaved"
    /\ UNCHANGED <<db, queue, running, thread, op, writer, file, saved, promised, damaged,
                   full, stamp, ops, starts>>

FinalCloses ==
    /\ server = "saving"
    /\ Closes
    /\ server' = "saved"
    /\ UNCHANGED <<db, queue, running, thread, op, promised, damaged, full, stamp, ops, starts>>

StopStep ==
    \/ StopReturns \/ FinalOpens \/ FinalFails \/ FinalCloses
    \/ (server = "saving" /\ Prints)

--------------------------------------------------------------------------------
(* The next start reads what is in the file. *)

Start(blocks) ==
    /\ starts < MaxStarts
    /\ starts' = starts + 1
    /\ file' = blocks
    /\ db' = Loaded(blocks)
    /\ queue' = <<>> /\ running' = TRUE /\ thread' = "ready" /\ op' = SaveAll
    /\ server' = "running"
    /\ writer' = <<>>
    /\ promised' = {} /\ full' = FALSE
    /\ UNCHANGED <<saved, stamp, ops>>

Restart ==
    /\ server \in {"saved", "unsaved"}
    /\ Start(file)
    /\ UNCHANGED damaged

(* A crash: some of what was printed has reached the file, perhaps followed by
   the beginning of the next block.  Cut within its address, that block may
   show another one. *)
Rewriting == server = "saving" \/ (thread = "writing" /\ op = SaveAll)

Crash ==
    \E k \in 0 .. Len(writer) :
      LET kept == Printed(file, SubSeq(writer, 1, k))
      IN  \/ /\ Start(kept)
             /\ damaged' = (damaged \/ Rewriting)
          \/ /\ thread = "writing" \/ server = "saving"
             /\ k < Len(Source)
             /\ \E ip \in Ips :
                  Start(Joined(kept, <<Block([Source[k + 1] EXCEPT !.ip = ip], TRUE)>>))
             /\ damaged' = TRUE

Next ==
    \/ \E ip \in Ips : Change(ip)
    \/ \E i \in DOMAIN db : QueueSaveLease(i)
    \/ QueueSaveAll
    \/ IoStep
    \/ SpuriousWakeup
    \/ StopBegin
    \/ StopStep
    \/ Restart
    \/ Crash

Spec == Init /\ [][Next]_vars

(* The I/O thread and the thread that stops the server are scheduled; nobody has
   to queue anything, to stop the server or to start it again. *)
Fairness == WF_vars(IoStep) /\ WF_vars(StopStep)

FairSpec == Spec /\ Fairness

--------------------------------------------------------------------------------
(***************************************************************************)
(* What a save reported as written stays on disk: whenever no write is     *)
(* under way, the file has for each saved lease a block of its address     *)
(* that is as recent or more, across appends, rewrites from a database     *)
(* that workers change meanwhile, stops and crashes, unless a crash hit a  *)
(* rewrite (lease_db_save truncates first) or tore a block.                *)
(***************************************************************************)
SavedStaysOnDisk ==
    ~ damaged /\ ~ Rewriting =>
      \A l \in saved : \E i \in DOMAIN file :
        file[i].ip = l.ip /\ file[i].stamp >= l.stamp

(***************************************************************************)
(* After dhcp_server_stop the file holds exactly the database, whatever    *)
(* the I/O thread and earlier crashes left in it.                          *)
(***************************************************************************)
CleanStopSavesAll == server = "saved" => Loaded(file) = db

(***************************************************************************)
(* lease_io_stop "processes remaining operations" (lease_v4.h): when it    *)
(* returns, every lease queued before it was called has been dealt with.   *)
(***************************************************************************)
StopDrainsQueue == server \notin {"running", "joining"} => promised = {}

(***************************************************************************)
(* lease_io_stop returns, unless it found the queue full and could not     *)
(* add its shutdown operation.                                             *)
(***************************************************************************)
StopCompletes == (server = "joining") ~> (server # "joining" \/ full)

(***************************************************************************)
(* Every lease queued is eventually dealt with: no signal is lost.         *)
(***************************************************************************)
QueuedIsCarriedOut == \A l \in Lease : l \in promised ~> l \notin promised
================================================================================
