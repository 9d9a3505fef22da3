----------------------------- MODULE LeaseIoProofs -----------------------------
(***************************************************************************)
(* What holds of the lease writer for every set of addresses, queue size   *)
(* and number of changes, operations, crashes and starts.                  *)
(***************************************************************************)
EXTENDS LeaseIo, SequenceTheorems, TLAPS

(* The database has the lease, as it is or changed since. *)
Backed(l) == \E k \in DOMAIN db : db[k].ip = l.ip /\ db[k].stamp >= l.stamp

(* The lease is in the file, as it is or a later version. *)
Recorded(l) == \E k \in DOMAIN file : file[k].ip = l.ip /\ file[k].stamp >= l.stamp

(* The I/O thread has an operation in hand. *)
Working == thread \in {"taken", "writing"}

(* The operation that saves l is in hand, or queued before any shutdown. *)
Pending(l) ==
    \/ Working /\ op = SaveLease(l)
    \/ \E i \in DOMAIN queue : queue[i] = SaveLease(l) /\ \A j \in 1 .. i : queue[j] # Shutdown

(* The stop: a shutdown operation comes from lease_io_stop only, and nothing
   promised is left when the I/O thread gets to it. *)
StopInv ==
    /\ server = "running" => /\ thread # "exited"
                             /\ Working => op # Shutdown
                             /\ \A i \in DOMAIN queue : queue[i] # Shutdown
    /\ thread = "writing" => op # Shutdown
    /\ server \notin {"running", "joining"} => thread = "exited"
    /\ thread = "exited" \/ (Working /\ op = Shutdown) => promised = {}
    /\ \A l \in promised : Pending(l)

(* The copies in the queue are of leases that the database still has. *)
CopyInv ==
    /\ \A i \in DOMAIN queue : queue[i].type = "SAVE_LEASE" => Backed(queue[i].lease)
    /\ Working /\ op.type = "SAVE_LEASE" => Backed(op.lease)

(* The open file: a rewrite follows the database from the first lease on, an
   append has one lease. *)
WriterInv ==
    /\ writer # <<>> => thread = "writing" \/ server = "saving"
    /\ Rewriting => /\ file = <<>>
                    /\ Len(writer) <= Len(db)
                    /\ \A i \in 1 .. Len(writer) :
                         db[i].ip = writer[i].ip /\ db[i].stamp >= writer[i].stamp
    /\ ~ Rewriting => \A i \in 1 .. Len(writer) : writer[i] = op.lease
    /\ server = "saving" => \A i \in 1 .. Len(writer) : writer[i] = db[i]
    /\ server = "saved" => /\ Len(file) = Len(db)
                           /\ \A i \in 1 .. Len(db) : file[i] = Block(db[i], FALSE)

(* No lease is newer than the last change. *)
StampInv ==
    /\ \A i \in 1 .. Len(db) : db[i].stamp <= stamp
    /\ \A i \in 1 .. Len(file) : file[i].stamp <= stamp

(* Saved leases are in the database, in the part of a rewrite that has got so
   far, and otherwise in the file. *)
DiskInv ==
    ~ damaged =>
      /\ \A i \in 1 .. Len(file) : ~ file[i].torn
      /\ \A l \in saved : \E k \in DOMAIN db :
           /\ db[k].ip = l.ip /\ db[k].stamp >= l.stamp
           /\ Rewriting /\ k <= Len(writer) =>
                writer[k].ip = l.ip /\ writer[k].stamp >= l.stamp
      /\ ~ Rewriting => \A l \in saved : Recorded(l)

IoInv == TypeOK /\ StopInv /\ CopyInv /\ WriterInv /\ StampInv /\ DiskInv

--------------------------------------------------------------------------------
(* Operations are told apart by their type, and a save by its lease. *)
LEMMA OperationFacts ==
    /\ SaveAll \in Operations /\ Shutdown \in Operations /\ SaveAll # Shutdown
    /\ SaveAll.type # "SAVE_LEASE" /\ Shutdown.type # "SAVE_LEASE"
    /\ \A l \in Lease : /\ SaveLease(l) \in Operations
                        /\ SaveLease(l).type = "SAVE_LEASE" /\ SaveLease(l).lease = l
                        /\ SaveLease(l) # Shutdown /\ SaveLease(l) # SaveAll
    /\ \A o \in Operations : o # SaveAll /\ o # Shutdown =>
         o.type = "SAVE_LEASE" /\ o.lease \in Lease /\ o = SaveLease(o.lease)
<1>1. SaveAll.type = "SAVE_ALL" /\ Shutdown.type = "SHUTDOWN"
  BY DEF SaveAll, Shutdown
<1>2. \A l : SaveLease(l).type = "SAVE_LEASE" /\ SaveLease(l).lease = l
  BY DEF SaveLease
<1>3. \A l : SaveLease(l) # Shutdown /\ SaveLease(l) # SaveAll
  BY <1>1, <1>2
<1>4. \A l \in Lease : SaveLease(l) \in Operations
  BY DEF Operations
<1>5. ASSUME NEW o \in Operations, o # SaveAll, o # Shutdown
      PROVE  o.type = "SAVE_LEASE" /\ o.lease \in Lease /\ o = SaveLease(o.lease)
  <2>1. PICK l \in Lease : o = SaveLease(l)
    BY <1>5 DEF Operations
  <2> QED BY <2>1, <1>2
<1> QED BY <1>1, <1>2, <1>3, <1>4, <1>5 DEF Operations

(* A function on 1 .. n is a sequence. *)
LEMMA FunctionIsSeq ==
    ASSUME NEW S, NEW n \in Nat, NEW f \in [1 .. n -> S]
    PROVE  f \in Seq(S) /\ Len(f) = n
<1>1. f \in Seq(S)
  BY SeqDef, Zenon
<1>2. DOMAIN f = 1 .. n /\ DOMAIN f = 1 .. Len(f) /\ Len(f) \in Nat
  BY <1>1, LenProperties
<1> QED BY <1>1, <1>2

(* The first n elements of a sequence. *)
LEMMA PrefixFacts ==
    ASSUME NEW S, NEW s \in Seq(S), NEW n \in 0 .. Len(s)
    PROVE  /\ SubSeq(s, 1, n) \in Seq(S) /\ Len(SubSeq(s, 1, n)) = n
           /\ \A i \in 1 .. n : SubSeq(s, 1, n)[i] = s[i]
<1>1. SubSeq(s, 1, n) \in Seq(S)
  OBVIOUS
<1>2. Len(SubSeq(s, 1, n)) = n
  OBVIOUS
<1>3. ASSUME NEW i \in 1 .. n PROVE SubSeq(s, 1, n)[i] = s[i]
  OBVIOUS
<1> QED BY <1>1, <1>2, <1>3

(* The fields of a lease and of the block printed for it. *)
LEMMA BlockFacts ==
    ASSUME NEW l \in Lease, NEW t \in BOOLEAN
    PROVE  /\ Block(l, t) \in Blocks
           /\ Block(l, t).ip = l.ip /\ Block(l, t).stamp = l.stamp /\ Block(l, t).torn = t
BY DEF Block, Blocks, Lease

(* What a file ends up with is blocks, none newer than what it is made of. *)
LEMMA JoinedFacts ==
    ASSUME NEW n \in Nat, NEW blocks \in Seq(Blocks), NEW new \in Seq(Blocks),
           \A i \in 1 .. Len(blocks) : blocks[i].stamp <= n,
           \A i \in 1 .. Len(new) : new[i].stamp <= n
    PROVE  /\ Joined(blocks, new) \in Seq(Blocks)
           /\ \A i \in 1 .. Len(Joined(blocks, new)) : Joined(blocks, new)[i].stamp <= n
<1>1. CASE EndsTorn(blocks) /\ new # <<>>
  <2> DEFINE kept == SubSeq(blocks, 1, Len(blocks) - 1)
             renamed == [new EXCEPT ![1].ip = blocks[Len(blocks)].ip]
  <2>1. Len(blocks) \in Nat \ {0} /\ Len(new) \in Nat \ {0}
    BY <1>1 DEF EndsTorn
  <2>2. /\ kept \in Seq(Blocks) /\ Len(kept) = Len(blocks) - 1
        /\ \A i \in 1 .. Len(kept) : kept[i] = blocks[i]
    <3>1. Len(blocks) - 1 \in 0 .. Len(blocks)
      BY <2>1
    <3> QED BY Zenon, <3>1, PrefixFacts
  <2>3. blocks[Len(blocks)].ip \in Ips
    <3>1. blocks[Len(blocks)] \in Blocks
      BY <2>1, ElementOfSeq
    <3> QED BY Zenon, <3>1 DEF Blocks
  <2>4. /\ renamed \in Seq(Blocks) /\ Len(renamed) = Len(new)
        /\ \A i \in 1 .. Len(new) : renamed[i].stamp = new[i].stamp
    <3> DEFINE first == [new[1] EXCEPT !.ip = blocks[Len(blocks)].ip]
    <3>1. new[1] \in Blocks
      BY <2>1, ElementOfSeq
    <3>2. first \in Blocks /\ first.stamp = new[1].stamp
      BY Zenon, <2>3, <3>1 DEF Blocks
    <3>3. renamed = [new EXCEPT ![1] = first]
      BY Zenon, <2>1, LenProperties
    <3> HIDE DEF first, renamed
    <3> QED BY <2>1, <3>2, <3>3, ExceptSeq
  <2>5. Joined(blocks, new) = kept \o renamed
    BY Zenon, <1>1 DEF Joined
  <2> HIDE DEF kept, renamed
  <2>6. \A i \in 1 .. Len(kept) : kept[i].stamp <= n
    BY <2>1, <2>2
  <2>7. \A i \in 1 .. Len(renamed) : renamed[i].stamp <= n
    BY Zenon, <2>1, <2>4
  <2> QED BY <2>1, <2>2, <2>4, <2>5, <2>6, <2>7, ConcatProperties
<1>2. CASE ~ (EndsTorn(blocks) /\ new # <<>>)
  <2>1. Joined(blocks, new) = blocks \o new
    BY Zenon, <1>2 DEF Joined
  <2> QED BY <2>1, ConcatProperties, LenProperties
<1> QED BY Zenon, <1>1, <1>2

(* What lease_db_save and lease_db_append_lease add to a file that does not end
   within a block: one block for each lease, behind the others. *)
LEMMA PrintedFacts ==
    ASSUME NEW blocks \in Seq(Blocks), NEW leases \in Seq(Lease), ~ EndsTorn(blocks)
    PROVE  /\ Len(Printed(blocks, leases)) = Len(blocks) + Len(leases)
           /\ \A i \in 1 .. Len(blocks) : Printed(blocks, leases)[i] = blocks[i]
           /\ \A i \in 1 .. Len(leases) :
                Printed(blocks, leases)[Len(blocks) + i] = Block(leases[i], FALSE)
<1> DEFINE new == [i \in 1 .. Len(leases) |-> Block(leases[i], FALSE)]
<1>1. \A i \in 1 .. Len(leases) : Block(leases[i], FALSE) \in Blocks
  BY Zenon, BlockFacts, ElementOfSeq
<1>2. new \in Seq(Blocks) /\ Len(new) = Len(leases)
  <2>1. Len(leases) \in Nat
    BY Zenon, LenProperties
  <2>2. new \in [1 .. Len(leases) -> Blocks]
    BY Zenon, <1>1
  <2> HIDE DEF new
  <2> QED BY Zenon, <2>1, <2>2, FunctionIsSeq
<1>3. Printed(blocks, leases) = blocks \o new
  BY Zenon DEF Printed, Joined
<1> HIDE DEF new
<1>4. \A i \in 1 .. Len(leases) : new[i] = Block(leases[i], FALSE)
  BY Zenon DEF new
<1>5. Len(blocks) \in Nat /\ Len(leases) \in Nat
  BY Zenon, LenProperties
<1>6. /\ Len(blocks \o new) = Len(blocks) + Len(new)
      /\ \A i \in 1 .. Len(blocks) + Len(new) :
           (blocks \o new)[i] = IF i <= Len(blocks) THEN blocks[i] ELSE new[i - Len(blocks)]
  BY Zenon, <1>2, ConcatProperties
<1>7. \A i \in 1 .. Len(leases) : (blocks \o new)[Len(blocks) + i] = new[i]
  BY <1>2, <1>5, <1>6
<1>8. \A i \in 1 .. Len(blocks) : (blocks \o new)[i] = blocks[i]
  BY <1>2, <1>5, <1>6
<1> QED BY <1>2, <1>3, <1>4, <1>6, <1>7, <1>8, Zenon

(* The same without a condition on the file: blocks, none too new. *)
LEMMA PrintedType ==
    ASSUME NEW n \in Nat, NEW blocks \in Seq(Blocks), NEW leases \in Seq(Lease),
           \A i \in 1 .. Len(blocks) : blocks[i].stamp <= n,
           \A i \in 1 .. Len(leases) : leases[i].stamp <= n
    PROVE  /\ Printed(blocks, leases) \in Seq(Blocks)
           /\ \A i \in 1 .. Len(Printed(blocks, leases)) : Printed(blocks, leases)[i].stamp <= n
<1> DEFINE new == [i \in 1 .. Len(leases) |-> Block(leases[i], FALSE)]
<1>1. \A i \in 1 .. Len(leases) : /\ Block(leases[i], FALSE) \in Blocks
                                  /\ Block(leases[i], FALSE).stamp <= n
  BY Zenon, BlockFacts, ElementOfSeq
<1>2. /\ new \in Seq(Blocks) /\ Len(new) = Len(leases)
      /\ \A i \in 1 .. Len(new) : new[i].stamp <= n
  <2>1. Len(leases) \in Nat
    BY Zenon, LenProperties
  <2>2. new \in [1 .. Len(leases) -> Blocks]
    BY Zenon, <1>1
  <2>3. \A i \in 1 .. Len(leases) : new[i].stamp <= n
    BY Zenon, <1>1
  <2> HIDE DEF new
  <2> QED BY Zenon, <2>1, <2>2, <2>3, FunctionIsSeq
<1>3. Printed(blocks, leases) = Joined(blocks, new)
  BY Zenon DEF Printed
<1> HIDE DEF new
<1> QED BY Zenon, <1>2, <1>3, JoinedFacts

(* lease_db_load reads each whole block. *)
LEMMA LoadedFacts ==
    ASSUME NEW blocks \in Seq(Blocks)
    PROVE  /\ Loaded(blocks) \in Seq(Lease) /\ Len(Loaded(blocks)) <= Len(blocks)
           /\ ~ EndsTorn(blocks) => Len(Loaded(blocks)) = Len(blocks)
           /\ \A i \in 1 .. Len(Loaded(blocks)) :
                /\ Loaded(blocks)[i] = [ip |-> blocks[i].ip, stamp |-> blocks[i].stamp]
                /\ Loaded(blocks)[i].ip = blocks[i].ip
                /\ Loaded(blocks)[i].stamp = blocks[i].stamp
<1> DEFINE n == IF EndsTorn(blocks) THEN Len(blocks) - 1 ELSE Len(blocks)
<1>1. n \in Nat /\ n <= Len(blocks)
  BY DEF EndsTorn
<1>2. \A i \in 1 .. Len(blocks) : [ip |-> blocks[i].ip, stamp |-> blocks[i].stamp] \in Lease
  <2> TAKE i \in 1 .. Len(blocks)
  <2>1. blocks[i] \in Blocks
    BY Zenon, ElementOfSeq
  <2>2. blocks[i].ip \in Ips /\ blocks[i].stamp \in 1 .. MaxStamp
    BY Zenon, <2>1 DEF Blocks
  <2> QED BY Zenon, <2>2 DEF Lease
<1>3. Loaded(blocks) = [i \in 1 .. n |-> [ip |-> blocks[i].ip, stamp |-> blocks[i].stamp]]
  BY Zenon DEF Loaded
<1>4. ~ EndsTorn(blocks) => n = Len(blocks)
  BY Zenon
<1> HIDE DEF n
<1>5. Loaded(blocks) \in Seq(Lease) /\ Len(Loaded(blocks)) = n
  BY <1>1, <1>2, <1>3, FunctionIsSeq
<1> QED BY <1>1, <1>3, <1>4, <1>5

--------------------------------------------------------------------------------
(* The steps of the invariant that leave the file and the database alone. *)

(* The invariant's conjuncts about the file depend on these only. *)
LEMMA FileUntouched ==
    ASSUME IoInv, UNCHANGED <<db, writer, file, saved, damaged, stamp>>,
           Rewriting' <=> Rewriting,
           server' = "saving" => server = "saving",
           server' = "saved" => server = "saved",
           writer # <<>> => UNCHANGED <<op, thread, server>>
    PROVE  WriterInv' /\ StampInv' /\ DiskInv'
<1>1. WriterInv'
  <2>1. CASE writer = <<>>
    <3>1. Len(writer) = 0 /\ 1 .. Len(writer) = {}
      BY <2>1
    <3>2. Rewriting' => file = <<>> /\ 0 <= Len(db)
      BY DEF IoInv, WriterInv, TypeOK
    <3> QED BY Zenon, <2>1, <3>1, <3>2 DEF IoInv, WriterInv
  <2>2. CASE writer # <<>>
    <3>1. op' = op /\ thread' = thread /\ server' = server
      BY Zenon, <2>2
    <3>2. db' = db /\ writer' = writer /\ file' = file
      BY Zenon
    <3> QED BY Zenon, <3>1, <3>2 DEF IoInv, WriterInv
  <2> QED BY Zenon, <2>1, <2>2
<1>2. StampInv'
  BY Zenon DEF IoInv, StampInv
<1>3. DiskInv'
  BY Zenon DEF IoInv, DiskInv, Recorded
<1> QED BY Zenon, <1>1, <1>2, <1>3

(* The I/O thread goes to sleep or wakes up. *)
LEMMA SleepStep == ASSUME IoInv, IoWaits \/ SpuriousWakeup PROVE IoInv'
<1> USE DEF IoInv
<1>1. /\ UNCHANGED <<db, queue, running, op, server, writer, file, saved, promised, damaged,
                    full, stamp, ops, starts>>
      /\ thread \in {"ready", "waiting"} /\ thread' \in {"ready", "waiting"}
  BY Zenon DEF IoWaits, SpuriousWakeup
<1>2. TypeOK'
  BY Zenon, <1>1 DEF TypeOK
<1>3. StopInv'
  BY Zenon, <1>1 DEF StopInv, Pending, Working
<1>4. CopyInv'
  BY Zenon, <1>1 DEF CopyInv, Backed, Working
<1>5. WriterInv' /\ StampInv' /\ DiskInv'
  <2>1. Rewriting' <=> Rewriting
    BY Zenon, <1>1 DEF Rewriting
  <2>2. CASE writer = <<>>
    BY Zenon, <1>1, <2>1, <2>2, FileUntouched
  <2>3. CASE writer # <<>>
    <3>1. server = "saving"
      BY Zenon, <1>1, <2>3 DEF WriterInv
    <3> QED BY Zenon, <1>1, <3>1 DEF StopInv
  <2> QED BY Zenon, <2>2, <2>3
<1> QED BY Zenon, <1>2, <1>3, <1>4, <1>5

(* An operation is put into the queue: behind a shutdown it is promised nothing. *)
LEMMA EnqueueStep ==
    ASSUME IoInv, NEW new \in Operations, Enqueue(new), new # Shutdown,
           new.type = "SAVE_LEASE" => Backed(new.lease),
           promised' \subseteq Lease,
           \A l \in promised' : l \in promised \/ (server = "running" /\ new = SaveLease(l))
    PROVE  IoInv'
<1> USE DEF IoInv
<1>1. /\ db' = db /\ running' = running /\ op' = op /\ server' = server /\ writer' = writer
      /\ file' = file /\ saved' = saved /\ damaged' = damaged /\ full' = full
      /\ stamp' = stamp /\ starts' = starts
      /\ server \in {"running", "joining"} /\ queue' = Append(queue, new)
      /\ Len(queue) < QueueSize /\ ops < MaxOps /\ ops' = ops + 1
  BY Zenon DEF Enqueue
<1>2. /\ thread' = thread \/ (thread = "waiting" /\ thread' = "ready")
      /\ Working' <=> Working
  BY Zenon DEF Enqueue, Signalled, Working
<1>3. queue \in Seq(Operations) /\ Len(queue) \in Nat /\ DOMAIN queue = 1 .. Len(queue)
  BY Zenon, LenProperties DEF TypeOK
<1>4. /\ queue' \in Seq(Operations) /\ Len(queue') = Len(queue) + 1
      /\ DOMAIN queue' = 1 .. Len(queue) + 1
      /\ \A i \in 1 .. Len(queue) : queue'[i] = queue[i]
      /\ queue'[Len(queue) + 1] = new
  BY <1>1, <1>3, AppendProperties, LenProperties
<1>5. TypeOK'
  <2>1. Len(queue') <= QueueSize /\ ops' \in 0 .. MaxOps
    BY <1>1, <1>3, <1>4, QueueSizeAssumption, BoundsAssumption DEF TypeOK
  <2> QED BY Zenon, <1>1, <1>2, <1>4, <2>1 DEF TypeOK
<1>6. StopInv'
  <2>1. \A l \in promised' : Pending(l)'
    <3> TAKE l \in promised'
    <3>1. CASE l \in promised
      <4>1. CASE Working /\ op = SaveLease(l)
        BY Zenon, <1>1, <1>2, <4>1 DEF Pending, SaveLease
      <4>2. CASE \E i \in DOMAIN queue : queue[i] = SaveLease(l) /\ \A j \in 1 .. i : queue[j] # Shutdown
        <5>1. PICK i \in 1 .. Len(queue) :
                queue[i] = SaveLease(l) /\ \A j \in 1 .. i : queue[j] # Shutdown
          BY Zenon, <1>3, <4>2
        <5>2. i \in 1 .. Len(queue) + 1 /\ \A j \in 1 .. i : j \in 1 .. Len(queue)
          BY <1>3
        <5>3. queue'[i] = SaveLease(l) /\ \A j \in 1 .. i : queue'[j] # Shutdown
          BY Zenon, <1>4, <5>1, <5>2
        <5> QED BY Zenon, <1>4, <5>2, <5>3 DEF Pending, SaveLease, Shutdown
      <4> QED BY Zenon, <3>1, <4>1, <4>2 DEF StopInv, Pending
    <3>2. CASE server = "running" /\ new = SaveLease(l)
      <4>1. \A j \in 1 .. Len(queue) + 1 : queue'[j] # Shutdown
        BY <1>3, <1>4, <3>2 DEF StopInv
      <4>2. Len(queue) + 1 \in DOMAIN queue'
        BY <1>3, <1>4
      <4> QED BY Zenon, <1>4, <3>2, <4>1, <4>2 DEF Pending, SaveLease, Shutdown
    <3> QED BY Zenon, <3>1, <3>2
  <2>2. server = "running" => \A i \in DOMAIN queue' : queue'[i] # Shutdown
    BY <1>3, <1>4 DEF StopInv
  <2>3. thread = "exited" \/ (Working /\ op = Shutdown) => promised' = {}
    BY Zenon DEF StopInv
  <2> QED BY Zenon, <1>1, <1>2, <2>1, <2>2, <2>3 DEF StopInv, Shutdown
<1>7. CopyInv'
  <2>1. \A l : Backed(l) => Backed(l)'
    BY Zenon, <1>1 DEF Backed
  <2>2. \A i \in DOMAIN queue' : queue'[i].type = "SAVE_LEASE" => Backed(queue'[i].lease)
    BY <1>3, <1>4 DEF CopyInv
  <2>3. Working' /\ op'.type = "SAVE_LEASE" => Backed(op'.lease)
    BY Zenon, <1>1, <1>2 DEF CopyInv
  <2> QED BY Zenon, <1>1, <2>2, <2>3 DEF CopyInv, Backed
<1>8. WriterInv' /\ StampInv' /\ DiskInv'
  <2>1. Rewriting' <=> Rewriting
    BY Zenon, <1>1, <1>2 DEF Rewriting
  <2>2. writer # <<>> => thread' = thread
    BY Zenon, <1>1, <1>2 DEF WriterInv
  <2> QED BY Zenon, <1>1, <2>1, <2>2, FileUntouched
<1> QED BY Zenon, <1>5, <1>6, <1>7, <1>8

(* lease_io_queue_save_lease and lease_io_queue_save_all. *)
LEMMA QueueStep ==
    ASSUME IoInv, (\E i \in DOMAIN db : QueueSaveLease(i)) \/ QueueSaveAll
    PROVE  IoInv'
<1>1. CASE \E i \in DOMAIN db : QueueSaveLease(i)
  <2>1. PICK i \in DOMAIN db : QueueSaveLease(i)
    BY Zenon, <1>1
  <2>2. db[i] \in Lease
    BY Zenon, ElementOfSeq, LenProperties DEF IoInv, TypeOK
  <2>3. db[i].stamp >= db[i].stamp
    BY <2>2 DEF Lease
  <2>4. Backed(db[i])
    BY Zenon, <2>3 DEF Backed
  <2>5. Enqueue(SaveLease(db[i]))
    BY Zenon, <2>1 DEF QueueSaveLease
  <2>6. /\ promised' \subseteq Lease
        /\ \A l \in promised' : l \in promised \/ (server = "running" /\ l = db[i])
    BY Zenon, <2>1, <2>2 DEF QueueSaveLease, IoInv, TypeOK
  <2> QED BY Zenon, <2>2, <2>4, <2>5, <2>6, EnqueueStep, OperationFacts
<1>2. CASE QueueSaveAll
  <2>1. Enqueue(SaveAll) /\ promised' = promised
    BY Zenon, <1>2 DEF QueueSaveAll
  <2>2. promised' \subseteq Lease
    BY Zenon, <2>1 DEF IoInv, TypeOK
  <2> QED BY Zenon, <2>1, <2>2, EnqueueStep, OperationFacts
<1> QED BY Zenon, <1>1, <1>2

(* The I/O thread takes the oldest operation. *)
LEMMA TakeStep == ASSUME IoInv, IoTakes PROVE IoInv'
<1> USE DEF IoInv
<1>1. /\ db' = db /\ running' = running /\ server' = server /\ writer' = writer
      /\ file' = file /\ saved' = saved /\ promised' = promised /\ damaged' = damaged
      /\ full' = full /\ stamp' = stamp /\ ops' = ops /\ starts' = starts
      /\ thread = "ready" /\ thread' = "taken" /\ queue # <<>>
      /\ op' = Head(queue) /\ queue' = Tail(queue)
  BY Zenon DEF IoTakes
<1>2. ~ Working /\ Working'
  BY Zenon, <1>1 DEF Working
<1>3. /\ queue \in Seq(Operations) /\ Len(queue) \in Nat \ {0} /\ DOMAIN queue = 1 .. Len(queue)
      /\ op' = queue[1]
  BY <1>1, LenProperties, EmptySeq DEF TypeOK
<1>4. /\ op' \in Operations /\ queue' \in Seq(Operations) /\ Len(queue') = Len(queue) - 1
      /\ DOMAIN queue' = 1 .. Len(queue) - 1
      /\ \A i \in 1 .. Len(queue) - 1 : queue'[i] = queue[i + 1]
  BY Zenon, <1>1, <1>3, HeadTailProperties, LenProperties
<1>5. TypeOK'
  <2>1. Len(queue') <= QueueSize
    BY <1>3, <1>4, QueueSizeAssumption DEF TypeOK
  <2> QED BY Zenon, <1>1, <1>4, <2>1 DEF TypeOK
<1>6. StopInv'
  <2>1. ASSUME NEW l \in promised
        PROVE  Pending(l)' /\ queue[1] # Shutdown
    <3>1. PICK i \in 1 .. Len(queue) :
            queue[i] = SaveLease(l) /\ \A j \in 1 .. i : queue[j] # Shutdown
      BY Zenon, <1>2, <1>3 DEF StopInv, Pending
    <3>2. queue[1] # Shutdown
      BY <3>1
    <3>3. CASE i = 1
      BY <1>2, <1>3, <3>1, <3>3 DEF Pending, SaveLease
    <3>4. CASE i # 1
      <4>1. /\ i - 1 \in DOMAIN queue'
            /\ \A j \in 1 .. i - 1 : j \in 1 .. Len(queue) - 1 /\ j + 1 \in 1 .. i
        BY <1>3, <1>4, <3>4
      <4>2. queue'[i - 1] = SaveLease(l) /\ \A j \in 1 .. i - 1 : queue'[j] # Shutdown
        BY <1>3, <1>4, <3>1, <3>4, <4>1
      <4> QED BY Zenon, <3>2, <4>1, <4>2 DEF Pending, SaveLease, Shutdown
    <3> QED BY Zenon, <3>2, <3>3, <3>4
  <2>2. server = "running" =>
          op' # Shutdown /\ \A i \in DOMAIN queue' : queue'[i] # Shutdown
    BY <1>3, <1>4 DEF StopInv
  <2>3. op' = Shutdown => promised = {}
    BY Zenon, <1>3, <2>1
  <2> QED BY Zenon, <1>1, <1>2, <2>1, <2>2, <2>3 DEF StopInv, Shutdown
<1>7. CopyInv'
  <2>1. \A i \in DOMAIN queue' : queue'[i].type = "SAVE_LEASE" => Backed(queue'[i].lease)
    BY <1>3, <1>4 DEF CopyInv
  <2>2. op'.type = "SAVE_LEASE" => Backed(op'.lease)
    BY <1>3 DEF CopyInv
  <2> QED BY Zenon, <1>1, <2>1, <2>2 DEF CopyInv, Backed
<1>8. WriterInv' /\ StampInv' /\ DiskInv'
  <2>1. Rewriting' <=> Rewriting
    BY Zenon, <1>1 DEF Rewriting
  <2>2. writer = <<>>
    BY Zenon, <1>1 DEF WriterInv, StopInv
  <2> QED BY Zenon, <1>1, <2>1, <2>2, FileUntouched
<1> QED BY Zenon, <1>5, <1>6, <1>7, <1>8

(* An operation is done with: its lease is promised no longer. *)
LEMMA OperationDone ==
    ASSUME IoInv, Working, op # Shutdown, UNCHANGED <<db, queue, op, server>>,
           thread' = "ready", promised' = promised \ Concerned
    PROVE  StopInv' /\ CopyInv'
<1> USE DEF IoInv
<1>1. db' = db /\ queue' = queue /\ op' = op /\ server' = server /\ ~ Working'
  BY Zenon DEF Working
<1>2. StopInv'
  <2>1. \A l \in promised' : Pending(l)'
    <3> TAKE l \in promised'
    <3>1. l \in promised /\ Pending(l) /\ l \in Lease /\ l \notin Concerned
      BY Zenon DEF StopInv, TypeOK
    <3>2. op # SaveLease(l)
      BY Zenon, <3>1, OperationFacts DEF Concerned
    <3> QED BY Zenon, <1>1, <3>1, <3>2 DEF Pending, SaveLease, Shutdown
  <2>2. server \in {"running", "joining"}
    BY Zenon DEF StopInv, TypeOK, Working
  <2> QED BY Zenon, <1>1, <2>1, <2>2 DEF StopInv, Shutdown
<1>3. CopyInv'
  BY Zenon, <1>1 DEF CopyInv, Backed
<1> QED BY Zenon, <1>2, <1>3

(* The I/O thread leaves, or gives an operation up because the file does not open. *)
LEMMA DropStep == ASSUME IoInv, IoShutdown \/ IoFails PROVE IoInv'
<1> USE DEF IoInv
<1>1. /\ db' = db /\ queue' = queue /\ op' = op /\ server' = server /\ writer' = writer
      /\ file' = file /\ saved' = saved /\ damaged' = damaged
      /\ full' = full /\ stamp' = stamp /\ ops' = ops /\ starts' = starts
      /\ thread = "taken" /\ thread' \in {"ready", "exited"} /\ promised' \subseteq promised
      /\ running' = running \/ running' = FALSE
  BY Zenon DEF IoShutdown, IoFails
<1>2. TypeOK'
  BY Zenon, <1>1 DEF TypeOK
<1>3. StopInv' /\ CopyInv'
  <2>1. CASE IoFails
    BY Zenon, <2>1, OperationDone DEF IoFails, Working
  <2>2. CASE IoShutdown
    <3>1. op = Shutdown /\ thread' = "exited" /\ Working /\ ~ Working' /\ promised' = promised
      BY Zenon, <2>2 DEF IoShutdown, Working
    <3>2. server # "running" /\ promised' = {}
      BY Zenon, <3>1 DEF StopInv
    <3>3. StopInv'
      BY Zenon, <1>1, <3>1, <3>2 DEF StopInv
    <3>4. CopyInv'
      BY Zenon, <1>1, <3>1 DEF CopyInv, Backed
    <3> QED BY Zenon, <3>3, <3>4
  <2> QED BY Zenon, <2>1, <2>2
<1>4. WriterInv' /\ StampInv' /\ DiskInv'
  <2>1. Rewriting' <=> Rewriting
    BY Zenon, <1>1 DEF Rewriting
  <2>2. writer = <<>>
    BY Zenon, <1>1 DEF WriterInv, StopInv
  <2> QED BY Zenon, <1>1, <2>1, <2>2, FileUntouched
<1> QED BY Zenon, <1>2, <1>3, <1>4

(* lease_io_stop queues the shutdown operation, behind all that is promised. *)
LEMMA StopBeginStep == ASSUME IoInv, StopBegin PROVE IoInv'
<1> USE DEF IoInv
<1>1. /\ db' = db /\ running' = running /\ op' = op /\ writer' = writer /\ file' = file
      /\ saved' = saved /\ promised' = promised /\ damaged' = damaged
      /\ full' \in BOOLEAN /\ stamp' = stamp /\ ops' = ops /\ starts' = starts
      /\ server = "running" /\ server' = "joining"
      /\ queue' = IF Len(queue) < QueueSize THEN Append(queue, Shutdown) ELSE queue
  BY Zenon DEF StopBegin
<1>2. /\ thread' = thread \/ (thread = "waiting" /\ thread' = "ready")
      /\ Working' <=> Working
  BY Zenon DEF StopBegin, Signalled, Working
<1>3. queue \in Seq(Operations) /\ Len(queue) \in Nat /\ DOMAIN queue = 1 .. Len(queue)
  BY Zenon, LenProperties DEF TypeOK
<1>4. /\ queue' \in Seq(Operations) /\ Len(queue') \in Nat /\ Len(queue') <= QueueSize
      /\ Len(queue') >= Len(queue) /\ DOMAIN queue' = 1 .. Len(queue')
      /\ \A i \in 1 .. Len(queue) : queue'[i] = queue[i]
      /\ \A i \in 1 .. Len(queue') : i \in 1 .. Len(queue) \/ queue'[i] = Shutdown
  <2>1. CASE Len(queue) < QueueSize
    <3>1. queue' = Append(queue, Shutdown) /\ Shutdown \in Operations
      BY Zenon, <1>1, <2>1, OperationFacts
    <3>2. /\ queue' \in Seq(Operations) /\ Len(queue') = Len(queue) + 1
          /\ \A i \in 1 .. Len(queue) : queue'[i] = queue[i]
          /\ queue'[Len(queue) + 1] = Shutdown
      BY <1>3, <3>1, AppendProperties
    <3>3. DOMAIN queue' = 1 .. Len(queue')
      BY Zenon, <3>2, LenProperties
    <3> QED BY <1>3, <2>1, <3>2, <3>3, QueueSizeAssumption
  <2>2. CASE ~ (Len(queue) < QueueSize)
    BY <1>1, <1>3, <2>2 DEF TypeOK
  <2> QED BY Zenon, <2>1, <2>2
<1>5. TypeOK'
  BY Zenon, <1>1, <1>2, <1>4 DEF TypeOK
<1>6. StopInv'
  <2>1. ASSUME NEW l \in promised PROVE Pending(l)'
    <3>1. CASE Working /\ op = SaveLease(l)
      BY Zenon, <1>1, <1>2, <3>1 DEF Pending, SaveLease
    <3>2. CASE \E i \in DOMAIN queue : queue[i] = SaveLease(l) /\ \A j \in 1 .. i : queue[j] # Shutdown
      <4>1. PICK i \in 1 .. Len(queue) :
              queue[i] = SaveLease(l) /\ \A j \in 1 .. i : queue[j] # Shutdown
        BY Zenon, <1>3, <3>2
      <4>2. i \in 1 .. Len(queue') /\ \A j \in 1 .. i : j \in 1 .. Len(queue)
        BY <1>3, <1>4
      <4>3. queue'[i] = SaveLease(l) /\ \A j \in 1 .. i : queue'[j] # Shutdown
        BY Zenon, <1>4, <4>1, <4>2
      <4> QED BY Zenon, <1>4, <4>2, <4>3 DEF Pending, SaveLease, Shutdown
    <3> QED BY Zenon, <3>1, <3>2 DEF StopInv, Pending
  <2>2. ~ (thread' = "exited") /\ ~ (Working /\ op = Shutdown)
    BY Zenon, <1>1, <1>2 DEF StopInv
  <2> QED BY Zenon, <1>1, <1>2, <2>1, <2>2 DEF StopInv, Shutdown
<1>7. CopyInv'
  <2>1. Shutdown.type # "SAVE_LEASE"
    BY Zenon, OperationFacts
  <2>2. \A i \in DOMAIN queue' : queue'[i].type = "SAVE_LEASE" => Backed(queue'[i].lease)
    BY Zenon, <1>3, <1>4, <2>1 DEF CopyInv
  <2> QED BY Zenon, <1>1, <1>2, <2>2 DEF CopyInv, Backed
<1>8. WriterInv' /\ StampInv' /\ DiskInv'
  <2>1. Rewriting' <=> Rewriting
    BY Zenon, <1>1, <1>2 DEF Rewriting
  <2>2. WriterInv'
    <3>1. writer # <<>> => thread = "writing" /\ thread' = "writing"
      BY Zenon, <1>1, <1>2 DEF WriterInv
    <3> QED BY Zenon, <1>1, <2>1, <3>1 DEF WriterInv
  <2>3. StampInv' /\ DiskInv'
    BY Zenon, <1>1, <2>1 DEF StampInv, DiskInv, Recorded
  <2> QED BY Zenon, <2>2, <2>3
<1> QED BY Zenon, <1>5, <1>6, <1>7, <1>8

(* lease_io_stop returns after the join; the final save may not open the file. *)
LEMMA StopReturnStep == ASSUME IoInv, StopReturns \/ FinalFails PROVE IoInv'
<1> USE DEF IoInv
<1>1. /\ db' = db /\ queue' = queue /\ running' = running /\ thread' = thread /\ op' = op
      /\ writer' = writer /\ file' = file /\ saved' = saved /\ promised' = promised
      /\ damaged' = damaged /\ full' = full /\ stamp' = stamp /\ ops' = ops /\ starts' = starts
      /\ server \in {"joining", "joined"} /\ server' \in {"joined", "unsaved"}
  BY Zenon DEF StopReturns, FinalFails
<1>2. thread = "exited"
  BY Zenon DEF StopReturns, FinalFails, StopInv
<1>3. TypeOK'
  BY Zenon, <1>1 DEF TypeOK
<1>4. StopInv'
  BY Zenon, <1>1, <1>2 DEF StopInv, Pending, Working, Shutdown, SaveLease
<1>5. CopyInv'
  BY Zenon, <1>1 DEF CopyInv, Backed, Working
<1>6. WriterInv' /\ StampInv' /\ DiskInv'
  <2>1. Rewriting' <=> Rewriting
    BY Zenon, <1>1, <1>2 DEF Rewriting
  <2>2. writer = <<>>
    BY Zenon, <1>1, <1>2 DEF WriterInv
  <2> QED BY Zenon, <1>1, <2>1, <2>2, FileUntouched
<1> QED BY Zenon, <1>3, <1>4, <1>5, <1>6

--------------------------------------------------------------------------------
(* The steps that write the file. *)

(* The conjuncts that do not look at the file. *)
LEMMA QueueUntouched ==
    ASSUME IoInv, UNCHANGED <<db, queue, op, server, promised>>, Working' <=> Working,
           thread # "exited" => thread' # "exited",
           thread' # thread => op # Shutdown /\ thread # "exited"
    PROVE  StopInv' /\ CopyInv'
<1>1. /\ db' = db /\ queue' = queue /\ op' = op /\ server' = server /\ promised' = promised
  BY Zenon
<1>2. StopInv'
  <2>1. \A l \in promised : Pending(l)'
    BY <1>1 DEF IoInv, StopInv, Pending, SaveLease, Shutdown
  <2>2. thread' = "writing" => op # Shutdown
    BY Zenon DEF IoInv, StopInv
  <2>3. server \notin {"running", "joining"} => thread' = "exited"
    BY Zenon DEF IoInv, StopInv
  <2> QED BY Zenon, <1>1, <2>1, <2>2, <2>3 DEF IoInv, StopInv, Shutdown
<1>3. CopyInv'
  BY Zenon, <1>1 DEF IoInv, CopyInv, Backed
<1> QED BY Zenon, <1>2, <1>3

(* The file is opened: truncated for a rewrite. *)
LEMMA OpenStep == ASSUME IoInv, IoOpens \/ FinalOpens PROVE IoInv'
<1> USE DEF IoInv
<1>1. /\ db' = db /\ queue' = queue /\ running' = running /\ op' = op /\ writer' = writer
      /\ saved' = saved /\ promised' = promised /\ damaged' = damaged /\ full' = full
      /\ stamp' = stamp /\ ops' = ops /\ starts' = starts
      /\ server # "saving" /\ thread # "writing"
  BY Zenon DEF IoOpens, FinalOpens, StopInv
<1>2. writer = <<>> /\ Len(writer) = 0 /\ ~ Rewriting
  BY Zenon, <1>1 DEF WriterInv, Rewriting
<1>3. DOMAIN db = 1 .. Len(db) /\ Len(db) \in Nat
  BY Zenon, LenProperties DEF TypeOK
<1>4. <<>> \in Seq(Blocks)
  BY Zenon, EmptySeq
<1>5. TypeOK' /\ StopInv' /\ CopyInv'
  <2>1. CASE IoOpens
    <3>1. /\ thread = "taken" /\ thread' = "writing" /\ server' = server /\ op # Shutdown
          /\ file' \in {<<>>, file}
      BY Zenon, <2>1 DEF IoOpens
    <3>2. TypeOK'
      BY Zenon, <1>1, <1>4, <3>1 DEF TypeOK
    <3> QED BY Zenon, <1>1, <3>1, <3>2, QueueUntouched DEF Working
  <2>2. CASE FinalOpens
    <3>1. server = "joined" /\ server' = "saving" /\ thread' = thread /\ file' = <<>>
      BY Zenon, <2>2 DEF FinalOpens
    <3>2. TypeOK'
      BY Zenon, <1>1, <1>4, <3>1 DEF TypeOK
    <3>3. StopInv'
      BY Zenon, <1>1, <3>1 DEF StopInv, Pending, Working, Shutdown, SaveLease
    <3>4. CopyInv'
      BY Zenon, <1>1, <3>1 DEF CopyInv, Backed, Working
    <3> QED BY Zenon, <3>2, <3>3, <3>4
  <2> QED BY Zenon, <2>1, <2>2
<1>6. WriterInv' /\ StampInv' /\ DiskInv'
  <2>1. CASE file' = <<>> /\ Rewriting' /\ server' # "saved"
    <3>1. Len(file') = 0
      BY Zenon, <2>1
    <3>2. WriterInv'
      <4>1. writer' = <<>> /\ Len(writer') = 0 /\ 0 <= Len(db') /\ 1 .. 0 = {}
        BY <1>1, <1>2, <1>3
      <4> QED BY Zenon, <2>1, <4>1 DEF WriterInv
    <3>3. StampInv'
      BY <1>1, <3>1 DEF StampInv
    <3>4. DiskInv'
      BY <1>1, <1>2, <1>3, <2>1, <3>1 DEF DiskInv
    <3> QED BY Zenon, <3>2, <3>3, <3>4
  <2>2. CASE file' = file /\ ~ Rewriting' /\ server' = server
    BY Zenon, <1>1, <1>2, <2>2, FileUntouched
  <2> QED BY Zenon, <1>1, <2>1, <2>2 DEF IoOpens, FinalOpens, Rewriting, StopInv
<1> QED BY Zenon, <1>5, <1>6

(* What is being written: the database in a rewrite, else the lease in hand. *)
LEMMA SourceFacts ==
    ASSUME IoInv, thread = "writing" \/ server = "saving"
    PROVE  /\ Source \in Seq(Lease) /\ Len(Source) \in Nat
           /\ \A i \in 1 .. Len(Source) : Source[i].stamp <= stamp
           /\ Rewriting => Source = db
           /\ ~ Rewriting => /\ op.type = "SAVE_LEASE" /\ op.lease \in Lease
                             /\ Source = <<op.lease>> /\ op.lease.stamp <= stamp
                             /\ Backed(op.lease)
<1> USE DEF IoInv
<1>1. CASE Rewriting
  <2>1. Source = db
    BY Zenon, <1>1 DEF Rewriting, Source
  <2> QED BY Zenon, <1>1, <2>1, LenProperties DEF TypeOK, StampInv
<1>2. CASE ~ Rewriting
  <2>1. thread = "writing" /\ server # "saving" /\ op # SaveAll /\ op # Shutdown /\ op \in Operations
    BY Zenon, <1>2 DEF Rewriting, StopInv, TypeOK
  <2>2. op.type = "SAVE_LEASE" /\ op.lease \in Lease
    BY Zenon, <2>1, OperationFacts
  <2>3. Source = <<op.lease>>
    BY Zenon, <2>1 DEF Source
  <2>4. Backed(op.lease)
    BY Zenon, <2>1, <2>2 DEF CopyInv, Working
  <2>5. op.lease.stamp <= stamp
    <3>1. PICK k \in DOMAIN db : db[k].stamp >= op.lease.stamp
      BY Zenon, <2>4 DEF Backed
    <3>2. k \in 1 .. Len(db) /\ db[k] \in Lease
      BY Zenon, LenProperties, ElementOfSeq DEF TypeOK
    <3>3. db[k].stamp <= stamp
      BY Zenon, <3>2 DEF StampInv
    <3>4. db[k].stamp \in Nat /\ op.lease.stamp \in Nat /\ stamp \in Nat
      BY <2>2, <3>2, BoundsAssumption DEF Lease, TypeOK
    <3> QED BY <3>1, <3>3, <3>4
  <2>6. Source \in Seq(Lease) /\ Len(Source) = 1 /\ Source[1] = op.lease
    BY <2>2, <2>3
  <2>7. \A i \in 1 .. Len(Source) : Source[i].stamp <= stamp
    <3>1. \A i \in 1 .. 1 : i = 1
      OBVIOUS
    <3> QED BY Zenon, <2>5, <2>6, <3>1
  <2> QED BY Zenon, <1>2, <2>2, <2>3, <2>4, <2>5, <2>6, <2>7
<1> QED BY Zenon, <1>1, <1>2

(* The leases printed so far are no newer than the last change. *)
LEMMA WriterStamps ==
    ASSUME IoInv
    PROVE  \A i \in 1 .. Len(writer) : writer[i].stamp <= stamp
<1> SUFFICES ASSUME NEW i \in 1 .. Len(writer) PROVE writer[i].stamp <= stamp
  BY Zenon
<1> USE DEF IoInv
<1>1. writer \in Seq(Lease) /\ Len(writer) \in Nat /\ db \in Seq(Lease) /\ Len(db) \in Nat
  BY Zenon, LenProperties DEF TypeOK
<1>2. thread = "writing" \/ server = "saving"
  BY <1>1 DEF WriterInv
<1>3. CASE Rewriting
  <2>1. i \in 1 .. Len(db) /\ db[i].stamp >= writer[i].stamp /\ db[i].stamp <= stamp
    BY <1>1, <1>3 DEF WriterInv, StampInv
  <2>2. db[i] \in Lease /\ writer[i] \in Lease
    BY Zenon, <1>1, <2>1, ElementOfSeq
  <2>3. db[i].stamp \in Nat /\ writer[i].stamp \in Nat /\ stamp \in Nat
    <3>1. db[i].stamp \in Nat /\ writer[i].stamp \in Nat
      BY <2>2 DEF Lease
    <3>2. stamp \in Nat
      BY BoundsAssumption DEF TypeOK
    <3> QED BY Zenon, <3>1, <3>2
  <2> QED BY <2>1, <2>3
<1>4. CASE ~ Rewriting
  BY Zenon, <1>2, <1>4, SourceFacts DEF WriterInv
<1> QED BY Zenon, <1>3, <1>4

(* One lease is printed. *)
LEMMA PrintStep == ASSUME IoInv, Prints PROVE IoInv'
<1> USE DEF IoInv
<1> DEFINE n == Len(writer)
<1>1. /\ db' = db /\ queue' = queue /\ running' = running /\ thread' = thread /\ op' = op
      /\ server' = server /\ file' = file /\ saved' = saved /\ promised' = promised
      /\ damaged' = damaged /\ full' = full /\ stamp' = stamp /\ ops' = ops /\ starts' = starts
      /\ thread = "writing" \/ server = "saving"
      /\ n < Len(Source) /\ writer' = Append(writer, Source[n + 1])
  BY Zenon DEF Prints
<1>2. writer \in Seq(Lease) /\ n \in Nat /\ DOMAIN db = 1 .. Len(db) /\ Len(db) \in Nat
  BY Zenon, LenProperties DEF TypeOK
<1>3. Source[n + 1] \in Lease
  <2>1. Source \in Seq(Lease) /\ n + 1 \in 1 .. Len(Source)
    BY <1>1, <1>2, SourceFacts
  <2> QED BY Zenon, <2>1, ElementOfSeq
<1>4. /\ writer' \in Seq(Lease) /\ Len(writer') = n + 1
      /\ \A i \in 1 .. n : writer'[i] = writer[i]
      /\ writer'[n + 1] = Source[n + 1]
  BY <1>1, <1>2, <1>3, AppendProperties
<1>5. Rewriting' <=> Rewriting
  BY Zenon, <1>1 DEF Rewriting
<1> HIDE DEF n
<1>6. TypeOK'
  BY Zenon, <1>1, <1>4 DEF TypeOK
<1>7. StopInv' /\ CopyInv'
  BY Zenon, <1>1, QueueUntouched DEF Working
<1>8. StampInv'
  BY Zenon, <1>1 DEF StampInv
<1>9. CASE Rewriting
  <2>1. Source = db /\ n + 1 \in 1 .. Len(db) /\ n < Len(db)
    BY <1>1, <1>2, <1>9, SourceFacts
  <2>2. /\ \A i \in 1 .. n : db[i].ip = writer[i].ip /\ db[i].stamp >= writer[i].stamp
        /\ file = <<>>
        /\ server = "saving" => \A i \in 1 .. n : writer[i] = db[i]
    BY Zenon, <1>9 DEF WriterInv, n
  <2>3. db[n + 1].stamp >= db[n + 1].stamp
    <3>1. db[n + 1] \in Lease
      BY Zenon, <2>1, ElementOfSeq DEF TypeOK
    <3> QED BY <3>1 DEF Lease
  <2>4. \A i \in 1 .. n + 1 : i \in 1 .. n \/ i = n + 1
    BY <1>2
  <2>5. \A i \in 1 .. n + 1 : db[i].ip = writer'[i].ip /\ db[i].stamp >= writer'[i].stamp
    BY Zenon, <1>4, <2>1, <2>2, <2>3, <2>4
  <2>6. server = "saving" => \A i \in 1 .. n + 1 : writer'[i] = db[i]
    BY Zenon, <1>4, <2>1, <2>2, <2>4
  <2>7. server # "saved"
    BY Zenon, <1>9 DEF Rewriting, StopInv
  <2>8. WriterInv'
    <3>1. n + 1 <= Len(db)
      BY <2>1
    <3> QED BY Zenon, <1>1, <1>4, <1>5, <1>9, <2>2, <2>5, <2>6, <2>7, <3>1 DEF WriterInv
  <2>9. DiskInv'
    <3>1. ASSUME ~ damaged, NEW l \in saved
          PROVE  \E k \in DOMAIN db :
                   /\ db[k].ip = l.ip /\ db[k].stamp >= l.stamp
                   /\ k <= n + 1 => writer'[k].ip = l.ip /\ writer'[k].stamp >= l.stamp
      <4>1. PICK k \in DOMAIN db :
              /\ db[k].ip = l.ip /\ db[k].stamp >= l.stamp
              /\ k <= n => writer[k].ip = l.ip /\ writer[k].stamp >= l.stamp
        BY Zenon, <1>9, <3>1 DEF DiskInv, n
      <4>2. k <= n + 1 => k \in 1 .. n \/ k = n + 1
        BY <1>2
      <4>3. k <= n + 1 => writer'[k].ip = l.ip /\ writer'[k].stamp >= l.stamp
        BY <1>2, <1>4, <2>1, <4>1, <4>2
      <4> QED BY Zenon, <4>1, <4>3
    <3> QED BY <1>1, <1>4, <1>5, <1>9, <3>1 DEF DiskInv, Recorded
  <2> QED BY Zenon, <1>6, <1>7, <1>8, <2>8, <2>9
<1>10. CASE ~ Rewriting
  <2>1. Source = <<op.lease>> /\ server # "saving" /\ thread = "writing"
    BY Zenon, <1>1, <1>10, SourceFacts DEF Rewriting
  <2>2. n = 0 /\ Source[n + 1] = op.lease
    BY <1>1, <1>2, <2>1
  <2>3. \A i \in 1 .. n + 1 : writer'[i] = op.lease
    BY <1>4, <2>2
  <2>4. server # "saved"
    BY Zenon, <2>1 DEF StopInv
  <2>5. WriterInv'
    BY Zenon, <1>1, <1>4, <1>5, <1>10, <2>1, <2>3, <2>4 DEF WriterInv
  <2>6. DiskInv'
    BY Zenon, <1>1, <1>5, <1>10 DEF DiskInv, Recorded
  <2> QED BY Zenon, <1>6, <1>7, <1>8, <2>5, <2>6
<1> QED BY Zenon, <1>9, <1>10

(* The file is closed, and what was printed counts as saved. *)
LEMMA CloseStep ==
    ASSUME IoInv, Closes, UNCHANGED <<db, op, damaged, stamp>>,
           thread = "writing" \/ server = "saving", ~ Rewriting',
           server' # "saving", server' = "saved" => server = "saving"
    PROVE  /\ file' \in Seq(Blocks) /\ saved' \subseteq Lease /\ writer' \in Seq(Lease)
           /\ WriterInv' /\ StampInv' /\ DiskInv'
<1> USE DEF IoInv
<1>1. /\ db' = db /\ op' = op /\ damaged' = damaged /\ stamp' = stamp
      /\ Len(writer) >= Len(Source) /\ file' = Printed(file, writer) /\ writer' = <<>>
      /\ saved' = saved \union {writer[i] : i \in DOMAIN writer}
  BY Zenon DEF Closes
<1>2. /\ writer \in Seq(Lease) /\ Len(writer) \in Nat /\ DOMAIN writer = 1 .. Len(writer)
      /\ db \in Seq(Lease) /\ Len(db) \in Nat /\ DOMAIN db = 1 .. Len(db)
      /\ file \in Seq(Blocks) /\ Len(file) \in Nat /\ DOMAIN file = 1 .. Len(file)
      /\ stamp \in Nat
  BY LenProperties, BoundsAssumption DEF TypeOK
<1>3. \A i \in 1 .. Len(writer) : writer[i] \in Lease
  BY Zenon, <1>2, ElementOfSeq
<1>4. saved' \subseteq Lease
  BY Zenon, <1>1, <1>2, <1>3 DEF TypeOK
<1>5. file' \in Seq(Blocks) /\ \A i \in 1 .. Len(file') : file'[i].stamp <= stamp
  BY Zenon, <1>1, <1>2, PrintedType, WriterStamps DEF StampInv
<1>6. writer' \in Seq(Lease) /\ Len(writer') = 0 /\ 1 .. 0 = {}
  BY <1>1, EmptySeq
<1>7. StampInv'
  BY Zenon, <1>1, <1>5 DEF StampInv
<1>8. DOMAIN file' = 1 .. Len(file') /\ Len(file') \in Nat
  BY Zenon, <1>5, LenProperties
<1>9. ASSUME ~ EndsTorn(file)
      PROVE  /\ Len(file') = Len(file) + Len(writer)
             /\ \A i \in 1 .. Len(file) : file'[i] = file[i]
             /\ \A i \in 1 .. Len(writer) : file'[Len(file) + i] = Block(writer[i], FALSE)
  BY Zenon, <1>1, <1>2, <1>9, PrintedFacts
<1>10. \A i \in 1 .. Len(writer) :
         /\ Block(writer[i], FALSE).ip = writer[i].ip
         /\ Block(writer[i], FALSE).stamp = writer[i].stamp
         /\ Block(writer[i], FALSE).torn = FALSE
         /\ writer[i].stamp >= writer[i].stamp
  <2> TAKE i \in 1 .. Len(writer)
  <2>1. writer[i] \in Lease
    BY Zenon, <1>3
  <2>2. writer[i].stamp \in Nat
    BY <2>1 DEF Lease
  <2>3. FALSE \in BOOLEAN /\ writer[i].stamp >= writer[i].stamp
    BY <2>2
  <2> QED BY <2>1, <2>3, BlockFacts, Zenon
<1>11. CASE Rewriting
  <2>1. Source = db /\ Len(writer) = Len(db) /\ file = <<>> /\ Len(file) = 0
    <3>1. Source = db
      BY Zenon, <1>11, SourceFacts
    <3>2. file = <<>> /\ Len(writer) <= Len(db)
      BY Zenon, <1>11 DEF WriterInv
    <3>3. Len(writer) = Len(db)
      <4>1. Len(writer) >= Len(db)
        BY Zenon, <1>1, <3>1
      <4>2. Len(writer) \in Nat /\ Len(db) \in Nat /\ Len(writer) <= Len(db)
        BY Zenon, <1>2, <3>2
      <4> QED BY <4>1, <4>2
    <3>4. Len(<<>>) = 0
      BY Zenon
    <3> QED BY Zenon, <3>1, <3>2, <3>3, <3>4
  <2>2. ~ EndsTorn(file)
    BY Zenon, <2>1 DEF EndsTorn
  <2>3. Len(file') = Len(db) /\ \A i \in 1 .. Len(db) : file'[i] = Block(writer[i], FALSE)
    <3>1. \A i \in 1 .. Len(db) : Len(file) + i = i
      BY <1>2, <2>1
    <3>2. Len(file') = Len(file) + Len(db)
      BY Zenon, <1>9, <2>1, <2>2
    <3>3. \A i \in 1 .. Len(db) : file'[Len(file) + i] = Block(writer[i], FALSE)
      BY Zenon, <1>9, <2>1, <2>2
    <3>4. Len(file) = 0 /\ Len(db) \in Nat
      BY Zenon, <1>2, <2>1
    <3>5. Len(file') = Len(db)
      BY <3>2, <3>4
    <3>6. \A i \in 1 .. Len(db) : file'[i] = Block(writer[i], FALSE)
      BY Zenon, <3>1, <3>3
    <3> QED BY Zenon, <3>5, <3>6
  <2>4. server' = "saved" => \A i \in 1 .. Len(db) : writer[i] = db[i]
    BY Zenon, <2>1 DEF WriterInv
  <2>5. WriterInv'
    <3>1. server' = "saved" => \A i \in 1 .. Len(db) : file'[i] = Block(db[i], FALSE)
      BY Zenon, <2>3, <2>4
    <3> QED BY Zenon, <1>1, <1>6, <2>3, <3>1 DEF WriterInv
  <2>6. ASSUME ~ damaged, NEW l \in saved'
        PROVE  /\ \E k \in DOMAIN db : db[k].ip = l.ip /\ db[k].stamp >= l.stamp
               /\ \E k \in DOMAIN file' : file'[k].ip = l.ip /\ file'[k].stamp >= l.stamp
    <3>1. PICK k \in 1 .. Len(db) :
            /\ db[k].ip = l.ip /\ db[k].stamp >= l.stamp
            /\ writer[k].ip = l.ip /\ writer[k].stamp >= l.stamp
      <4>1. CASE l \in saved
        <5>1. PICK k \in DOMAIN db :
                /\ db[k].ip = l.ip /\ db[k].stamp >= l.stamp
                /\ k <= Len(writer) => writer[k].ip = l.ip /\ writer[k].stamp >= l.stamp
          BY Zenon, <1>11, <2>6, <4>1 DEF DiskInv
        <5> QED BY <1>2, <2>1, <5>1
      <4>2. CASE \E k \in 1 .. Len(writer) : l = writer[k]
        <5>1. PICK k \in 1 .. Len(writer) : l = writer[k]
          BY Zenon, <4>2
        <5>2. db[k].ip = writer[k].ip /\ db[k].stamp >= writer[k].stamp
          BY Zenon, <1>11 DEF WriterInv
        <5>3. writer[k].stamp >= writer[k].stamp
          BY Zenon, <1>10
        <5> QED BY Zenon, <2>1, <5>1, <5>2, <5>3
      <4> QED BY Zenon, <1>1, <1>2, <4>1, <4>2
    <3>2. k \in DOMAIN file' /\ file'[k].ip = l.ip /\ file'[k].stamp >= l.stamp
      BY Zenon, <1>8, <1>10, <2>1, <2>3, <3>1
    <3> QED BY Zenon, <1>2, <3>1, <3>2
  <2>7. \A i \in 1 .. Len(file') : ~ file'[i].torn
    BY Zenon, <1>10, <2>1, <2>3
  <2>8. DiskInv'
    <3>1. ~ damaged' => \A l \in saved' : \E k \in DOMAIN db' : db'[k].ip = l.ip /\ db'[k].stamp >= l.stamp
      BY <1>1, <2>6
    <3>2. ~ damaged' => \A l \in saved' : Recorded(l)'
      BY <1>1, <2>6 DEF Recorded
    <3> QED BY Zenon, <2>7, <3>1, <3>2 DEF DiskInv
  <2> QED BY Zenon, <1>4, <1>5, <1>6, <1>7, <2>5, <2>8
<1>12. CASE ~ Rewriting
  <2>1. server # "saving" /\ Backed(op.lease)
    BY Zenon, <1>12, SourceFacts DEF Rewriting
  <2>2. WriterInv'
    BY Zenon, <1>1, <1>6, <2>1 DEF WriterInv
  <2>3. ASSUME ~ damaged
        PROVE  /\ \A i \in 1 .. Len(file') : ~ file'[i].torn
               /\ \A l \in saved' : Backed(l)
               /\ \A l \in saved' :
                    \E k \in DOMAIN file' : file'[k].ip = l.ip /\ file'[k].stamp >= l.stamp
    <3>1. /\ \A i \in 1 .. Len(file) : ~ file[i].torn
          /\ \A l \in saved : Backed(l) /\ Recorded(l)
      BY Zenon, <1>12, <2>3 DEF DiskInv, Backed
    <3>2. ~ EndsTorn(file)
      BY <1>2, <3>1, EmptySeq DEF EndsTorn
    <3>3. \A i \in 1 .. Len(file') :
            i \in 1 .. Len(file) \/ \E j \in 1 .. Len(writer) : i = Len(file) + j
      <4> TAKE i \in 1 .. Len(file')
      <4>1. i \in 1 .. Len(file) \/ i - Len(file) \in 1 .. Len(writer)
        BY <1>2, <1>9, <3>2
      <4>2. i = Len(file) + (i - Len(file))
        BY <1>2
      <4> QED BY Zenon, <4>1, <4>2
    <3>4. \A i \in 1 .. Len(file') : ~ file'[i].torn
      BY Zenon, <1>9, <1>10, <3>1, <3>2, <3>3
    <3>5. \A l \in saved' : Backed(l)
      BY Zenon, <1>1, <1>2, <1>12, <2>1, <3>1 DEF WriterInv
    <3>6. ASSUME NEW l \in saved'
          PROVE  \E k \in DOMAIN file' : file'[k].ip = l.ip /\ file'[k].stamp >= l.stamp
      <4>1. CASE l \in saved
        <5>1. PICK k \in DOMAIN file : file[k].ip = l.ip /\ file[k].stamp >= l.stamp
          BY Zenon, <3>1, <4>1 DEF Recorded
        <5>2. k \in 1 .. Len(file) /\ k \in 1 .. Len(file')
          BY <1>2, <1>9, <3>2
        <5> QED BY Zenon, <1>8, <1>9, <3>2, <5>1, <5>2
      <4>2. CASE \E j \in 1 .. Len(writer) : l = writer[j]
        <5>1. PICK j \in 1 .. Len(writer) : l = writer[j]
          BY Zenon, <4>2
        <5>2. Len(file) + j \in 1 .. Len(file')
          <6>1. Len(file) \in Nat /\ Len(writer) \in Nat /\ Len(file') = Len(file) + Len(writer)
            BY Zenon, <1>2, <1>9, <3>2
          <6> QED BY <6>1
        <5>3. l.stamp >= l.stamp
          BY Zenon, <1>10, <5>1
        <5>4. /\ Len(file) + j \in DOMAIN file'
              /\ file'[Len(file) + j] = Block(writer[j], FALSE)
          BY Zenon, <1>8, <1>9, <3>2, <5>2
        <5>5. Block(writer[j], FALSE).ip = l.ip /\ Block(writer[j], FALSE).stamp >= l.stamp
          BY Zenon, <1>10, <5>1, <5>3
        <5> QED BY Zenon, <5>4, <5>5
      <4> QED BY Zenon, <1>1, <1>2, <4>1, <4>2
    <3> QED BY Zenon, <3>4, <3>5, <3>6
  <2>4. DiskInv'
    <3>1. ~ damaged' => \A l \in saved' : \E k \in DOMAIN db' : db'[k].ip = l.ip /\ db'[k].stamp >= l.stamp
      BY <1>1, <2>3 DEF Backed
    <3>2. ~ damaged' => \A l \in saved' : Recorded(l)'
      BY <1>1, <2>3 DEF Recorded
    <3>3. ~ damaged' => \A i \in 1 .. Len(file') : ~ file'[i].torn
      BY <1>1, <2>3
    <3> QED BY Zenon, <3>1, <3>2, <3>3 DEF DiskInv
  <2> QED BY Zenon, <1>4, <1>5, <1>6, <1>7, <2>2, <2>4
<1> QED BY Zenon, <1>11, <1>12

(* lease_db_append_lease or lease_db_save returns in the I/O thread. *)
LEMMA IoCloseStep == ASSUME IoInv, IoCloses PROVE IoInv'
<1> USE DEF IoInv
<1>1. /\ Closes /\ thread = "writing" /\ thread' = "ready" /\ promised' = promised \ Concerned
      /\ UNCHANGED <<db, queue, running, op, server, damaged, full, stamp, ops, starts>>
  BY Zenon DEF IoCloses
<1>2. op # Shutdown /\ server \in {"running", "joining"} /\ Working /\ ~ Rewriting'
  BY Zenon, <1>1 DEF StopInv, TypeOK, Working, Rewriting
<1>3. StopInv' /\ CopyInv'
  BY Zenon, <1>1, <1>2, OperationDone
<1>4. /\ file' \in Seq(Blocks) /\ saved' \subseteq Lease /\ writer' \in Seq(Lease)
      /\ WriterInv' /\ StampInv' /\ DiskInv'
  BY Zenon, <1>1, <1>2, CloseStep
<1>5. TypeOK'
  BY Zenon, <1>1, <1>4 DEF TypeOK
<1> QED BY Zenon, <1>3, <1>4, <1>5

(* The final save of dhcp_server_stop returns. *)
LEMMA FinalCloseStep == ASSUME IoInv, FinalCloses PROVE IoInv'
<1> USE DEF IoInv
<1>1. /\ Closes /\ server = "saving" /\ server' = "saved"
      /\ UNCHANGED <<db, queue, running, thread, op, promised, damaged, full, stamp, ops, starts>>
  BY Zenon DEF FinalCloses
<1>2. thread = "exited" /\ ~ Rewriting'
  BY Zenon, <1>1 DEF StopInv, Rewriting
<1>3. StopInv'
  BY Zenon, <1>1, <1>2 DEF StopInv, Pending, Working, Shutdown, SaveLease
<1>4. CopyInv'
  BY Zenon, <1>1 DEF CopyInv, Backed, Working
<1>5. /\ file' \in Seq(Blocks) /\ saved' \subseteq Lease /\ writer' \in Seq(Lease)
      /\ WriterInv' /\ StampInv' /\ DiskInv'
  BY Zenon, <1>1, <1>2, CloseStep
<1>6. TypeOK'
  BY Zenon, <1>1, <1>5 DEF TypeOK
<1> QED BY Zenon, <1>3, <1>4, <1>5, <1>6

--------------------------------------------------------------------------------
(* The steps that change the database. *)

(* A lease is added or changed: the database keeps every address it has, at
   least as recent. *)
LEMMA ChangeStep == ASSUME IoInv, NEW ip \in Ips, Change(ip) PROVE IoInv'
<1> USE DEF IoInv
<1> DEFINE new == [ip |-> ip, stamp |-> stamp + 1]
<1>1. /\ queue' = queue /\ running' = running /\ thread' = thread /\ op' = op
      /\ server' = server /\ writer' = writer /\ file' = file /\ saved' = saved
      /\ promised' = promised /\ damaged' = damaged /\ full' = full /\ ops' = ops
      /\ starts' = starts
      /\ server = "running" /\ stamp < MaxStamp /\ stamp' = stamp + 1
      /\ \/ db' = Append(db, new)
         \/ \E i \in DOMAIN db : db[i].ip = ip /\ db' = [db EXCEPT ![i] = new]
  BY Zenon DEF Change
<1>2. /\ db \in Seq(Lease) /\ Len(db) \in Nat /\ DOMAIN db = 1 .. Len(db)
      /\ stamp \in Nat /\ MaxStamp \in Nat
  BY LenProperties, BoundsAssumption DEF TypeOK
<1>3. new \in Lease /\ new.ip = ip /\ new.stamp = stamp + 1
  BY <1>1, <1>2 DEF Lease
<1> HIDE DEF new
<1>4. \A k \in 1 .. Len(db) : /\ db[k] \in Lease /\ db[k].stamp \in Nat
                              /\ db[k].stamp <= stamp
  <2> TAKE k \in 1 .. Len(db)
  <2>1. db[k] \in Lease /\ db[k].stamp <= stamp
    BY Zenon, <1>2, ElementOfSeq DEF StampInv
  <2> QED BY <2>1 DEF Lease
<1>5. /\ db' \in Seq(Lease) /\ Len(db') \in Nat /\ Len(db') >= Len(db)
      /\ DOMAIN db' = 1 .. Len(db')
      /\ \A k \in 1 .. Len(db) : db'[k].ip = db[k].ip /\ db'[k].stamp >= db[k].stamp
      /\ \A k \in 1 .. Len(db') : db'[k].stamp <= stamp + 1
  <2>1. CASE db' = Append(db, new)
    <3>1. /\ db' \in Seq(Lease) /\ Len(db') = Len(db) + 1
          /\ \A k \in 1 .. Len(db) : db'[k] = db[k]
          /\ db'[Len(db) + 1] = new
      BY <1>2, <1>3, <2>1, AppendProperties
    <3>2. DOMAIN db' = 1 .. Len(db')
      BY Zenon, <3>1, LenProperties
    <3>3. \A k \in 1 .. Len(db') : k \in 1 .. Len(db) \/ k = Len(db) + 1
      BY <1>2, <3>1
    <3>4. \A k \in 1 .. Len(db') : db'[k].stamp <= stamp + 1
      BY <1>2, <1>3, <1>4, <3>1, <3>3
    <3>5. \A k \in 1 .. Len(db) : db'[k].ip = db[k].ip /\ db'[k].stamp >= db[k].stamp
      BY <1>4, <3>1
    <3>6. Len(db') \in Nat /\ Len(db') >= Len(db)
      BY <1>2, <3>1
    <3> QED BY Zenon, <3>1, <3>2, <3>4, <3>5, <3>6
  <2>2. CASE \E i \in DOMAIN db : db[i].ip = ip /\ db' = [db EXCEPT ![i] = new]
    <3>1. PICK i \in 1 .. Len(db) : db[i].ip = ip /\ db' = [db EXCEPT ![i] = new]
      BY Zenon, <1>2, <2>2
    <3>2. /\ db' \in Seq(Lease) /\ Len(db') = Len(db)
          /\ \A k \in 1 .. Len(db) : db'[k] = IF k = i THEN new ELSE db[k]
      BY <1>2, <1>3, <3>1, ExceptSeq
    <3>3. DOMAIN db' = 1 .. Len(db')
      BY Zenon, <3>2, LenProperties
    <3>4. \A k \in 1 .. Len(db) : /\ db'[k].ip = db[k].ip /\ db'[k].stamp >= db[k].stamp
                                  /\ db'[k].stamp <= stamp + 1
      BY <1>2, <1>3, <1>4, <3>1, <3>2
    <3>5. Len(db') \in Nat /\ Len(db') >= Len(db)
      BY <1>2, <3>2
    <3> QED BY Zenon, <3>2, <3>3, <3>4, <3>5
  <2> QED BY Zenon, <1>1, <2>1, <2>2
<1>6. \A k \in 1 .. Len(db) : k \in 1 .. Len(db') /\ db'[k].stamp \in Nat
  <2> TAKE k \in 1 .. Len(db)
  <2>1. k \in 1 .. Len(db')
    BY <1>2, <1>5
  <2>2. db'[k] \in Lease
    BY Zenon, <1>5, <2>1, ElementOfSeq
  <2> QED BY <2>1, <2>2 DEF Lease
<1>7. TypeOK'
  <2>1. stamp' \in 0 .. MaxStamp
    BY <1>1, <1>2
  <2> QED BY Zenon, <1>1, <1>5, <2>1 DEF TypeOK
<1>8. StopInv'
  BY <1>1 DEF StopInv, Pending, Working, Shutdown, SaveLease
<1> DEFINE BackedNow(l) == \E k \in DOMAIN db' : db'[k].ip = l.ip /\ db'[k].stamp >= l.stamp
<1>9. ASSUME NEW l \in Lease, Backed(l) PROVE BackedNow(l)
  <2>1. PICK k \in 1 .. Len(db) : db[k].ip = l.ip /\ db[k].stamp >= l.stamp
    BY Zenon, <1>2, <1>9 DEF Backed
  <2>2. l.stamp \in Nat
    BY DEF Lease
  <2>3. k \in DOMAIN db' /\ db'[k].ip = l.ip /\ db'[k].stamp >= l.stamp
    <3>1. /\ k \in DOMAIN db' /\ db'[k].ip = db[k].ip /\ db'[k].stamp >= db[k].stamp
          /\ db[k].stamp \in Nat /\ db'[k].stamp \in Nat
      BY Zenon, <1>4, <1>5, <1>6
    <3> QED BY <2>1, <2>2, <3>1
  <2> QED BY Zenon, <2>3
<1> HIDE DEF BackedNow
<1>10. CopyInv'
  <2>1. \A o \in Operations : o.type = "SAVE_LEASE" => o.lease \in Lease
    BY Zenon, OperationFacts
  <2>2. \A j \in DOMAIN queue : queue[j].type = "SAVE_LEASE" => BackedNow(queue[j].lease)
    <3>1. \A j \in DOMAIN queue : queue[j] \in Operations
      BY Zenon, LenProperties, ElementOfSeq DEF TypeOK
    <3> QED BY Zenon, <1>9, <2>1, <3>1 DEF CopyInv
  <2>3. Working /\ op.type = "SAVE_LEASE" => BackedNow(op.lease)
    BY Zenon, <1>9, <2>1 DEF CopyInv, TypeOK
  <2> QED BY Zenon, <1>1, <2>2, <2>3 DEF CopyInv, Working, Backed, BackedNow
<1>11. Rewriting' <=> Rewriting
  BY Zenon, <1>1 DEF Rewriting
<1>12. \A j \in 1 .. Len(writer) : writer[j].stamp \in Nat
  <2> TAKE j \in 1 .. Len(writer)
  <2>1. writer[j] \in Lease
    BY Zenon, ElementOfSeq DEF TypeOK
  <2> QED BY <2>1 DEF Lease
<1>13. WriterInv'
  <2>1. ASSUME Rewriting
        PROVE  /\ Len(writer) <= Len(db')
               /\ \A j \in 1 .. Len(writer) :
                    db'[j].ip = writer[j].ip /\ db'[j].stamp >= writer[j].stamp
    <3>1. /\ Len(writer) <= Len(db) /\ Len(writer) \in Nat
          /\ \A j \in 1 .. Len(writer) :
               db[j].ip = writer[j].ip /\ db[j].stamp >= writer[j].stamp
      BY Zenon, <2>1, LenProperties DEF WriterInv, TypeOK
    <3>2. \A j \in 1 .. Len(writer) : j \in 1 .. Len(db)
      <4>1. Len(writer) \in Nat /\ Len(db) \in Nat /\ Len(writer) <= Len(db)
        BY Zenon, <1>2, <3>1
      <4> QED BY <4>1
    <3>3. Len(writer) <= Len(db')
      BY <1>2, <1>5, <3>1
    <3>4. \A j \in 1 .. Len(writer) :
            db'[j].ip = writer[j].ip /\ db'[j].stamp >= writer[j].stamp
      <4> TAKE j \in 1 .. Len(writer)
      <4>1. /\ db'[j].ip = db[j].ip /\ db'[j].stamp >= db[j].stamp
            /\ db[j].stamp \in Nat /\ db'[j].stamp \in Nat /\ writer[j].stamp \in Nat
        BY Zenon, <1>4, <1>5, <1>6, <1>12, <3>2
      <4>2. db[j].ip = writer[j].ip /\ db[j].stamp >= writer[j].stamp
        BY Zenon, <3>1
      <4> QED BY <4>1, <4>2
    <3> QED BY Zenon, <3>3, <3>4
  <2> QED BY Zenon, <1>1, <1>11, <2>1 DEF WriterInv
<1>14. StampInv'
  <2>1. \A j \in 1 .. Len(file) : file[j].stamp <= stamp + 1
    <3> TAKE j \in 1 .. Len(file)
    <3>1. file[j] \in Blocks /\ file[j].stamp <= stamp
      BY Zenon, ElementOfSeq DEF TypeOK, StampInv
    <3>2. file[j].stamp \in Nat
      BY <3>1 DEF Blocks
    <3> QED BY <1>2, <3>1, <3>2
  <2> QED BY Zenon, <1>1, <1>5, <2>1 DEF StampInv
<1>15. DiskInv'
  <2>1. ASSUME ~ damaged, NEW l \in saved
        PROVE  \E k \in DOMAIN db' :
                 /\ db'[k].ip = l.ip /\ db'[k].stamp >= l.stamp
                 /\ Rewriting /\ k <= Len(writer) =>
                      writer[k].ip = l.ip /\ writer[k].stamp >= l.stamp
    <3>1. PICK k \in 1 .. Len(db) :
            /\ db[k].ip = l.ip /\ db[k].stamp >= l.stamp
            /\ Rewriting /\ k <= Len(writer) =>
                 writer[k].ip = l.ip /\ writer[k].stamp >= l.stamp
      BY Zenon, <1>2, <2>1 DEF DiskInv
    <3>2. l.stamp \in Nat
      BY DEF TypeOK, Lease
    <3>3. k \in DOMAIN db' /\ db'[k].ip = l.ip /\ db'[k].stamp >= l.stamp
      BY <1>4, <1>5, <1>6, <3>1, <3>2
    <3> QED BY Zenon, <3>1, <3>3
  <2> QED BY Zenon, <1>1, <1>11, <2>1 DEF DiskInv, Recorded
<1> QED BY Zenon, <1>7, <1>8, <1>10, <1>13, <1>14, <1>15

(* A start from a file that has what was saved, unless it is damaged. *)
LEMMA StartStep ==
    ASSUME IoInv, NEW blocks \in Seq(Blocks), Start(blocks), damaged' \in BOOLEAN,
           \A i \in 1 .. Len(blocks) : blocks[i].stamp <= stamp,
           ~ damaged' => /\ \A i \in 1 .. Len(blocks) : ~ blocks[i].torn
                         /\ \A l \in saved : \E k \in 1 .. Len(blocks) :
                              blocks[k].ip = l.ip /\ blocks[k].stamp >= l.stamp
    PROVE  IoInv'
<1>1. /\ starts < MaxStarts /\ starts' = starts + 1 /\ file' = blocks /\ db' = Loaded(blocks)
      /\ queue' = <<>> /\ running' = TRUE /\ thread' = "ready" /\ op' = SaveAll
      /\ server' = "running" /\ writer' = <<>> /\ promised' = {} /\ full' = FALSE
      /\ saved' = saved /\ stamp' = stamp /\ ops' = ops
  BY Zenon DEF Start
<1>2. /\ db' \in Seq(Lease) /\ Len(db') <= Len(blocks)
      /\ ~ EndsTorn(blocks) => Len(db') = Len(blocks)
      /\ \A i \in 1 .. Len(db') : db'[i].ip = blocks[i].ip /\ db'[i].stamp = blocks[i].stamp
  BY Zenon, <1>1, LoadedFacts
<1>3. /\ DOMAIN db' = 1 .. Len(db') /\ Len(db') \in Nat
      /\ DOMAIN blocks = 1 .. Len(blocks) /\ Len(blocks) \in Nat
  BY Zenon, <1>2, LenProperties
<1>4. /\ ~ Working' /\ ~ Rewriting' /\ DOMAIN <<>> = {} /\ 1 .. Len(<<>>) = {}
      /\ Len(<<>>) = 0
  BY <1>1 DEF Working, Rewriting
<1>5. TypeOK'
  <2>1. starts' \in 0 .. MaxStarts /\ Len(queue') <= QueueSize
    <3>1. starts \in Nat /\ MaxStarts \in Nat
      BY BoundsAssumption DEF IoInv, TypeOK
    <3>2. Len(queue') = 0
      BY Zenon, <1>1, <1>4
    <3>3. Len(queue') <= QueueSize
      BY <3>2, QueueSizeAssumption
    <3> QED BY <1>1, <3>1, <3>3
  <2>2. queue' \in Seq(Operations) /\ writer' \in Seq(Lease) /\ op' \in Operations
    BY Zenon, <1>1, EmptySeq, OperationFacts
  <2> QED BY Zenon, <1>1, <1>2, <2>1, <2>2 DEF IoInv, TypeOK
<1>6. StopInv'
  BY Zenon, <1>1, <1>4 DEF StopInv
<1>7. CopyInv'
  BY Zenon, <1>1, <1>4 DEF CopyInv
<1>8. WriterInv'
  BY Zenon, <1>1, <1>4 DEF WriterInv
<1>9. StampInv'
  <2>1. \A i \in 1 .. Len(db') : i \in 1 .. Len(blocks)
    <3>1. Len(db') \in Nat /\ Len(blocks) \in Nat /\ Len(db') <= Len(blocks)
      BY Zenon, <1>2, <1>3
    <3> QED BY <3>1
  <2> QED BY Zenon, <1>1, <1>2, <2>1 DEF StampInv
<1>10. DiskInv'
  <2>1. ASSUME ~ damaged', NEW l \in saved
        PROVE  /\ \E k \in DOMAIN db' : db'[k].ip = l.ip /\ db'[k].stamp >= l.stamp
               /\ \E k \in DOMAIN file' : file'[k].ip = l.ip /\ file'[k].stamp >= l.stamp
    <3>1. PICK k \in 1 .. Len(blocks) : blocks[k].ip = l.ip /\ blocks[k].stamp >= l.stamp
      BY Zenon, <2>1
    <3>2. ~ EndsTorn(blocks)
      BY <1>3, <2>1, EmptySeq DEF EndsTorn
    <3>3. k \in DOMAIN db' /\ k \in DOMAIN file'
      BY Zenon, <1>1, <1>2, <1>3, <3>2
    <3> QED BY Zenon, <1>1, <1>2, <1>3, <3>1, <3>3
  <2>2. ~ damaged' => \A l \in saved' : Recorded(l)'
    BY Zenon, <1>1, <2>1 DEF Recorded
  <2>3. ~ damaged' => \A l \in saved' : \E k \in DOMAIN db' : db'[k].ip = l.ip /\ db'[k].stamp >= l.stamp
    BY Zenon, <1>1, <2>1
  <2>4. ~ damaged' => \A i \in 1 .. Len(file') : ~ file'[i].torn
    BY Zenon, <1>1
  <2> QED BY Zenon, <1>4, <2>2, <2>3, <2>4 DEF DiskInv
<1> QED BY Zenon, <1>5, <1>6, <1>7, <1>8, <1>9, <1>10 DEF IoInv

(* What is in the file while no rewrite is under way. *)
LEMMA FileFacts ==
    ASSUME IoInv
    PROVE  /\ file \in Seq(Blocks) /\ Len(file) \in Nat /\ stamp \in Nat
           /\ \A i \in 1 .. Len(file) : file[i].stamp <= stamp
           /\ ~ damaged => \A i \in 1 .. Len(file) : ~ file[i].torn
           /\ ~ damaged /\ ~ Rewriting => \A l \in saved : \E k \in 1 .. Len(file) :
                file[k].ip = l.ip /\ file[k].stamp >= l.stamp
<1>1. /\ file \in Seq(Blocks) /\ Len(file) \in Nat /\ DOMAIN file = 1 .. Len(file)
      /\ stamp \in Nat
  BY LenProperties, BoundsAssumption DEF IoInv, TypeOK
<1>2. /\ \A i \in 1 .. Len(file) : file[i].stamp <= stamp
      /\ ~ damaged => \A i \in 1 .. Len(file) : ~ file[i].torn
  BY Zenon DEF IoInv, StampInv, DiskInv
<1>3. ~ damaged /\ ~ Rewriting => \A l \in saved : Recorded(l)
  BY Zenon DEF IoInv, DiskInv
<1> QED BY Zenon, <1>1, <1>2, <1>3 DEF Recorded

(* A start after dhcp_server_stop. *)
LEMMA RestartStep == ASSUME IoInv, Restart PROVE IoInv'
<1>1. Start(file) /\ damaged' = damaged /\ server \in {"saved", "unsaved"}
  BY Zenon DEF Restart
<1>2. ~ Rewriting /\ damaged' \in BOOLEAN
  BY Zenon, <1>1 DEF IoInv, StopInv, Rewriting, TypeOK
<1> QED BY Zenon, <1>1, <1>2, FileFacts, StartStep

(* A crash at any point, and the start after it. *)
LEMMA CrashStep == ASSUME IoInv, Crash PROVE IoInv'
<1>1. PICK k \in 0 .. Len(writer) :
        \/ /\ Start(Printed(file, SubSeq(writer, 1, k)))
           /\ damaged' = (damaged \/ Rewriting)
        \/ /\ thread = "writing" \/ server = "saving"
           /\ k < Len(Source)
           /\ \E ip \in Ips :
                Start(Joined(Printed(file, SubSeq(writer, 1, k)),
                             <<Block([Source[k + 1] EXCEPT !.ip = ip], TRUE)>>))
           /\ damaged' = TRUE
  BY Zenon DEF Crash
<1> DEFINE done == SubSeq(writer, 1, k)
           kept == Printed(file, done)
<1>2. writer \in Seq(Lease) /\ Len(writer) \in Nat
  BY Zenon, LenProperties DEF IoInv, TypeOK
<1>3. /\ done \in Seq(Lease) /\ Len(done) = k
      /\ \A i \in 1 .. k : done[i] = writer[i]
  BY Zenon, <1>2, PrefixFacts
<1> HIDE DEF done
<1>4. \A i \in 1 .. Len(done) : done[i].stamp <= stamp
  <2>1. \A i \in 1 .. k : i \in 1 .. Len(writer)
    BY <1>2
  <2> QED BY Zenon, <1>3, <2>1, WriterStamps
<1>5. kept \in Seq(Blocks) /\ \A i \in 1 .. Len(kept) : kept[i].stamp <= stamp
  BY Zenon, <1>3, <1>4, FileFacts, PrintedType
<1>6. CASE Start(kept) /\ damaged' = (damaged \/ Rewriting)
  <2>1. damaged' \in BOOLEAN /\ (~ damaged' => ~ damaged /\ ~ Rewriting)
    BY Zenon, <1>6
  <2>2. ASSUME ~ damaged, ~ Rewriting
        PROVE  /\ \A i \in 1 .. Len(kept) : ~ kept[i].torn
               /\ \A l \in saved : \E j \in 1 .. Len(kept) :
                    kept[j].ip = l.ip /\ kept[j].stamp >= l.stamp
    <3>1. ~ EndsTorn(file)
      BY <2>2, FileFacts, EmptySeq DEF EndsTorn
    <3>2. /\ Len(kept) = Len(file) + Len(done)
          /\ \A i \in 1 .. Len(file) : kept[i] = file[i]
          /\ \A i \in 1 .. Len(done) : kept[Len(file) + i] = Block(done[i], FALSE)
      BY Zenon, <1>3, <3>1, FileFacts, PrintedFacts
    <3> HIDE DEF kept
    <3>3. Len(file) \in Nat /\ Len(done) \in Nat
      BY <1>3, FileFacts
    <3>4. \A i \in 1 .. Len(kept) : i \in 1 .. Len(file) \/ i - Len(file) \in 1 .. Len(done)
      BY <3>2, <3>3
    <3>5. \A i \in 1 .. Len(kept) : Len(file) + (i - Len(file)) = i
      BY <3>2, <3>3
    <3>6. \A i \in 1 .. Len(done) : Block(done[i], FALSE).torn = FALSE
      BY Zenon, <1>3, BlockFacts, ElementOfSeq
    <3>7. \A i \in 1 .. Len(kept) : ~ kept[i].torn
      <4> TAKE i \in 1 .. Len(kept)
      <4>1. CASE i \in 1 .. Len(file)
        BY Zenon, <2>2, <3>2, <4>1, FileFacts
      <4>2. CASE i - Len(file) \in 1 .. Len(done)
        <5>1. kept[i] = Block(done[i - Len(file)], FALSE)
          BY Zenon, <3>2, <3>5, <4>2
        <5> QED BY Zenon, <3>6, <4>2, <5>1
      <4> QED BY Zenon, <3>4, <4>1, <4>2
    <3>8. \A i \in 1 .. Len(file) : i \in 1 .. Len(kept)
      BY <3>2, <3>3
    <3>9. \A l \in saved : \E j \in 1 .. Len(file) : file[j].ip = l.ip /\ file[j].stamp >= l.stamp
      BY Zenon, <2>2, FileFacts
    <3> QED BY Zenon, <3>2, <3>7, <3>8, <3>9
  <2> HIDE DEF kept
  <2> QED BY Zenon, <1>5, <1>6, <2>1, <2>2, StartStep
<1>7. CASE /\ thread = "writing" \/ server = "saving"
           /\ k < Len(Source)
           /\ \E ip \in Ips : Start(Joined(kept, <<Block([Source[k + 1] EXCEPT !.ip = ip], TRUE)>>))
           /\ damaged' = TRUE
  <2> HIDE DEF kept
  <2>1. PICK ip \in Ips : Start(Joined(kept, <<Block([Source[k + 1] EXCEPT !.ip = ip], TRUE)>>))
    BY Zenon, <1>7
  <2> DEFINE torn == Block([Source[k + 1] EXCEPT !.ip = ip], TRUE)
  <2>2. k + 1 \in 1 .. Len(Source) /\ Source \in Seq(Lease) /\ Source[k + 1].stamp <= stamp
    BY <1>2, <1>7, SourceFacts
  <2>3. Source[k + 1] \in Lease
    BY Zenon, <2>2, ElementOfSeq
  <2>4. /\ [Source[k + 1] EXCEPT !.ip = ip] \in Lease
        /\ [Source[k + 1] EXCEPT !.ip = ip].stamp = Source[k + 1].stamp
    BY Zenon, <2>3 DEF Lease
  <2>5. torn \in Blocks /\ torn.stamp <= stamp
    BY Zenon, <2>2, <2>4, BlockFacts
  <2> HIDE DEF torn
  <2>6. <<torn>> \in Seq(Blocks) /\ Len(<<torn>>) = 1 /\ <<torn>>[1] = torn
    BY <2>5
  <2>7. \A i \in 1 .. Len(<<torn>>) : <<torn>>[i].stamp <= stamp
    <3>1. \A i \in 1 .. 1 : i = 1
      OBVIOUS
    <3> QED BY Zenon, <2>5, <2>6, <3>1
  <2> DEFINE blocks == Joined(kept, <<torn>>)
  <2>8. blocks \in Seq(Blocks) /\ \A i \in 1 .. Len(blocks) : blocks[i].stamp <= stamp
    BY Zenon, <1>5, <2>6, <2>7, FileFacts, JoinedFacts
  <2>9. Start(blocks)
    BY Zenon, <2>1 DEF torn
  <2>10. damaged' = TRUE
    BY Zenon, <1>7
  <2> HIDE DEF blocks
  <2> QED BY Zenon, <2>8, <2>9, <2>10, StartStep
<1> QED BY Zenon, <1>1, <1>6, <1>7 DEF done

--------------------------------------------------------------------------------
(* The empty database and file satisfy the invariant. *)
LEMMA InitInv == Init => IoInv
<1> SUFFICES ASSUME Init PROVE IoInv
  BY Zenon
<1>1. /\ <<>> \in Seq(Lease) /\ <<>> \in Seq(Operations) /\ <<>> \in Seq(Blocks)
      /\ Len(<<>>) = 0 /\ DOMAIN <<>> = {} /\ 1 .. 0 = {}
  BY EmptySeq
<1>2. TypeOK
  <2>1. Len(queue) <= QueueSize
    BY <1>1, QueueSizeAssumption DEF Init
  <2>2. stamp \in 0 .. MaxStamp /\ ops \in 0 .. MaxOps /\ starts \in 0 .. MaxStarts
    BY BoundsAssumption DEF Init
  <2>3. op \in Operations
    BY Zenon, OperationFacts DEF Init
  <2> QED BY Zenon, <1>1, <2>1, <2>2, <2>3 DEF Init, TypeOK
<1>3. ~ Working /\ ~ Rewriting
  BY Zenon DEF Init, Working, Rewriting
<1>4. StopInv /\ CopyInv /\ WriterInv
  BY Zenon, <1>1, <1>3 DEF Init, StopInv, CopyInv, WriterInv
<1>5. StampInv /\ DiskInv
  BY Zenon, <1>1 DEF Init, StampInv, DiskInv
<1> QED BY Zenon, <1>2, <1>4, <1>5 DEF IoInv

(* Every step keeps the invariant. *)
LEMMA NextInv == IoInv /\ [Next]_vars => IoInv'
<1> SUFFICES ASSUME IoInv, [Next]_vars PROVE IoInv'
  BY Zenon
<1>1. CASE \E ip \in Ips : Change(ip)
  BY Zenon, <1>1, ChangeStep
<1>2. CASE (\E i \in DOMAIN db : QueueSaveLease(i)) \/ QueueSaveAll
  BY Zenon, <1>2, QueueStep
<1>3. CASE IoStep
  BY Zenon, <1>3, SleepStep, TakeStep, DropStep, OpenStep, PrintStep, IoCloseStep DEF IoStep
<1>4. CASE SpuriousWakeup
  BY Zenon, <1>4, SleepStep
<1>5. CASE StopBegin
  BY Zenon, <1>5, StopBeginStep
<1>6. CASE StopStep
  BY Zenon, <1>6, StopReturnStep, OpenStep, PrintStep, FinalCloseStep DEF StopStep
<1>7. CASE Restart
  BY Zenon, <1>7, RestartStep
<1>8. CASE Crash
  BY Zenon, <1>8, CrashStep
<1>9. CASE UNCHANGED vars
  <2>1. /\ db' = db /\ queue' = queue /\ running' = running /\ thread' = thread /\ op' = op
        /\ server' = server /\ writer' = writer /\ file' = file /\ saved' = saved
        /\ promised' = promised /\ damaged' = damaged /\ full' = full /\ stamp' = stamp
        /\ ops' = ops /\ starts' = starts
    BY Zenon, <1>9 DEF vars
  <2>2. TypeOK'
    BY Zenon, <2>1 DEF IoInv, TypeOK
  <2>3. StopInv' /\ CopyInv'
    BY Zenon, <2>1, QueueUntouched DEF Working
  <2>4. WriterInv' /\ StampInv' /\ DiskInv'
    BY Zenon, <2>1, FileUntouched DEF Rewriting
  <2> QED BY Zenon, <2>2, <2>3, <2>4 DEF IoInv
<1> QED BY Zenon, <1>1, <1>2, <1>3, <1>4, <1>5, <1>6, <1>7, <1>8, <1>9 DEF Next

(* IoInv holds throughout. *)
THEOREM Invariance == Spec => []IoInv
BY InitInv, NextInv, PTL DEF Spec

(***************************************************************************)
(* Queue, file, database and history of the lease writer keep their types, *)
(* across crashes that tear a block and the loads that follow.             *)
(***************************************************************************)
THEOREM TypeCorrect == Spec => []TypeOK
<1>1. IoInv => TypeOK
  BY Zenon DEF IoInv
<1> QED BY Invariance, <1>1, PTL

(***************************************************************************)
(* A lease whose save succeeded stays in the lease file, at least as       *)
(* recent, unless a crash hit a rewrite or tore a block.                   *)
(***************************************************************************)
THEOREM SavedStays == Spec => []SavedStaysOnDisk
<1>1. IoInv => SavedStaysOnDisk
  BY Zenon DEF IoInv, DiskInv, Recorded, SavedStaysOnDisk
<1> QED BY Invariance, <1>1, PTL

(***************************************************************************)
(* After dhcp_server_stop with a final save, the next load reads exactly   *)
(* the database, whatever crashes had left in the file.                    *)
(***************************************************************************)
THEOREM CleanStop == Spec => []CleanStopSavesAll
<1>1. IoInv => CleanStopSavesAll
  <2> SUFFICES ASSUME IoInv, server = "saved" PROVE Loaded(file) = db
    BY Zenon DEF CleanStopSavesAll
  <2>1. /\ db \in Seq(Lease) /\ Len(db) \in Nat /\ file \in Seq(Blocks) /\ Len(file) = Len(db)
        /\ \A i \in 1 .. Len(db) : file[i] = Block(db[i], FALSE)
    BY Zenon, LenProperties DEF IoInv, TypeOK, WriterInv
  <2>2. \A i \in 1 .. Len(db) : db[i] \in Lease
    BY Zenon, <2>1, ElementOfSeq
  <2>3. \A i \in 1 .. Len(db) : file[i].ip = db[i].ip /\ file[i].stamp = db[i].stamp
                                /\ file[i].torn = FALSE
    <3> TAKE i \in 1 .. Len(db)
    <3>1. file[i] = Block(db[i], FALSE) /\ db[i] \in Lease /\ FALSE \in BOOLEAN
      BY Zenon, <2>1, <2>2
    <3> QED BY <3>1, BlockFacts, Zenon
  <2>4. ~ EndsTorn(file)
    <3>1. file # <<>> => Len(file) \in 1 .. Len(db)
      BY <2>1, EmptySeq
    <3> QED BY Zenon, <2>3, <3>1 DEF EndsTorn
  <2>5. \A i \in 1 .. Len(db) : db[i] = [ip |-> db[i].ip, stamp |-> db[i].stamp]
    BY Zenon, <2>2 DEF Lease
  <2>6. /\ Loaded(file) \in Seq(Lease) /\ Len(Loaded(file)) = Len(db)
        /\ \A i \in 1 .. Len(db) : Loaded(file)[i] = [ip |-> file[i].ip, stamp |-> file[i].stamp]
    BY <2>1, <2>4, LoadedFacts
  <2>7. \A i \in 1 .. Len(db) : Loaded(file)[i] = db[i]
    BY Zenon, <2>3, <2>5, <2>6
  <2> QED BY Zenon, <2>1, <2>6, <2>7, SeqEqual
<1> QED BY Invariance, <1>1, PTL

(***************************************************************************)
(* When lease_io_stop has returned, every lease queued before it was       *)
(* called has been dealt with.                                             *)
(***************************************************************************)
THEOREM StopDrains == Spec => []StopDrainsQueue
<1>1. IoInv => StopDrainsQueue
  BY Zenon DEF IoInv, StopInv, StopDrainsQueue
<1> QED BY Invariance, <1>1, PTL
================================================================================
