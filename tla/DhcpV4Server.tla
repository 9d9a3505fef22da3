------------------------------ MODULE DhcpV4Server -----------------------------
(***************************************************************************)
(* The DHCPv4 server at work: the worker threads of main.c running         *)
(* packet_processor, the lease timer and the pool synchronisation thread,  *)
(* the address pool and the lease database they share, the lease file      *)
(* across restarts, and the clients.                                       *)
(*                                                                         *)
(* The pool is protected by pool->mutex, so its operations are steps.  The *)
(* lease database is not: packet_processor calls the lease_db functions    *)
(* without db_mutex, which only the timer and the synchronisation thread   *)
(* take.  Their accesses are therefore separate steps wherever another     *)
(* thread's could change the outcome.                                      *)
(*                                                                         *)
(* There is no clock: a lease has run out (end_time < now) once            *)
(* LeaseRunsOut has said so.  An address of a lease is that of the pool's  *)
(* range or of a host reservation; 0 is no address.                        *)
(***************************************************************************)
EXTENDS IpPoolOps

CONSTANTS Workers,      \* the threads of the pool that run packet_processor
          Requests,     \* requested-address options of a DISCOVER; 0 if there is none
          MaxLeases,    \* MAX_LEASES
          MaxPackets,   \* bound on the packets received in a behaviour
          MaxRestarts   \* bound on the stops and crashes of a behaviour

ASSUME RequestsAssumption == Requests \subseteq Ips \union {0}
ASSUME MaxLeasesAssumption == MaxLeases \in Nat
ASSUME BoundsAssumption == MaxPackets \in Nat /\ MaxRestarts \in Nat

VARIABLES pool,         \* the pool of the subnet
          leases,       \* lease_db->leases
          lease_count,  \* lease_db->lease_count
          workers,      \* what each worker is doing
          timer,        \* the slot the timer thread is about to mark expired
          sync,         \* the position of the synchronisation thread in its loop
          saved,        \* the leases in the lease file
          offer,        \* clients: the address of the offer accepted, or 0
          held,         \* clients: the address in use, or 0
          races,        \* history: the unsynchronised overlaps that happened
          packets, restarts

vars == <<pool, leases, lease_count, workers, timer, sync, saved, offer, held,
          races, packets, restarts>>

Slots == 0 .. MaxLeases - 1
None == MaxLeases
Addresses == Ips \union {Hosts[m] : m \in DOMAIN Hosts}

Lease == [ip : Addresses \union {0}, mac : Macs \union {NoMac}, state : LeaseStates,
          over : BOOLEAN]

NoLease == [ip |-> 0, mac |-> NoMac, state |-> "FREE", over |-> FALSE]

(* lease_count passes MAX_LEASES when workers that saw room for one lease each
   count theirs.  The memory behind the array is not that of a lease of the
   pool, and is read as none. *)
LeaseAt(i) == IF i \in Slots THEN leases[i] ELSE NoLease

(* A worker: pc, the client and the address of the packet it handles, the lease
   it has a pointer to, the lease_count it has read, and whether the client
   still waits for a reply with this packet's xid. *)
PCs == {"idle", "discover", "allocate", "bind", "clear", "fill", "publish", "rollback",
        "offer", "request", "ack", "nak", "renew", "release", "free"}

Idle == [pc |-> "idle", mac |-> NoMac, ip |-> 0, slot |-> None, n |-> 0,
         xid |-> FALSE]

Adding == {"clear", "fill", "publish"}

TypeOK ==
    /\ pool \in Pools
    /\ leases \in [Slots -> Lease]
    /\ lease_count \in Nat
    /\ workers \in [Workers -> [pc : PCs, mac : Macs \union {NoMac},
                                ip : Addresses \union {0}, slot : Slots \union {None},
                                n : Nat, xid : BOOLEAN]]
    /\ timer \in Slots \union {None}
    /\ sync \in [at : Nat, expiring : BOOLEAN, running : BOOLEAN]
    /\ saved \in [leases : [Slots -> Lease], count : Nat]
    /\ offer \in [Macs -> Addresses \union {0}]
    /\ held \in [Macs -> Addresses \union {0}]
    /\ races \subseteq {"add", "expire", "release", "crash"}
    /\ packets \in 0 .. MaxPackets
    /\ restarts \in 0 .. MaxRestarts

--------------------------------------------------------------------------------
(* The lease database. *)

FirstSlot(S) == IF S = {} THEN None ELSE CHOOSE i \in S : \A j \in S : i <= j

lease_db_find_by_ip(ip) == FirstSlot({i \in Slots : i < lease_count /\ leases[i].ip = ip})

lease_db_find_by_mac(mac) == FirstSlot({i \in Slots : i < lease_count /\ leases[i].mac = mac})

Renewed(i) == [leases EXCEPT ![i].state = "ACTIVE", ![i].over = FALSE]

Released(i) == [leases EXCEPT ![i].state = "RELEASED", ![i].over = FALSE]

Expired(i) == [leases EXCEPT ![i].state = "EXPIRED", ![i].over = FALSE]

RunOut(i) == i < lease_count /\ LeaseAt(i).state = "ACTIVE" /\ LeaseAt(i).over

(* A renewal of lease i overlaps a thread that has found it run out and is about
   to say so, or a release of its address that waits in another worker. *)
RenewalRaces(i) ==
    (IF timer = i \/ (sync.expiring /\ sync.at = i) THEN {"expire"} ELSE {})
      \union (IF \E w \in Workers : /\ workers[w].pc \in {"release", "free"}
                                    /\ workers[w].ip = leases[i].ip
              THEN {"release"} ELSE {})

PoolUnlocked == ~ sync.running

Init ==
    /\ pool = ConfiguredPool
    /\ leases = [i \in Slots |-> NoLease]
    /\ lease_count = 0
    /\ workers = [w \in Workers |-> Idle]
    /\ timer = None
    /\ sync = [at |-> 0, expiring |-> FALSE, running |-> FALSE]
    /\ saved = [leases |-> [i \in Slots |-> NoLease], count |-> 0]
    /\ offer = [m \in Macs |-> 0]
    /\ held = [m \in Macs |-> 0]
    /\ races = {}
    /\ packets = 0
    /\ restarts = 0

--------------------------------------------------------------------------------
(* Packets.  A packet of a client is taken by an idle worker; what a client may
   send follows from its state, and it may send it again at any time. *)

(* The workers once client m has started over, with another xid. *)
Forgotten(m) ==
    [w \in Workers |-> IF workers[w].mac = m THEN [workers[w] EXCEPT !.xid = FALSE]
                       ELSE workers[w]]

Receive(w, pc, m, ip) ==
    /\ workers[w].pc = "idle"
    /\ packets < MaxPackets
    /\ packets' = packets + 1
    /\ workers' = [(IF pc = "release" THEN Forgotten(m) ELSE workers) EXCEPT
                     ![w] = [Idle EXCEPT !.pc = pc, !.mac = m, !.ip = ip,
                                         !.xid = (pc # "release")]]
    /\ UNCHANGED <<pool, leases, lease_count, timer, sync, saved, races, restarts>>

ReceiveDiscover(w, m, requested) ==
    /\ held[m] = 0
    /\ Receive(w, "discover", m, requested)
    /\ UNCHANGED <<offer, held>>

ReceiveRequest(w, m) ==
    /\ held[m] = 0 /\ offer[m] # 0
    /\ Receive(w, "request", m, offer[m])
    /\ UNCHANGED <<offer, held>>

ReceiveRenewal(w, m) ==
    /\ held[m] # 0
    /\ Receive(w, "renew", m, held[m])
    /\ UNCHANGED <<offer, held>>

ReceiveRelease(w, m) ==
    /\ held[m] # 0
    /\ Receive(w, "release", m, held[m])
    /\ held' = [held EXCEPT ![m] = 0]
    /\ UNCHANGED offer

Become(w, new) == workers' = [workers EXCEPT ![w] = new]

Others == <<timer, sync, saved, offer, held, packets, restarts>>

(* DISCOVER: a lease of this client, in whatever state ... *)
Discover(w) ==
    LET me == workers[w]
        i == lease_db_find_by_mac(me.mac)
    IN  /\ me.pc = "discover"
        /\ Become(w, [me EXCEPT !.pc = IF i = None THEN "allocate" ELSE "offer", !.slot = i])
        /\ UNCHANGED <<pool, leases, lease_count, races, Others>>

(* ... or an address of the pool (ip_pool_allocate) ... *)
Allocate(w) ==
    LET me == workers[w]
        known == Known(pool, me.mac)
        fresh == Fresh(pool, me.ip)
    IN  /\ me.pc = "allocate"
        /\ PoolUnlocked
        /\ \/ /\ known # 0
              /\ Become(w, [me EXCEPT !.pc = "bind", !.ip = known])
              /\ UNCHANGED pool
           \/ /\ known = 0 /\ fresh # 0
              /\ Become(w, [me EXCEPT !.pc = "bind", !.ip = fresh])
              /\ pool' = Take(pool, fresh, me.mac)
           \/ /\ known = 0 /\ fresh = 0
              /\ Become(w, Idle)
              /\ UNCHANGED pool
        /\ UNCHANGED <<leases, lease_count, races, Others>>

(* ... whose lease is renewed if it has one, whoever's it is, or else added: the
   slot behind the last one is picked, cleared, filled and then counted. *)
\* Mutation of Bind: no look-up of a lease the address already has.
BindAlwaysAdds(w) ==
    LET me == workers[w]
    IN  /\ me.pc = "bind"
        /\ lease_count < MaxLeases
        /\ Become(w, [me EXCEPT !.pc = "clear", !.slot = lease_count])
        /\ UNCHANGED <<pool, leases, lease_count, races, Others>>

Bind(w) ==
    LET me == workers[w]
        i == lease_db_find_by_ip(me.ip)
    IN  /\ me.pc = "bind"
        /\ \/ /\ i # None
              /\ leases' = Renewed(i)
              /\ races' = races \union RenewalRaces(i)
              /\ Become(w, [me EXCEPT !.pc = "offer", !.slot = i])
           \/ /\ i = None /\ lease_count < MaxLeases
              /\ Become(w, [me EXCEPT !.pc = "clear", !.slot = lease_count])
              /\ races' = races \union
                            (IF \E v \in Workers \ {w} : workers[v].pc \in Adding
                             THEN {"add"} ELSE {})
              /\ UNCHANGED leases
           \/ /\ i = None /\ lease_count >= MaxLeases
              /\ Become(w, [me EXCEPT !.pc = "rollback"])
              /\ UNCHANGED <<leases, races>>
        /\ UNCHANGED <<pool, lease_count, Others>>

Clear(w) ==
    LET me == workers[w]
    IN  /\ me.pc = "clear"
        /\ leases' = [leases EXCEPT ![me.slot] = [NoLease EXCEPT !.ip = me.ip]]
        /\ Become(w, [me EXCEPT !.pc = "fill"])
        /\ UNCHANGED <<pool, lease_count, races, Others>>

Fill(w) ==
    LET me == workers[w]
    IN  /\ me.pc = "fill"
        /\ leases' = [leases EXCEPT ![me.slot].mac = me.mac, ![me.slot].state = "ACTIVE",
                                    ![me.slot].over = FALSE]
        /\ Become(w, [me EXCEPT !.pc = "publish", !.n = lease_count])
        /\ UNCHANGED <<pool, lease_count, races, Others>>

(* lease_count++ stores the successor of the value read. *)
\* Mutation of Publish: lease_count is not incremented.
PublishForgets(w) ==
    LET me == workers[w]
    IN  /\ me.pc = "publish"
        /\ Become(w, [me EXCEPT !.pc = "offer", !.n = 0])
        /\ UNCHANGED <<pool, leases, lease_count, races, Others>>

Publish(w) ==
    LET me == workers[w]
    IN  /\ me.pc = "publish"
        /\ lease_count' = me.n + 1
        /\ Become(w, [me EXCEPT !.pc = "offer", !.n = 0])
        /\ UNCHANGED <<pool, leases, races, Others>>

\* Mutation of Rollback: the address is not given back when the database is full.
RollbackForgets(w) ==
    /\ workers[w].pc = "rollback"
    /\ Become(w, Idle)
    /\ UNCHANGED <<pool, leases, lease_count, races, Others>>

Rollback(w) ==
    /\ workers[w].pc = "rollback"
    /\ PoolUnlocked
    /\ pool' = ip_pool_release_ip(pool, workers[w].ip)
    /\ Become(w, Idle)
    /\ UNCHANGED <<leases, lease_count, races, Others>>

(* The replies are filled in from the lease the worker points to, and may be
   lost.  A client takes an offer while it has no address and an
   acknowledgement while it is requesting. *)
Offer(w) ==
    LET me == workers[w]
    IN  /\ me.pc = "offer"
        /\ \/ /\ me.xid /\ held[me.mac] = 0
              /\ offer' = [offer EXCEPT ![me.mac] = leases[me.slot].ip]
           \/ UNCHANGED offer
        /\ Become(w, Idle)
        /\ UNCHANGED <<pool, leases, lease_count, races, timer, sync, saved, held, packets, restarts>>

(* REQUEST with a server identifier. *)
\* Mutation of Request: any lease of the address is confirmed.
RequestAnyMac(w) ==
    LET me == workers[w]
        i == lease_db_find_by_ip(me.ip)
    IN  /\ me.pc = "request"
        /\ i # None
        /\ leases' = Renewed(i)
        /\ races' = races \union RenewalRaces(i)
        /\ Become(w, [me EXCEPT !.pc = "ack", !.slot = i])
        /\ UNCHANGED <<pool, lease_count, Others>>

\* Mutation of Request: the lease is confirmed but not renewed.
RequestNotRenewed(w) ==
    LET me == workers[w]
        i == lease_db_find_by_ip(me.ip)
    IN  /\ me.pc = "request"
        /\ i # None /\ leases[i].mac = me.mac
        /\ Become(w, [me EXCEPT !.pc = "ack", !.slot = i])
        /\ UNCHANGED <<pool, leases, lease_count, races, Others>>

Request(w) ==
    LET me == workers[w]
        i == lease_db_find_by_ip(me.ip)
        mine == i # None /\ leases[i].mac = me.mac
    IN  /\ me.pc = "request"
        /\ \/ /\ mine
              /\ leases' = Renewed(i)
              /\ races' = races \union RenewalRaces(i)
              /\ Become(w, [me EXCEPT !.pc = "ack", !.slot = i])
           \/ /\ ~ mine
              /\ Become(w, [me EXCEPT !.pc = "nak"])
              /\ UNCHANGED <<leases, races>>
        /\ UNCHANGED <<pool, lease_count, Others>>

Ack(w) ==
    LET me == workers[w]
    IN  /\ me.pc = "ack"
        /\ \/ /\ me.xid /\ held[me.mac] = 0 /\ offer[me.mac] # 0
              /\ held' = [held EXCEPT ![me.mac] = leases[me.slot].ip]
              /\ offer' = [offer EXCEPT ![me.mac] = 0]
           \/ UNCHANGED <<held, offer>>
        /\ Become(w, Idle)
        /\ UNCHANGED <<pool, leases, lease_count, races, timer, sync, saved, packets, restarts>>

Nak(w) ==
    LET me == workers[w]
    IN  /\ me.pc = "nak"
        /\ \/ offer' = [offer EXCEPT ![me.mac] = 0]
           \/ UNCHANGED offer
        /\ Become(w, Idle)
        /\ UNCHANGED <<pool, leases, lease_count, races, timer, sync, saved, held, packets, restarts>>

(* REQUEST without one: the lease of ciaddr is renewed and acknowledged. *)
Renew(w) ==
    LET i == lease_db_find_by_ip(workers[w].ip)
    IN  /\ workers[w].pc = "renew"
        /\ \/ /\ i # None
              /\ leases' = Renewed(i)
              /\ races' = races \union RenewalRaces(i)
           \/ /\ i = None
              /\ UNCHANGED <<leases, races>>
        /\ Become(w, Idle)
        /\ UNCHANGED <<pool, lease_count, Others>>

(* RELEASE: first the lease, then the entry of the pool. *)
\* Mutation of Release: the lease is taken out of the database, found or not.
ReleaseRemoves(w) ==
    /\ workers[w].pc = "release"
    /\ lease_count' = lease_count - 1
    /\ Become(w, [workers[w] EXCEPT !.pc = "free"])
    /\ UNCHANGED <<pool, leases, races, Others>>

Release(w) ==
    LET me == workers[w]
        i == lease_db_find_by_ip(me.ip)
    IN  /\ me.pc = "release"
        /\ leases' = IF i = None THEN leases ELSE Released(i)
        /\ Become(w, [me EXCEPT !.pc = "free"])
        /\ UNCHANGED <<pool, lease_count, races, Others>>

Free(w) ==
    /\ workers[w].pc = "free"
    /\ PoolUnlocked
    /\ pool' = ip_pool_release_ip(pool, workers[w].ip)
    /\ Become(w, Idle)
    /\ UNCHANGED <<leases, lease_count, races, Others>>

WorkerStep(w) ==
    \/ Discover(w) \/ Allocate(w) \/ Bind(w) \/ Clear(w) \/ Fill(w) \/ Publish(w)
    \/ Rollback(w) \/ Offer(w) \/ Request(w) \/ Ack(w) \/ Nak(w) \/ Renew(w)
    \/ Release(w) \/ Free(w)

--------------------------------------------------------------------------------
(* The lease timer: lease_db_expire_old_leases under db_mutex, which finds a
   lease run out and then marks it. *)
TimerFinds(i) ==
    /\ timer = None /\ ~ sync.running
    /\ RunOut(i)
    /\ timer' = i
    /\ UNCHANGED <<pool, leases, lease_count, workers, sync, saved, offer, held, races,
                   packets, restarts>>

TimerMarks ==
    /\ timer # None
    /\ leases' = Expired(timer)
    /\ timer' = None
    /\ UNCHANGED <<pool, lease_count, workers, sync, saved, offer, held, races, packets, restarts>>

(* The synchronisation thread, one turn of its loop at a time; it holds the
   pool's mutex and db_mutex all along.  A lease it finds run out is marked in a
   step of its own. *)
SyncBegin ==
    /\ ~ sync.running /\ timer = None
    /\ sync' = [at |-> 0, expiring |-> FALSE, running |-> TRUE]
    /\ UNCHANGED <<pool, leases, lease_count, workers, timer, saved, offer, held, races,
                   packets, restarts>>

Skipped(ip) == ip \in Ips => pool.state[ip] \in {"RESERVED", "EXCLUDED"}

SyncFinds ==
    /\ sync.running /\ ~ sync.expiring
    /\ sync.at < lease_count
    /\ RunOut(sync.at) /\ ~ Skipped(LeaseAt(sync.at).ip)
    /\ sync' = [sync EXCEPT !.expiring = TRUE]
    /\ UNCHANGED <<pool, leases, lease_count, workers, timer, saved, offer, held, races,
                   packets, restarts>>

SyncMarks ==
    /\ sync.expiring
    /\ leases' = Expired(sync.at)
    /\ sync' = [sync EXCEPT !.expiring = FALSE]
    /\ UNCHANGED <<pool, lease_count, workers, timer, saved, offer, held, races, packets, restarts>>

\* Mutation of SyncTurn: only leases that have expired are applied.
SyncTurnExpiredOnly ==
    LET lease == LeaseAt(sync.at)
    IN  /\ sync.running /\ ~ sync.expiring
        /\ sync.at < lease_count
        /\ RunOut(sync.at) => Skipped(lease.ip)
        /\ pool' = IF lease.state = "ACTIVE" THEN pool
                   ELSE SyncEntry(pool, lease.ip, lease.state, lease.mac)
        /\ sync' = [sync EXCEPT !.at = @ + 1]
        /\ UNCHANGED <<leases, lease_count, workers, timer, saved, offer, held, races,
                       packets, restarts>>

\* Mutation of SyncTurn: only active leases are applied.
SyncTurnActiveOnly ==
    LET lease == LeaseAt(sync.at)
    IN  /\ sync.running /\ ~ sync.expiring
        /\ sync.at < lease_count
        /\ RunOut(sync.at) => Skipped(lease.ip)
        /\ pool' = IF lease.state # "ACTIVE" THEN pool
                   ELSE SyncEntry(pool, lease.ip, lease.state, lease.mac)
        /\ sync' = [sync EXCEPT !.at = @ + 1]
        /\ UNCHANGED <<leases, lease_count, workers, timer, saved, offer, held, races,
                       packets, restarts>>

SyncTurn ==
    LET lease == LeaseAt(sync.at)
    IN  /\ sync.running /\ ~ sync.expiring
        /\ sync.at < lease_count
        /\ RunOut(sync.at) => Skipped(lease.ip)
        /\ pool' = SyncEntry(pool, lease.ip, lease.state, lease.mac)
        /\ sync' = [sync EXCEPT !.at = @ + 1]
        /\ UNCHANGED <<leases, lease_count, workers, timer, saved, offer, held, races,
                       packets, restarts>>

SyncEnd ==
    /\ sync.running /\ ~ sync.expiring
    /\ sync.at >= lease_count
    /\ sync' = [at |-> 0, expiring |-> FALSE, running |-> FALSE]
    /\ UNCHANGED <<pool, leases, lease_count, workers, timer, saved, offer, held, races,
                   packets, restarts>>

SyncStep == SyncBegin \/ SyncFinds \/ SyncMarks \/ SyncTurn \/ SyncEnd

--------------------------------------------------------------------------------
(* The environment.  A client keeps its address for as long as its lease lasts,
   may stop using it at any time, and a reply is not delayed by a whole lease
   time. *)
LeaseRunsOut(i) ==
    /\ i < lease_count
    /\ leases[i].state = "ACTIVE" /\ ~ leases[i].over
    /\ \A m \in Macs : held[m] # leases[i].ip
    /\ \A w \in Workers : ~ (workers[w].pc \in {"offer", "ack"} /\ workers[w].slot = i)
    /\ leases' = [leases EXCEPT ![i].over = TRUE]
    /\ UNCHANGED <<pool, lease_count, workers, timer, sync, saved, offer, held, races,
                   packets, restarts>>

ClientStartsOver(m) ==
    /\ held[m] # 0 \/ offer[m] # 0
    /\ held' = [held EXCEPT ![m] = 0]
    /\ offer' = [offer EXCEPT ![m] = 0]
    /\ workers' = Forgotten(m)
    /\ UNCHANGED <<pool, leases, lease_count, timer, sync, saved, races, packets, restarts>>

(* Start-up with a lease file: the leases are loaded, ip_pool_init marks those
   that have run out and applies each of them to the configured pool. *)
Loaded(image) ==
    [i \in Slots |-> IF i < image.count /\ image.leases[i].state = "ACTIVE"
                                       /\ image.leases[i].over
                     THEN [image.leases[i] EXCEPT !.state = "EXPIRED", !.over = FALSE]
                     ELSE IF i < image.count THEN image.leases[i] ELSE NoLease]

ip_pool_init(image) ==
    LET after[n \in 0 .. MaxLeases] ==
          IF n = 0 THEN ConfiguredPool
          ELSE LET lease == Loaded(image)[n - 1]
               IN  InitFromLease(after[n - 1], lease.ip, lease.state, lease.mac)
    IN  after[MaxLeases]

Start(image) ==
    /\ restarts < MaxRestarts
    /\ restarts' = restarts + 1
    /\ leases' = Loaded(image)
    /\ lease_count' = IF image.count > MaxLeases THEN MaxLeases ELSE image.count
    /\ pool' = ip_pool_init(image)
    /\ workers' = [w \in Workers |-> Idle]
    /\ timer' = None
    /\ sync' = [at |-> 0, expiring |-> FALSE, running |-> FALSE]
    /\ saved' = image
    /\ UNCHANGED <<offer, held, packets>>

(* A clean stop lets the workers finish, joins the other threads and saves the
   database; nothing else ever writes the lease file.  Then the server is
   started again. *)
\* Mutation of StopAndStart: the final save is left out.
StopWithoutSave ==
    /\ \A w \in Workers : workers[w].pc = "idle"
    /\ timer = None /\ ~ sync.running
    /\ Start(saved)
    /\ UNCHANGED races

StopAndStart ==
    /\ \A w \in Workers : workers[w].pc = "idle"
    /\ timer = None /\ ~ sync.running
    /\ Start([leases |-> leases, count |-> lease_count])
    /\ UNCHANGED races

CrashAndStart ==
    /\ Start(saved)
    /\ races' = races \union {"crash"}

Next ==
    \/ \E w \in Workers : WorkerStep(w)
    \/ \E w \in Workers, m \in Macs :
         \/ \E requested \in Requests : ReceiveDiscover(w, m, requested)
         \/ ReceiveRequest(w, m)
         \/ ReceiveRenewal(w, m)
         \/ ReceiveRelease(w, m)
    \/ \E i \in Slots : TimerFinds(i) \/ LeaseRunsOut(i)
    \/ TimerMarks
    \/ SyncStep
    \/ \E m \in Macs : ClientStartsOver(m)
    \/ StopAndStart
    \/ CrashAndStart

Spec == Init /\ [][Next]_vars

(* The threads keep running: the condition variables of the two background
   threads time out, and no worker waits for anything but the pool's mutex. *)
Fairness ==
    /\ \A w \in Workers : WF_vars(WorkerStep(w))
    /\ WF_vars(TimerMarks)
    /\ WF_vars(SyncStep)

FairSpec == Spec /\ Fairness

--------------------------------------------------------------------------------
(***************************************************************************)
(* No two clients use the same address, as long as no two workers added a  *)
(* lease at the same time (lease_db_add_lease without db_mutex) and no     *)
(* crash lost leases that had been acknowledged.                           *)
(***************************************************************************)
OneHolderPerAddress ==
    races \intersect {"add", "crash"} = {} =>
      \A m, n \in Macs : m # n /\ held[m] # 0 => held[m] # held[n]

(***************************************************************************)
(* An address in use is backed by the lease that find_by_ip returns for    *)
(* it: active, not run out, and in the name of its user, whatever releases *)
(* and expiries of other leases, offers to other clients and clean         *)
(* restarts came in between.  The exceptions are the overlaps that         *)
(* db_mutex, not taken by packet_processor, would exclude, and a release   *)
(* overtaken by a later packet of the same client.                         *)
(***************************************************************************)
HeldIsLeased ==
    races = {} => \A m \in Macs : held[m] # 0 =>
      LET i == lease_db_find_by_ip(held[m])
      IN  i # None /\ leases[i].mac = m /\ leases[i].state = "ACTIVE" /\ ~ leases[i].over

(***************************************************************************)
(* The lease database has one lease per address, the uniqueness that       *)
(* find_by_ip (first match) takes for granted and nothing in               *)
(* lease_db_add_lease checks: it follows from the order in which workers   *)
(* allocate, look up and add, and from what the synchronisation thread     *)
(* leaves alone in between.                                                *)
(***************************************************************************)
LeasesAreUnique ==
    "add" \notin races =>
      \A i, j \in Slots : i < j /\ j < lease_count =>
        leases[i].ip # leases[j].ip

(***************************************************************************)
(* No address leaks: an allocated entry of the pool has a lease, by whose  *)
(* end it becomes available again, or a worker that is about to give it    *)
(* one or to roll the allocation back (ip_pool_allocate_and_create_lease). *)
(***************************************************************************)
NoAddressLeak ==
    "add" \notin races =>
      \A ip \in With(pool, "ALLOCATED") :
        \/ lease_db_find_by_ip(ip) # None
        \/ \E w \in Workers : /\ workers[w].ip = ip
                              /\ workers[w].pc \in Adding \union {"bind", "rollback"}

(***************************************************************************)
(* "Each will get a unique IP from the pool" (CROSS_MACHINE_TESTING.md).   *)
(***************************************************************************)
UniqueAddresses ==
    \A m, n \in Macs : m # n /\ held[m] # 0 => held[m] # held[n]

(***************************************************************************)
(* A client that requests the address it was offered has it confirmed:     *)
(* step 4 of the DORA exchange in documentatie.tex.  (Not after an overlap *)
(* that races records.)                                                    *)
(***************************************************************************)
OfferIsConfirmed ==
    races = {} => \A w \in Workers :
      ~ (workers[w].pc = "nak" /\ workers[w].xid /\ workers[w].ip = offer[workers[w].mac])

(***************************************************************************)
(* Released and expired leases are reflected in the pool (ip_pool.h): the  *)
(* entry becomes available, unless the lease is renewed first.             *)
(***************************************************************************)
EndedLeaseFreesEntry ==
    \A i \in Slots :
      (i < lease_count /\ leases[i].state \in {"EXPIRED", "RELEASED"} /\ ~ Skipped(leases[i].ip))
        ~> \/ i >= lease_count
           \/ leases[i].state = "ACTIVE"
           \/ Skipped(leases[i].ip)
           \/ pool.state[leases[i].ip] = "AVAILABLE"

(***************************************************************************)
(* The entry of an address in use becomes allocated: DISCOVER finds a      *)
(* lease that has expired or was released without going back to the pool,  *)
(* and it is the synchronisation thread that makes up for it.              *)
(***************************************************************************)
UsedEntryIsAllocated ==
    \A m \in Macs, ip \in Ips :
      (held[m] = ip /\ races = {})
        ~> (held[m] # ip \/ races # {} \/ pool.state[ip] \in {"ALLOCATED", "RESERVED"})
================================================================================
