# Verification of the DHCP and DNS servers

TLA+ modules that model this repository's network services, the TLC
configurations that check them on small instances, and theorems checked by
TLAPS. `PROJECT.json` maps every definition to the lines it models and lists
the runs, mutants, findings, hazards and theorems.

## The system

| Part | Code | Model |
| --- | --- | --- |
| v4 thread pool: bounded queue, workers, graceful or immediate shutdown | `DHCPv4/utils/thread_pool.c` | `ThreadPool`, `TaskQueue` |
| v4 address pool: entries of a subnet's range, two counters, a mutex | `DHCPv4/src/ip_pool.c` | `IpPoolOps`, `IpPool` |
| v4 packet processing, lease database, timer, pool synchronisation | `DHCPv4/src/main.c`, `dhcp_message.c`, `lease_v4.c`, `ip_pool.c` | `DhcpV4Server` |
| v4 process: start, threads, signal, shutdown | `main.c`, `lease_v4.c`, `ip_pool.c` | `DhcpV4Main` |
| v4 asynchronous lease writer | `lease_v4.c` (`lease_io_*`) | `LeaseIo` |
| v6 lease database and its file | `DHCPv6/sources/leases6.c` | `Lease6Ops` |
| v6 address and prefix pools | `ip6_pool.c`, `pd_pool.c` | `Ip6PoolOps`, `PdPoolOps` |
| v6 packet processing and cleanup | `server.c`, `protocol_v6.c` | `DhcpV6Server` |
| v6 packet queue, workers, cleaner, shutdown; logger | `server.c`, `logger/logger.c` | `DhcpV6Agent` |
| clients | `client/client_v4.c`, `client_v6.c` | `DhcpV4Client`, `DhcpV6Client` |
| DNS: zones, cache, query loop, upstream | `DNS_Server/sources` | `DnsServer` |

A v4 packet travels from `main` through the thread pool to a worker, which runs
`packet_processor`: it looks up or creates a lease (address pool first, then
database) and answers. Beside the workers, the timer marks leases that have run
out and the synchronisation thread copies lease states into the pool. The pool
has a mutex that all of them take. The database has one too, but
`packet_processor` does not take it.

A v6 packet goes through a queue to a worker, which runs `process_packet` under
`ctx.db_lock`; the cleanup thread holds the same lock for a whole round. Leases
are appended to the file as they are made, and the file is replaced when leases
end. The clients talk to these servers over UDP. The DNS server is a
single loop: cache, then zones, then the upstream server.

## Modules

**ThreadPool** has the fields of `thread_pool_t` (`queue`, `head`, `tail`,
`count`, `shutdown`), the mutex when somebody leaves it locked, the life of the
pool, and per worker a position and the task in hand. One action per critical
section: `AddAccepted`/`AddRefused`, `DestroyBegin`, `DestroyReturns` (the
joins), `DestroyAgain`, `WorkerWaits`, `WorkerTakes`, `WorkerExits`; creation is
stepwise because workers start before it ends and it may fail. A signal wakes at
least one waiting worker and may wake more; a wakeup may be spurious.
**TaskQueue** is the promise: a bounded FIFO with open, draining, discarding and
stopped phases. `ImplementsTaskQueue` reads the ring as that queue.

**IpPoolOps** has the pool as a value and every function of `ip_pool.c` as an
operator on it; counters are `uint32_t` with maximum `UINT_MAX`. **IpPool**
makes the operations the actions of an object with a mutex. `exact` remembers
whether one of the transitions the code does not count has happened: a host
reservation of an excluded address, the uncounted branches of `ip_pool_init`,
and the reservation of an entry in state UNKNOWN.

**DhcpV4Server** composes the pool with the lease database, workers, timer,
synchronisation thread, lease file and clients. Because the database is accessed
without its mutex, a handler is split where another thread can get in between:
look-up, allocation, the look-up of the address's lease, clearing, filling and
counting of a new slot, the reply. The timer and the synchronisation thread find
and mark a lease in two steps. `races` is a history variable: it records when
two of those windows overlapped, so that a property can say what holds apart
from them. Messages are lost when a reply is not taken and repeated when a
client sends again. There is no clock: `LeaseRunsOut` lets an unused lease end.

**DhcpV4Main** is the same process seen from its threads. `step` follows `main`
through every start that can fail, the receive loop, and the stops, joins and
frees in their order. The timer and the synchronisation thread have their places
at their condition variables and mutexes. A task is only queued, running or done,
and the lease writer starts and stops in one step; both have modules of their own.

**LeaseIo** is the asynchronous writer of the lease file: the bounded queue of
save operations, the I/O thread, `lease_io_stop`, the final save of
`dhcp_server_stop`, crashes and the load that follows. A lease is its address
and a stamp that every change renews; one printed while a worker changes it
counts as the version its slot had then. A file is a sequence of blocks. Opening,
printing each lease and closing are separate steps, because workers change the
database meanwhile; a crash leaves any prefix of what was printed, perhaps with
a torn block that `lease_db_load` drops and that swallows the block appended
behind it. `saved`, `promised`, `damaged` and `full` are history variables.
No handler of the running server queues an operation, so the module models the
component with callers that may queue at any time. Left out: the branch for an
empty queue with `running` cleared, which only the thread itself clears, and
calls refused because the queue is full, which change a statistic only.

**Lease6Ops**, **Ip6PoolOps** and **PdPoolOps** have the functions of
`leases6.c`, `ip6_pool.c` and `pd_pool.c` as operators on one value `s` with the
database, the file and both pools. The array of leases is a function from
addresses and prefixes, because every insertion looks its key up first. The file
is what the last save printed (`base`, replaced by a rename) and the blocks
appended since (`log`); a crash can leave the last block torn after its first
line or later, and `Read` gives what the loader makes of either. The loader reads
the weekday the writer printed in the place of the date, so the day of the start
decides whether a lease looks over. `s.seen` collects each content the
file has while a handler runs. DUIDs that do not fit the entry of a pool or the
line of the file are `LongDuids`.

**DhcpV6Server** makes `process_packet` (what asks, and RELEASE and DECLINE), a
cleanup round, a start, a clean stop and a crash its actions. The handlers are one
step each because they hold `ctx.db_lock` from the first access to the last; a
crash in the middle is a step that leaves the file with one of `s.seen`, and with
the last block torn if it was being written. RELEASE and DECLINE may arrive late
and again. Four history variables serve the properties: `told` (what clients were
given), `excused` (what the code took from them, in the ways the module's header
lists), `behind` (a write failed) and `misread` (a start read such a file).

**DhcpV6Agent** has the threads that call those handlers: the queue with its
condition variable, the workers, the cleaner with `pthread_cancel`, the receive
loop and the shutdown. `db_lock` and the logger's `g_lock` have holders, because
a cancelled cleaner leaves what it holds locked and because `log_msg` calls
`init_logger`, which takes `g_lock` again.

**DhcpV4Client** puts several clients and a server on a network that keeps every
message it did not lose: messages arrive late, out of order and again. Offers
and answers to a REQUEST are broadcast, and a client compares only the
identifier. The server is `packet_processor` reduced to who has which address.
**DhcpV6Client** is the v6 client, which never times out and whose identifier is
cut to 24 bits in the header (`XIDS`). `period`, `renewed` and `claimed` say in which
renewal period the server renewed and the client believed it.

**DnsServer** goes through the lines of the zone file as `load_zone_from_file` does,
and then runs the query loop: cache, zone, forwarding, answers that do not come, expiry
with a clock, and the stop. Names are model values; `Key` gives a name's path in
the cache, equal for names that differ in case, and `Cut` what is left of a name in
`last_domain`, which is copied with the size of a pointer.

The `MC` modules instantiate these. `MCThreads` checks both servers' threads and
`MCNetwork` both clients and the DNS server. The programs share nothing, so in
each behaviour one of them runs and the others do not move.

## Runs

| Run | Instance | Shows |
| --- | --- | --- |
| `pool` | 3 workers, 4 tasks, queue of 2, 2 destroys, fair | ring consistent, each task in one place, freed pool quiet, no lost wakeup; refines `TaskQueue`; shutdown completes, accepted tasks run |
| `ippool_counters` | 3 addresses (one excluded, one reserved), 2 clients, all lease states | the counters match the entries |
| `ippool_ping` | the same | finding: self-deadlock on a ping answer |
| `v4_safety` | 2 workers, 2 clients, 2 addresses, 4 packets | unique holders, held is leased, unique leases, no leak |
| `v4_live` | 1 worker, 3 clients, 2 addresses (one reserved), 1 lease slot, 1 restart, fair | the pool follows the leases in both directions |
| `v4_unique` | as `v4_safety` | finding: the unlocked `lease_db_add_lease` |
| `v4_offer` | 1 worker | finding: an offered address is refused |
| `lease_io` | 2 addresses, queue of 2, 2 changes, 3 operations, 2 restarts, fair | saved leases stay on disk, a clean stop saves all and drains the queue, the stop completes, queued saves are carried out |
| `v6_leases` | 3 addresses, 2 prefixes, 3 clients (one a static host with a long DUID), 2 lease slots, 2 starts, probing | counters exact, the file reads back as the database, what a client was given stays its own, one entry per client, active leases are never offered |
| `v6_expiry` | 2 addresses, 1 prefix | finding: a cleanup round drops the expired lease before it frees the entry |
| `threads` | v6: 2 workers, 3 packets, queue of 1, a cleanup round; v4: 2 packets in the pool; fair | packets in order, last save alone, nothing freed in use, no wait in vain, every mutex comes free, queued packets processed, both servers end |
| `network` | 2 v4 clients, 2 addresses, 2 changes of identifier; v6 with 4 identifiers; DNS with 4 names, 4 zone lines, TTL 2; fair | no shared address, no late answer taken for a renewal, clients get their leases, no expired cache entry used |

Bounds. A queue of two fills, empties and wraps with four tasks; three workers
let a signal reach one while another sleeps and a third runs. Three v4 addresses
give the pool an ordinary, an excluded and a reserved one. Four packets are a
full exchange of one client with a second client's DISCOVER and a release in
between; two workers are what every race needs. `UINT_MAX` is the smallest that
holds the pool, so a missed count wraps at once. Three operations fill the
queue of the lease writer with one in hand, and mix appends with a rewrite; two
changes give one address two versions or two addresses one each; two restarts
let an append follow a torn block and a load follow that.

For v6, three addresses and two prefixes leave two ordinary clients a choice
beside the fixed address of the static host, so that a client could get a second
entry; two slots fill the database with one client left over; `MaxWork = 3`
associations, with one notice in transit (`MaxNotices`), are two clients and one
of them again, or a late RELEASE after the address went to another; two starts
put a crash, a torn block and a reload into one behaviour. In `threads` a queue of
one overflows with three packets while one is processed, and with one round a
cancellation can come before, in and after it; every round begins and ends in the
same place. In `network` two changes of identifier are an exchange and a renewal, or
an exchange that ends with a NAK; the starts 0 and 10 keep two clients' identifiers apart; the TTL
of 2 in a clock up to 3 expires once. Four identifiers wrap the v6 header once.

Clients and workers that have no constants of their own are interchangeable, which
the symmetry of `v4_safety` and `v6_leases` uses; runs with temporal properties use
none.

Deadlock checking is off where the system may stop: a thread pool that was
created and is never used or destroyed, the address pool after its
self-deadlock, the lease writer and the v6 server after their last stop, a
server process that has ended, and clients and queries at their bounds.

Exemptions. Each is what the code does, and a hazard in `PROJECT.json` names it.

- `ShutdownCompletes` and `AcceptedTasksRun`: not after a second
  `thread_pool_destroy`, which returns with the mutex locked.
- `SavedStaysOnDisk`: not after a crash that hit a rewrite, which truncates the file
  first, or tore a block.
- `StopCompletes`: not when `lease_io_stop` found the queue full and could not add
  its shutdown operation, after which its join never returns.
- `HeldIsLeased6`: not the pairs in `excused`: late RELEASE or DECLINE of an
  earlier holder, static hosts, a full database or a failed write, misread times,
  blocks swallowed by a torn one.
- `OnePerClient`: not DUIDs too long for an entry, the addresses of static hosts,
  and leases read from a file that was behind or torn.
- `FileFollowsDb`: not after a failed write or with a torn block still in the file.
- `AgentStops`: not when the logger stays locked, because it was never initialised
  or the cleaner was cancelled in a write.
- `QueuedIsProcessed`: not packets dropped because the server shuts down.
- `ServerStops`: only while packets keep coming, because `recvfrom` is not
  interrupted by the signal.
- `AddressesDiffer`: as long as no lease ended at the server; a client never looks at
  the lease time. The identifiers of different clients do not meet
  (`ClientAssumption`).
- `ClientGetsLease`: not after a lease ended, or at the bound on identifiers.
- `Client6Proceeds`: not after a lost message, which a client without a timeout
  waits for, nor with an identifier that does not fit the header.

Fairness. Workers are weakly fair: they are threads that wait only for a mutex
held for a bounded time, and handlers return. `DestroyReturns` is weakly fair
because join returns once its threads have exited. In `DhcpV4Server` the timer and
the synchronisation thread wait with a timeout, so their rounds keep coming. The
I/O thread and the thread that runs `dhcp_server_stop` are weakly fair: file
operations return. In `DhcpV6Agent` the main thread, each worker and the cleaner are
weakly fair. In `DhcpV4Main` the main thread is weakly fair; the timer, the
synchronisation thread and the tasks are strongly fair, because a mutex that is
free again and again is got. The clients' own steps are weakly fair. What is sent
again and again arrives: sending, serving and receiving are strongly fair for v4,
and receiving is for v6. No client, packet, destroy, signal, error, spurious
wakeup, end of a sleep or T1 is ever assumed to happen.

## Findings

| Run | What the code does |
| --- | --- |
| `ippool_ping` | `ip_pool_allocate` calls `ip_pool_mark_conflict` with the pool mutex held, which locks it again (`ip_pool.c:516`). |
| `v4_unique` | Two workers in `lease_db_add_lease` fill the same slot, and two clients end up with one address (`lease_v4.c:614`). |
| `v4_offer` | An ended lease of another client is renewed with that client's MAC, so the REQUEST for the offered address is refused (`ip_pool.c:705`). |
| `v6_expiry` | The cleanup round removes expired leases before the pool is synchronised, so their entries stay allocated until a restart (`server.c:303`). |

## Proofs

All theorems hold for every value of the constants that the named assumptions
allow.

`DhcpV4ServerProofs` proves type correctness, `LeasesAreUnique`, `NoAddressLeak`,
`OneHolderPerAddress` and `HeldIsLeased` for any number of workers, clients,
addresses, reservations, slots, packets and restarts. The inductive invariant
`ServerInv` has one part for each. Each part holds as long as `races` lacks the
overlaps that can break it, so it need not describe what follows them.

- `TypeInv`: the slot that a worker carries from a look-up to its use exists.
- `AddInv`, without an overlap of two adds: a worker in `lease_db_add_lease` is alone
  there, its slot is the next free one, and no lease before it has its address. The
  array and the saved image have one lease per address.
- `LeakInv`, likewise: every allocated entry is covered by a lease, or a worker carries
  its address to a new lease or back to the pool.
- `HolderInv`, also without a crash: a client uses the address of a lease in its own
  name, and an acknowledgement on its way is for such a lease.
- `ActiveInv`, without any overlap: a lease that is in use, or about to be
  acknowledged, is active, and neither the timer, nor the synchronisation thread, nor a
  worker with a RELEASE is about to end it; what the two threads are about to
  mark has run out.

A start runs the loop of `ip_pool_init` over the leases of the file. `TurnsExist`
shows that its recursive definition has a solution and `PoolInitFacts` what the pool
has after it. `lease_count` has no bound in these proofs: each of several workers
that overlap in an add counts.

`LeaseIoProofs` proves type correctness, `SavedStaysOnDisk`,
`CleanStopSavesAll` and `StopDrainsQueue` for any addresses, queue size and
number of operations, crashes and starts. The inductive invariant `IoInv` adds
five parts to the types: every promised lease is in hand or queued before any
shutdown operation (`StopInv`); every queued copy is of a lease the database
still has, as recent or more (`CopyInv`); a rewrite follows the database from its
first slot, an append has the lease in hand (`WriterInv`); no lease is newer than
the last change (`StampInv`); and each saved lease has a slot that backs it, which
a rewrite that got past it has printed recently enough (`DiskInv`). The last one
is why a rewrite that runs beside the workers loses nothing.

`Counters6Proofs` and `DhcpV6ServerProofs` are about the v6 server, for any range of
addresses and prefixes, clients, hosts, database size, failing writes, crashes and
starts. A handler is a chain of operators on the value `s`, so both arguments are about
that value.

`Counters6Proofs` proves `Counters6Match` and `ActiveIsTaken`. `Good(s)` says that the counters of both
pools are exact, that the database and each content of the file have only known keys,
and that every active lease has its entry taken. One lemma per function shows that it
keeps `Good`, rollbacks included; `Inv6` is the same of the variables between
handlers. A restart needs the part about the file: the pools are counted anew from
what was read.

`DhcpV6ServerProofs` proves type correctness, `FileFollowsDb`, `HeldIsLeased6` and
`OnePerClient`, from what `Pools6Proofs` shows of the single functions. These four need
what a handler does, in two kinds of step. `Ends(s, t, K)`: leases
with keys in `K` end, and the file is as it was or saved anew. `Grants(s, t, k, d)`:
client `d` gets `k`, one block is appended or the write failed, and the entry was free
or already its own. `AllocateKinds`, `PdAllocateKinds` and their companions show that
every function is one of these or a chain of them. Appending is then a fact about
`Read`: one more block changes what is read at its key only, a torn one at most swallows
the next. `Serving` is the inductive invariant:

- `Core`: the types; an active lease has a busy entry that names its client; and, if
  no start misread the file, no client owns two entries of one kind (`Single`);
- while the server is up, with no write missed and no block torn, the file reads as
  the database prints;
- a file that is not behind would give each client one entry of a kind (`OneFile`);
- what a client was given and is not excused reads back from the file as its active
  lease, or is among the blocks that a torn one swallows, which the next start excuses
  (`OnFile`); in the database of a server that is up it is an active lease.

The last part has to hold of every content in `s.seen` as well (`SeenHolds`), because a
crash in the middle of a handler leaves one of those.

`ThreadsProofs` is about the address pool and the threads of the two servers. Of the
pool it proves `CountersExact`: for every range, exclusion, reservation and order of
operations the counters are the cardinalities of the sets of entries they count. Every operation is shown to be at most one `Move`, and a
move changes the cardinality of each set by at most the one that `Recount`
counts; `PoolSize <= UINT_MAX` is the only bound needed. `PoolTypes` is type
correctness. What each function of `ip_pool.c` does to one entry and to the others
is in the lemmas of `IpPoolOpsProofs`, which the proofs of the server use too.

Of `DhcpV6Agent` it proves type correctness, `PacketsInOrder`,
`SaveIsAlone` and `WaitsAreServed` for any workers, packets and queue size. `Order`
(accepted is taken followed by queued) carries the first, and with it the bound on the
queue; `Joined` says that a thread that was joined has ended and does not move.

`WaitsAreServed` is the safety part of `AgentStops` and `QueuedIsProcessed`: with it,
whatever a thread waits for is in the hands of one that can go on. Its parts are
`Held` (who has a lock is in the section that takes it, or is a cancelled cleaner),
`CancelledLast` (the cancellation comes after the last worker), `Starting` (until the
receive loop only the main thread acts), `OpenIfWaiting` (nobody sleeps in a closed
queue) and `Woken6`. The last one counts: while a worker sleeps there are at least as
many workers about to look as there are queued packets. A condition that only said
"somebody is awake" would not survive the worker that takes the first of two packets.

Of `DhcpV4Main` it proves type correctness, `FreedIsUnused` and `MutexesComeFree` for
any number of packets in the pool. The invariant adds that no task is left after the
thread pool's end (`Quiet`), that the flag `running` tells `ip_pool_sync_stop` truly
whether there is a thread to join (`FlagIsThread`), that each thing was freed by a
step of `main` that is over (`FreedInOrder`), and that a mutex is held exactly in the
section of its holder (`Sections`), which with `Quiet` gives that it is unlocked when
it is destroyed.

`NetworkProofs` proves `AddressesDiffer` and `RenewalIsReal4` for any number of v4
clients, addresses and identifiers, and `RenewalIsReal6` for any number of
identifiers. `Ids4` says that each identifier on the network belongs to one client
and is not ahead of it; `Renewal4` that an answer with the identifier of a
renewal under way answers this one; `Leases4` that the address in an answer a
client can take is the one the server has for it. `Renewal6` is the same for v6,
where the header's remainder is never ahead of the identifier.

Of the DNS server it proves `CachedIsFresh` for any names, zone and TTL: `CacheInv` says
that an entry lies on the path of the name it answers and expires TTL seconds after
its answer was made.

Of the worker pool it proves, for any number of workers, tasks and slots, type correctness, `RingConsistent`, `EachTaskInOnePlace`, `FreedPoolIsQuiet`,
`NoLostWakeup` and the refinement of `TaskQueue`. The inductive invariant `PoolInv`
adds to the types that `tail` is `count` slots after `head`, that buffered
positions hold tasks, and what each phase of the pool says about its workers. The
lemmas `BufferAppend` and `BufferPop` are the modular arithmetic: an accepted task
comes after those buffered, and a taken one is the oldest.

Every invariant of a passing run is the subject of a theorem, and so is the
refinement of `TaskQueue`. Assumptions beyond the kinds of the constants are few: a pool
fits its counter (`CounterAssumption`), queues have a slot, identifiers of v4 clients
do not meet (`ClientAssumption`), a cut DUID is no client's (`CutAssumption`), static
hosts have distinct addresses (`HostsAssumption`), threads and locks have names of
their own (`AgentAssumption`, `TasksAssumption`), and the bounds on packets, starts and
work are any natural numbers.

Model-checked only: the liveness properties `ShutdownCompletes`, `AcceptedTasksRun`,
`EndedLeaseFreesEntry`, `UsedEntryIsAllocated`, `StopCompletes`, `QueuedIsCarriedOut`,
`AgentStops`, `QueuedIsProcessed`, `ServerStops`, `ClientGetsLease` and
`Client6Proceeds`, because fairness is outside the prover's reach; and the four
properties that the code violates. Recursive functions are reasoned about through the
least counterexample, with the set of bad indices as a set of naturals, because the
library's induction theorems cannot be instantiated.

Most leaves name their prover. In modules of this size the preparation of a step for
the SMT solver takes longer than most steps take to prove, and it counts against the
solver's time; so `Zenon` is named wherever it suffices.

## Not modelled

- Configuration: `config_v4.c`, `config_v6.c`, `config_v6_validate.c`,
  `dns_config.c`. They turn a text file into values before any thread starts; the
  constants stand for their results.
- Encoding: the bytes of DHCP and DNS messages and options, addresses as text,
  string and file helpers. A message is what the parser finds in it. Conversions that
  lose something are modelled: the time of a lease, long DUIDs, the 24 bits of an
  identifier, names up to case.
- The monitors and the statistics in shared memory: nothing reads them to decide.
- Functions that nothing calls: `lease_db_cleanup_expired`, the `_safe` wrappers,
  `ip6_pool_release_ip`, the renewal and reservation functions of `leases6.c`.
- Setting the address of an interface in the clients, and logger levels and text.
- `DNS_Cache/dns_cache.c`, an earlier copy of `DNS_Server/sources/dns_cache.c`.
- More than one subnet: v4 uses `pools[0]`, and v6 subnets share no state but the
  lease database.
