--------------------------- MODULE DhcpV4ServerProofs --------------------------
(***************************************************************************)
(* Proofs about the DHCPv4 server at work, for every number of workers,    *)
(* clients, addresses, reservations, slots, packets and restarts.          *)
(***************************************************************************)
EXTENDS DhcpV4Server, IpPoolOpsProofs

--------------------------------------------------------------------------------
(* The pool at start-up: the loop of ip_pool_init over the leases. *)

Images == [leases : [Slots -> Lease], count : Nat]

(* What a turn of the loop does to the pool, given the lease. *)
Turn(p, lease) == InitFromLease(p, lease.ip, lease.state, lease.mac)

(* The pool after each turn of the loop over the leases ls. *)
Turns(ls) ==
    LET after[n \in 0 .. MaxLeases] ==
          IF n = 0 THEN ConfiguredPool ELSE Turn(after[n - 1], ls[n - 1])
    IN  after

(* The recursive definition of the loop has a solution. *)
LEMMA TurnsExist ==
    ASSUME NEW ls
    PROVE  \E f : f = [n \in 0 .. MaxLeases |->
                         IF n = 0 THEN ConfiguredPool ELSE Turn(f[n - 1], ls[n - 1])]
<1> DEFINE Prefix(g, k) ==
             g = [n \in 0 .. k |-> IF n = 0 THEN ConfiguredPool ELSE Turn(g[n - 1], ls[n - 1])]
           Bad == {k \in Nat : ~ \E g : Prefix(g, k)}
<1>1. SUFFICES Bad = {}
  BY Zenon, <1>1, MaxLeasesAssumption
<1>2. SUFFICES ASSUME Bad # {} PROVE FALSE
  OBVIOUS
<1>3. PICK k \in Bad : \A j \in Bad : k <= j
  <2>1. Bad \in SUBSET Nat
    OBVIOUS
  <2> HIDE DEF Bad
  <2> QED
    BY <1>2, <2>1, LeastElement
<1>4. CASE k = 0
  <2>1. Prefix([n \in 0 .. 0 |-> ConfiguredPool], 0)
    OBVIOUS
  <2> QED
    BY Zenon, <1>4, <2>1
<1>5. CASE k # 0
  <2>1. k - 1 \in Nat /\ k - 1 \notin Bad
    <3>1. k \in Nat
      OBVIOUS
    <3> HIDE DEF Bad
    <3> QED
      BY <1>3, <1>5, <3>1
  <2>2. PICK g : Prefix(g, k - 1)
    BY <2>1
  <2> DEFINE h == [n \in 0 .. k |-> IF n = k THEN Turn(g[k - 1], ls[k - 1]) ELSE g[n]]
  <2>3. \A n \in 0 .. k : h[n] = IF n = 0 THEN ConfiguredPool ELSE Turn(h[n - 1], ls[n - 1])
    BY <1>3, <1>5, <2>2
  <2>4. Prefix(h, k)
    BY <2>3
  <2> QED
    BY Zenon, <2>4
<1> QED
  BY <1>4, <1>5

(* So the loop does what it says. *)
LEMMA TurnsFacts ==
    ASSUME NEW ls
    PROVE  /\ Turns(ls)[0] = ConfiguredPool
           /\ \A n \in 1 .. MaxLeases : Turns(ls)[n] = Turn(Turns(ls)[n - 1], ls[n - 1])
<1> DEFINE f == Turns(ls)
<1>1. f = [n \in 0 .. MaxLeases |->
             IF n = 0 THEN ConfiguredPool ELSE Turn(f[n - 1], ls[n - 1])]
  BY Zenon, TurnsExist DEF Turns
<1> HIDE DEF f
<1>2. /\ f[0] = ConfiguredPool
      /\ \A n \in 1 .. MaxLeases : f[n] = Turn(f[n - 1], ls[n - 1])
  BY <1>1, MaxLeasesAssumption
<1> QED
  BY <1>2 DEF f

LEMMA InitIsTurns ==
    ASSUME NEW image
    PROVE  ip_pool_init(image) = Turns(Loaded(image))[MaxLeases]
BY DEF ip_pool_init, Turns, Turn

(* The leases read from a lease file are leases; what is not counted is none. *)
LEMMA LoadedFacts ==
    ASSUME NEW image \in Images
    PROVE  /\ Loaded(image) \in [Slots -> Lease]
           /\ \A i \in Slots : i < image.count => /\ Loaded(image)[i].ip = image.leases[i].ip
                                                 /\ Loaded(image)[i].mac = image.leases[i].mac
           /\ \A i \in Slots : ~ (i < image.count) => Loaded(image)[i].ip = 0
           /\ \A i \in Slots : i < image.count /\ image.leases[i].state = "ACTIVE"
                                 /\ ~ image.leases[i].over => Loaded(image)[i] = image.leases[i]
<1>1. NoLease \in Lease
  BY DEF NoLease, Lease, LeaseStates
<1>2. \A i \in Slots : image.leases[i] \in Lease
  BY DEF Images
<1>3. \A l \in Lease : /\ [l EXCEPT !.state = "EXPIRED", !.over = FALSE] \in Lease
                       /\ [l EXCEPT !.state = "EXPIRED", !.over = FALSE].ip = l.ip
                       /\ [l EXCEPT !.state = "EXPIRED", !.over = FALSE].mac = l.mac
  BY Zenon DEF Lease, LeaseStates
<1>4. Loaded(image) \in [Slots -> Lease]
  BY Zenon, <1>1, <1>2, <1>3 DEF Loaded
<1> QED
  BY Zenon, <1>2, <1>3, <1>4 DEF Loaded, NoLease

(* A turn of the loop allocates no entry but that of the lease. *)
LEMMA TurnFacts ==
    ASSUME NEW p \in Pools, NEW lease \in Lease
    PROVE  /\ Turn(p, lease) \in Pools
           /\ With(Turn(p, lease), "ALLOCATED")
                \subseteq With(p, "ALLOCATED") \union ({lease.ip} \intersect Ips)
<1>1. lease.state \in LeaseStates /\ lease.mac \in Macs \union {NoMac}
  BY DEF Lease
<1>2. Turn(p, lease) \in Pools
  BY Zenon, <1>1, InitLeaseSteps DEF Turn
<1>3. \A ip \in Ips : ip # lease.ip => Turn(p, lease).state[ip] = p.state[ip]
  BY DEF Turn, InitFromLease, Move, Pools
<1> QED
  BY <1>2, <1>3 DEF With

(* ip_pool_init makes a pool whose allocated entries all have a lease in the file. *)
LEMMA PoolInitFacts ==
    ASSUME NEW image \in Images
    PROVE  /\ ip_pool_init(image) \in Pools
           /\ \A ip \in With(ip_pool_init(image), "ALLOCATED") :
                \E i \in Slots : i < image.count /\ image.leases[i].ip = ip
<1> DEFINE ls == Loaded(image)
           Fine(p) == /\ p \in Pools
                      /\ \A ip \in With(p, "ALLOCATED") : \E i \in Slots : ls[i].ip = ip
           Bad == {n \in 0 .. MaxLeases : ~ Fine(Turns(ls)[n])}
<1>1. ls \in [Slots -> Lease]
  BY LoadedFacts
<1>2. Fine(ConfiguredPool)
  <2>1. With(ConfiguredPool, "ALLOCATED") = {}
    BY DEF With, ConfiguredPool
  <2> QED
    BY <2>1, ConfiguredCounts
<1>3. ASSUME NEW p, Fine(p), NEW i \in Slots
      PROVE  Fine(Turn(p, ls[i]))
  <2>1. ls[i] \in Lease
    BY <1>1
  <2> HIDE DEF ls
  <2> QED
    BY <1>3, <2>1, TurnFacts
<1>4. Bad = {}
  <2>1. SUFFICES ASSUME Bad # {} PROVE FALSE
    OBVIOUS
  <2>2. Bad \in SUBSET Nat
    OBVIOUS
  <2>3. PICK n \in Bad : \A j \in Bad : n <= j
    <3> HIDE DEF Bad
    <3> QED
      BY <2>1, <2>2, LeastElement
  <2>4. n \in 0 .. MaxLeases /\ ~ Fine(Turns(ls)[n])
    OBVIOUS
  <2>5. n # 0
    BY <1>2, <2>4, TurnsFacts
  <2>6. n - 1 \in 0 .. MaxLeases /\ n - 1 \in Slots /\ n \in 1 .. MaxLeases
    BY <2>4, <2>5, MaxLeasesAssumption DEF Slots
  <2>7. n - 1 \notin Bad
    <3> HIDE DEF Bad
    <3> QED
      BY <2>3, <2>4, <2>6
  <2>8. Fine(Turns(ls)[n - 1])
    BY <2>6, <2>7
  <2>9. Turns(ls)[n] = Turn(Turns(ls)[n - 1], ls[n - 1])
    BY <2>6, TurnsFacts
  <2> HIDE DEF Fine
  <2> QED
    BY <1>3, <2>4, <2>6, <2>8, <2>9
<1>5. Fine(ip_pool_init(image))
  <2>1. Fine(Turns(ls)[MaxLeases])
    BY <1>4, MaxLeasesAssumption
  <2> QED
    BY <2>1, InitIsTurns
<1>6. ASSUME NEW ip \in With(ip_pool_init(image), "ALLOCATED")
      PROVE  \E i \in Slots : i < image.count /\ image.leases[i].ip = ip
  <2>1. PICK i \in Slots : ls[i].ip = ip
    BY <1>5
  <2>2. ip # 0
    BY DEF With, Ips
  <2> QED
    BY <2>1, <2>2, LoadedFacts
<1> QED
  BY <1>5, <1>6

--------------------------------------------------------------------------------
(* The lease database. *)

LEMMA SlotsFacts ==
    /\ Slots \subseteq Nat /\ None \in Nat /\ None \notin Slots
    /\ \A i \in Nat : i \in Slots <=> i < MaxLeases
BY MaxLeasesAssumption DEF Slots, None

(* FirstSlot picks an element, or says that there is none. *)
LEMMA FirstSlotFacts ==
    ASSUME NEW S \in SUBSET Slots
    PROVE  IF S = {} THEN FirstSlot(S) = None ELSE FirstSlot(S) \in S
<1>1. ASSUME S # {}
      PROVE  \E i \in S : \A j \in S : i <= j
  <2>1. S \in SUBSET Nat
    BY SlotsFacts
  <2> QED
    BY <1>1, <2>1, LeastElement
<1> QED
  BY <1>1 DEF FirstSlot

(* What the two searches return. *)
LEMMA FindFacts ==
    ASSUME NEW i, NEW x, NEW field \in {"ip", "mac"},
           i = IF field = "ip" THEN lease_db_find_by_ip(x) ELSE lease_db_find_by_mac(x)
    PROVE  /\ i \in Slots \union {None}
           /\ i # None => i \in Slots /\ i < lease_count /\ leases[i][field] = x
           /\ i = None => \A j \in Slots : j < lease_count => leases[j][field] # x
<1> DEFINE S == {j \in Slots : j < lease_count /\ leases[j][field] = x}
<1>1. i = FirstSlot(S)
  BY DEF lease_db_find_by_ip, lease_db_find_by_mac
<1>2. IF S = {} THEN i = None ELSE i \in S
  <2>1. S \in SUBSET Slots
    OBVIOUS
  <2> HIDE DEF S
  <2> QED
    BY <1>1, <2>1, FirstSlotFacts
<1> QED
  BY <1>2, SlotsFacts

LEMMA FindByIp ==
    ASSUME NEW ip
    PROVE  LET i == lease_db_find_by_ip(ip)
           IN  /\ i \in Slots \union {None}
               /\ i # None => i \in Slots /\ i < lease_count /\ leases[i].ip = ip
               /\ i = None => \A j \in Slots : j < lease_count => leases[j].ip # ip
BY FindFacts

LEMMA FindByMac ==
    ASSUME NEW mac
    PROVE  LET i == lease_db_find_by_mac(mac)
           IN  /\ i \in Slots \union {None}
               /\ i # None => i \in Slots /\ i < lease_count /\ leases[i].mac = mac
BY FindFacts

(* Marking a lease changes its state, gives it a new end, and changes nothing else. *)
Marked(ls, i, s) == [ls EXCEPT ![i].state = s, ![i].over = FALSE]

LEMMA MarkedFacts ==
    ASSUME NEW ls \in [Slots -> Lease], NEW i, NEW s \in LeaseStates
    PROVE  /\ Marked(ls, i, s) \in [Slots -> Lease]
           /\ \A j \in Slots : /\ Marked(ls, i, s)[j].ip = ls[j].ip
                               /\ Marked(ls, i, s)[j].mac = ls[j].mac
                               /\ j # i => Marked(ls, i, s)[j] = ls[j]
           /\ i \in Slots => /\ Marked(ls, i, s)[i].state = s
                             /\ ~ Marked(ls, i, s)[i].over
<1> DEFINE half == [ls EXCEPT ![i].state = s]
           new == Marked(ls, i, s)
<1>1. \A j \in Slots : ls[j] \in Lease
  OBVIOUS
<1>2. /\ \A l \in Lease : LET k == [l EXCEPT !.state = s]
                          IN  k \in Lease /\ k.ip = l.ip /\ k.mac = l.mac /\ k.state = s
      /\ \A l \in Lease : LET k == [l EXCEPT !.over = FALSE]
                          IN  /\ k \in Lease /\ k.ip = l.ip /\ k.mac = l.mac
                              /\ k.state = l.state /\ ~ k.over
  BY Zenon DEF Lease
<1>3. half = [j \in Slots |-> IF j = i THEN [ls[j] EXCEPT !.state = s] ELSE ls[j]]
  BY Zenon
<1>4. /\ half \in [Slots -> Lease]
      /\ \A j \in Slots : half[j].ip = ls[j].ip /\ half[j].mac = ls[j].mac
                            /\ (j # i => half[j] = ls[j])
      /\ i \in Slots => half[i].state = s
  BY Zenon, <1>1, <1>2, <1>3
<1>5. new = [half EXCEPT ![i].over = FALSE]
  BY DEF Marked
<1> HIDE DEF half, new
<1>6. new = [j \in Slots |-> IF j = i THEN [half[j] EXCEPT !.over = FALSE] ELSE half[j]]
  BY Zenon, <1>4, <1>5
<1>7. /\ new \in [Slots -> Lease]
      /\ \A j \in Slots : new[j].ip = half[j].ip /\ new[j].mac = half[j].mac
                            /\ (j # i => new[j] = half[j])
      /\ i \in Slots => new[i].state = half[i].state /\ ~ new[i].over
  BY <1>2, <1>4, <1>6
<1>8. /\ new \in [Slots -> Lease]
      /\ \A j \in Slots : new[j].ip = ls[j].ip /\ new[j].mac = ls[j].mac
                            /\ (j # i => new[j] = ls[j])
      /\ i \in Slots => new[i].state = s /\ ~ new[i].over
  BY <1>4, <1>7
<1> QED
  BY <1>8 DEF new

--------------------------------------------------------------------------------
(* The pool: which entries an operation allocates. *)

LEMMA AllocatedFacts ==
    ASSUME NEW p \in Pools
    PROVE  /\ \A ip \in Ips : \A mac : With(Take(p, ip, mac), "ALLOCATED")
                                     \subseteq With(p, "ALLOCATED") \union {ip}
           /\ \A ip : With(ip_pool_release_ip(p, ip), "ALLOCATED") \subseteq With(p, "ALLOCATED") \ {ip}
           /\ \A ip, s, mac : With(SyncEntry(p, ip, s, mac), "ALLOCATED")
                                \subseteq With(p, "ALLOCATED") \union {ip}
<1>1. ASSUME NEW ip \in Ips, NEW new, NEW mac
      PROVE  /\ Move(p, ip, new, mac).state[ip] = new
             /\ \A other \in Ips \ {ip} : Move(p, ip, new, mac).state[other] = p.state[other]
  BY DEF Move, Pools
<1>2. ASSUME NEW ip \in Ips, NEW new, NEW mac
      PROVE  /\ With(Move(p, ip, new, mac), "ALLOCATED") \subseteq With(p, "ALLOCATED") \union {ip}
             /\ new # "ALLOCATED" => With(Move(p, ip, new, mac), "ALLOCATED")
                                       \subseteq With(p, "ALLOCATED") \ {ip}
  BY <1>1 DEF With
<1>3. \A ip : With(ip_pool_release_ip(p, ip), "ALLOCATED") \subseteq With(p, "ALLOCATED") \ {ip}
  <2> TAKE ip
  <2>1. CASE ip \in Ips /\ p.state[ip] = "ALLOCATED"
    <3>1. ip_pool_release_ip(p, ip) = Move(p, ip, "AVAILABLE", NoMac)
      BY <2>1 DEF ip_pool_release_ip
    <3> QED
      BY <1>2, <2>1, <3>1
  <2>2. CASE ~ (ip \in Ips /\ p.state[ip] = "ALLOCATED")
    BY <2>2 DEF ip_pool_release_ip, With
  <2> QED
    BY <2>1, <2>2
<1>4. \A ip, s, mac : With(SyncEntry(p, ip, s, mac), "ALLOCATED") \subseteq With(p, "ALLOCATED") \union {ip}
  BY <1>2 DEF SyncEntry
<1> QED
  BY <1>2, <1>3, <1>4 DEF Take

(* The addresses ip_pool_allocate may return. *)
LEMMA AllocateAddresses ==
    ASSUME NEW p \in Pools, NEW mac, NEW requested \in Addresses \union {0}
    PROVE  /\ Known(p, mac) \in Addresses \union {0}
           /\ Fresh(p, requested) # 0 => Fresh(p, requested) \in Ips
           /\ requested \in Nat /\ Addresses \subseteq Nat
<1>1. Addresses \subseteq Nat
  BY HostsAssumption DEF Addresses, Ips
<1>2. Fresh(p, requested) # 0 => Fresh(p, requested) \in Ips
  BY Zenon, <1>1, FreshIsAvailable DEF With
<1>3. ASSUME NEW S \in SUBSET Ips
      PROVE  First(S) \in Ips \union {0}
  <2>1. S \in SUBSET Nat
    BY DEF Ips
  <2>2. S # {} => \E ip \in S : \A other \in S : ip <= other
    BY <2>1, LeastElement
  <2> QED
    BY <2>2 DEF First
<1>4. Known(p, mac) \in Addresses \union {0}
  <2>1. mac \in DOMAIN Hosts => Hosts[mac] \in Addresses
    BY DEF Addresses
  <2> DEFINE S == {ip \in With(p, "ALLOCATED") : p.mac[ip] = mac}
  <2>2. S \in SUBSET Ips
    BY DEF With
  <2>3. First(S) \in Ips \union {0}
    BY <1>3, <2>2
  <2>4. Known(p, mac) = IF mac \in DOMAIN Hosts THEN Hosts[mac] ELSE First(S)
    BY DEF Known
  <2> HIDE DEF S
  <2> QED
    BY <2>1, <2>3, <2>4 DEF Addresses
<1> QED
  BY <1>1, <1>2, <1>4

--------------------------------------------------------------------------------
(* Types.  A worker that has a pointer to a lease points into the array. *)

WorkerStates == [pc : PCs, mac : Macs \union {NoMac}, ip : Addresses \union {0},
                 slot : Slots \union {None}, n : Nat, xid : BOOLEAN]

Pointing == Adding \union {"offer", "ack"}

Sound(r) == r \in WorkerStates /\ (r.pc \in Pointing => r.slot \in Slots)

TypeInv == TypeOK /\ \A w \in Workers : Sound(workers[w])

LEMMA IdleSound == Sound(Idle)
<1>1. Idle \in WorkerStates
  BY DEF Idle, WorkerStates, PCs
<1> QED
  BY <1>1 DEF Sound, Idle, Pointing, Adding

(* One worker goes on; the others stay where they are. *)
LEMMA BecomeSound ==
    ASSUME TypeInv, NEW w \in Workers, NEW new, Sound(new), Become(w, new)
    PROVE  /\ workers' \in [Workers -> WorkerStates]
           /\ \A v \in Workers : Sound(workers'[v])
           /\ workers'[w] = new
           /\ \A v \in Workers : v # w => workers'[v] = workers[v]
<1>1. workers \in [Workers -> WorkerStates]
  BY DEF TypeInv, TypeOK, WorkerStates
<1>2. workers' = [workers EXCEPT ![w] = new]
  BY DEF Become
<1>3. new \in WorkerStates
  BY DEF Sound
<1>4. /\ workers' \in [Workers -> WorkerStates]
      /\ workers'[w] = new
      /\ \A v \in Workers : v # w => workers'[v] = workers[v]
  BY <1>1, <1>2, <1>3
<1> QED
  BY <1>4 DEF TypeInv

(* A client that starts over changes no more than xid. *)
LEMMA ForgottenFacts ==
    ASSUME TypeInv, NEW m
    PROVE  /\ Forgotten(m) \in [Workers -> WorkerStates]
           /\ \A w \in Workers :
                /\ Sound(Forgotten(m)[w])
                /\ Forgotten(m)[w].pc = workers[w].pc /\ Forgotten(m)[w].mac = workers[w].mac
                /\ Forgotten(m)[w].ip = workers[w].ip /\ Forgotten(m)[w].slot = workers[w].slot
                /\ Forgotten(m)[w].n = workers[w].n
                /\ Forgotten(m)[w].xid => workers[w].xid /\ workers[w].mac # m
<1>1. workers \in [Workers -> WorkerStates]
  BY DEF TypeInv, TypeOK, WorkerStates
<1>2. ASSUME NEW w \in Workers
      PROVE  LET f == Forgotten(m)[w]
                 r == workers[w]
             IN  /\ f \in WorkerStates
                 /\ f.pc = r.pc /\ f.mac = r.mac /\ f.ip = r.ip /\ f.slot = r.slot
                 /\ f.n = r.n /\ (f.xid => r.xid /\ r.mac # m)
  <2>1. workers[w] \in WorkerStates
    BY <1>1
  <2>2. CASE workers[w].mac = m
    <3>1. Forgotten(m)[w] = [workers[w] EXCEPT !.xid = FALSE]
      BY <2>2 DEF Forgotten
    <3> QED
      BY Zenon, <2>1, <3>1 DEF WorkerStates
  <2>3. CASE workers[w].mac # m
    <3>1. Forgotten(m)[w] = workers[w]
      BY Zenon, <2>3 DEF Forgotten
    <3> QED
      BY Zenon, <2>1, <2>3, <3>1
  <2> QED
    BY Zenon, <2>2, <2>3
<1>3. DOMAIN Forgotten(m) = Workers /\ Forgotten(m) = [w \in Workers |-> Forgotten(m)[w]]
  BY Zenon DEF Forgotten
<1>4. Forgotten(m) \in [Workers -> WorkerStates]
  BY Zenon, <1>2, <1>3
<1> QED
  BY Zenon, <1>2, <1>4 DEF TypeInv, Sound

(* A worker that takes a packet. *)
LEMMA ReceiveFacts ==
    ASSUME TypeInv, NEW w \in Workers, NEW pc \in {"discover", "request", "renew", "release"},
           NEW m \in Macs, NEW ip \in Addresses \union {0}, Receive(w, pc, m, ip)
    PROVE  /\ workers' \in [Workers -> WorkerStates]
           /\ \A v \in Workers : Sound(workers'[v])
           /\ workers'[w].pc = pc /\ workers'[w].mac = m /\ workers'[w].ip = ip
           /\ \A v \in Workers \ {w} :
                /\ workers'[v].pc = workers[v].pc /\ workers'[v].mac = workers[v].mac
                /\ workers'[v].ip = workers[v].ip /\ workers'[v].slot = workers[v].slot
                /\ workers'[v].n = workers[v].n
                /\ workers'[v].xid => workers[v].xid /\ (pc = "release" => workers[v].mac # m)
<1> DEFINE base == IF pc = "release" THEN Forgotten(m) ELSE workers
           new == [Idle EXCEPT !.pc = pc, !.mac = m, !.ip = ip, !.xid = (pc # "release")]
<1>1. workers' = [base EXCEPT ![w] = new]
  BY Zenon DEF Receive
<1>2. new \in WorkerStates /\ new.pc = pc /\ new.mac = m /\ new.ip = ip
  BY Zenon DEF Idle, WorkerStates, PCs
<1>3. Sound(new)
  BY Zenon, <1>2 DEF Sound, Pointing, Adding
<1>4. /\ base \in [Workers -> WorkerStates]
      /\ \A v \in Workers :
           /\ Sound(base[v])
           /\ base[v].pc = workers[v].pc /\ base[v].mac = workers[v].mac
           /\ base[v].ip = workers[v].ip /\ base[v].slot = workers[v].slot
           /\ base[v].n = workers[v].n
           /\ base[v].xid => workers[v].xid /\ (pc = "release" => workers[v].mac # m)
  BY ForgottenFacts DEF TypeInv, TypeOK, WorkerStates
<1> HIDE DEF base, new
<1>5. /\ workers' \in [Workers -> WorkerStates] /\ workers'[w] = new
      /\ \A v \in Workers : v # w => workers'[v] = base[v]
  BY Zenon, <1>1, <1>2, <1>4
<1> QED
  BY <1>2, <1>3, <1>4, <1>5

(* The conjuncts of the type invariant that the steps of a worker can disturb. *)
Typed(p, ls, n, o, h, r) ==
    /\ p \in Pools
    /\ ls \in [Slots -> Lease]
    /\ n \in Nat
    /\ o \in [Macs -> Addresses \union {0}]
    /\ h \in [Macs -> Addresses \union {0}]
    /\ r \subseteq {"add", "expire", "release", "crash"}

LEMMA TypedNow == TypeInv => Typed(pool, leases, lease_count, offer, held, races)
BY Zenon DEF TypeInv, TypeOK, Typed

LEMMA TypedNext ==
    ASSUME TypeInv, Typed(pool', leases', lease_count', offer', held', races'),
           workers' \in [Workers -> WorkerStates], \A v \in Workers : Sound(workers'[v]),
           UNCHANGED <<timer, sync, saved, packets, restarts>>
    PROVE  TypeInv'
BY Zenon DEF TypeInv, TypeOK, Typed, WorkerStates, Sound

(* What a worker knows, by its fields. *)
LEMMA WorkerNow ==
    ASSUME TypeInv, NEW w \in Workers
    PROVE  /\ Sound(workers[w]) /\ workers[w] \in WorkerStates
           /\ workers[w].pc \in PCs /\ workers[w].mac \in Macs \union {NoMac}
           /\ workers[w].ip \in Addresses \union {0} /\ workers[w].n \in Nat
           /\ workers[w].slot \in Slots \union {None}
           /\ workers[w].pc \in Pointing => workers[w].slot \in Slots
BY Zenon DEF TypeInv, Sound, WorkerStates

(* A worker that renews lease i: its state, and the races it records. *)
Renews(w, i) ==
    /\ i \in Slots /\ i < lease_count /\ leases[i].ip = workers[w].ip
    /\ leases' = Marked(leases, i, "ACTIVE")
    /\ races' = races \union RenewalRaces(i)
    /\ workers'[w].pc \in {"offer", "ack", "idle"}
    /\ workers'[w].pc = "ack" => workers'[w].slot = i /\ leases[i].mac = workers'[w].mac
    /\ \A v \in Workers : v # w => workers'[v] = workers[v]
    /\ UNCHANGED <<pool, lease_count, timer, sync, saved, offer, held, packets, restarts>>

LEMMA RacesType == \A i : RenewalRaces(i) \subseteq {"expire", "release"}
BY Zenon DEF RenewalRaces

LEMMA RenewsTypes ==
    ASSUME TypeInv, NEW w \in Workers, NEW i, Renews(w, i)
    PROVE  Typed(pool', leases', lease_count', offer', held', races')
<1>1. "ACTIVE" \in LeaseStates
  BY Zenon DEF LeaseStates
<1>2. leases' \in [Slots -> Lease]
  BY Zenon, <1>1, MarkedFacts, TypedNow DEF Renews, Typed
<1>3. races' \subseteq {"add", "expire", "release", "crash"}
  BY Zenon, TypedNow, RacesType DEF Renews, Typed
<1> QED
  BY Zenon, <1>2, <1>3, TypedNow DEF Typed, Renews

(* A worker that does nothing to the database. *)
Quiet(w) ==
    /\ workers'[w].pc \notin Adding \union {"ack", "release"}
    /\ \A v \in Workers : v # w => workers'[v] = workers[v]
    /\ UNCHANGED <<leases, lease_count, timer, sync, saved, races, packets, restarts>>

(* Discover: the lease it found, if any, is in the array. *)
LEMMA DiscoverFacts ==
    ASSUME TypeInv, NEW w \in Workers, Discover(w)
    PROVE  TypeInv' /\ Quiet(w) /\ UNCHANGED <<pool, offer, held>>
<1> DEFINE me == workers[w]
           i == lease_db_find_by_mac(me.mac)
           new == [me EXCEPT !.pc = IF i = None THEN "allocate" ELSE "offer", !.slot = i]
<1>1. Become(w, new) /\ UNCHANGED <<pool, leases, lease_count, races, Others>>
  BY Zenon DEF Discover
<1>2. i \in Slots \union {None}
  BY Zenon, FindByMac
<1>3. /\ new \in WorkerStates /\ new.slot = i
      /\ new.pc = IF i = None THEN "allocate" ELSE "offer"
  <2> HIDE DEF i
  <2> QED
    BY Zenon, <1>2, WorkerNow DEF WorkerStates, PCs
<1>4. Sound(new)
  BY <1>2, <1>3 DEF Sound, Pointing, Adding
<1> HIDE DEF new, i
<1>5. /\ workers' \in [Workers -> WorkerStates] /\ \A v \in Workers : Sound(workers'[v])
      /\ workers'[w] = new /\ \A v \in Workers : v # w => workers'[v] = workers[v]
  BY Zenon, <1>1, <1>4, BecomeSound
<1>6. TypeInv'
  BY Zenon, <1>1, <1>5, TypedNow, TypedNext DEF Others
<1> QED
  BY Zenon, <1>1, <1>3, <1>5, <1>6 DEF Quiet, Adding, Others

(* Allocate: an entry that becomes allocated is that of the worker's address. *)
LEMMA AllocateFacts ==
    ASSUME TypeInv, NEW w \in Workers, Allocate(w)
    PROVE  /\ TypeInv' /\ Quiet(w) /\ UNCHANGED <<offer, held>>
           /\ workers[w].pc = "allocate"
           /\ \/ UNCHANGED pool
              \/ /\ workers'[w].pc = "bind"
                 /\ With(pool', "ALLOCATED") \subseteq With(pool, "ALLOCATED") \union {workers'[w].ip}
<1> DEFINE me == workers[w]
           known == Known(pool, me.mac)
           fresh == Fresh(pool, me.ip)
<1>1. /\ me \in WorkerStates /\ me.mac \in Macs \union {NoMac} /\ me.ip \in Addresses \union {0}
      /\ pool \in Pools
  BY Zenon, WorkerNow, TypedNow DEF Typed
<1>2. /\ known \in Addresses \union {0} /\ (fresh # 0 => fresh \in Ips)
      /\ me.ip \in Nat
  BY Zenon, <1>1, AllocateAddresses
<1>3. /\ UNCHANGED <<leases, lease_count, races, Others>>
      /\ me.pc = "allocate"
      /\ \/ Become(w, [me EXCEPT !.pc = "bind", !.ip = known]) /\ UNCHANGED pool
         \/ /\ fresh # 0 /\ Become(w, [me EXCEPT !.pc = "bind", !.ip = fresh])
            /\ pool' = Take(pool, fresh, me.mac)
         \/ Become(w, Idle) /\ UNCHANGED pool
  BY Zenon DEF Allocate
<1>4. ASSUME NEW ip \in Addresses \union {0}
      PROVE  LET new == [me EXCEPT !.pc = "bind", !.ip = ip]
             IN  Sound(new) /\ new.pc = "bind" /\ new.ip = ip
  BY Zenon, <1>1 DEF Sound, WorkerStates, PCs, Pointing, Adding
<1>5. fresh # 0 => fresh \in Addresses \union {0}
  BY Zenon, <1>2 DEF Addresses
<1>6. fresh # 0 => Take(pool, fresh, me.mac) \in Pools
  BY Zenon, <1>1, <1>2, TakeSteps, StepsKeep
<1> HIDE DEF known, fresh
<1>7. ASSUME NEW new, Sound(new), Become(w, new), pool' \in Pools, new.pc \in {"bind", "idle"}
      PROVE  TypeInv' /\ Quiet(w) /\ workers'[w] = new
  <2>1. /\ workers' \in [Workers -> WorkerStates] /\ \A v \in Workers : Sound(workers'[v])
        /\ workers'[w] = new /\ \A v \in Workers : v # w => workers'[v] = workers[v]
    BY Zenon, <1>7, BecomeSound
  <2>2. TypeInv'
    BY Zenon, <1>3, <1>7, <2>1, TypedNow, TypedNext DEF Others, Typed
  <2> QED
    BY Zenon, <1>3, <1>7, <2>1, <2>2 DEF Quiet, Adding, Others
<1>8. Idle.pc = "idle"
  BY Zenon DEF Idle
<1>9. CASE Become(w, [me EXCEPT !.pc = "bind", !.ip = known]) /\ UNCHANGED pool
  BY Zenon, <1>1, <1>2, <1>3, <1>4, <1>7, <1>9 DEF Others
<1>10. CASE /\ fresh # 0 /\ Become(w, [me EXCEPT !.pc = "bind", !.ip = fresh])
            /\ pool' = Take(pool, fresh, me.mac)
  <2>1. With(pool', "ALLOCATED") \subseteq With(pool, "ALLOCATED") \union {fresh}
    BY <1>1, <1>2, <1>10, AllocatedFacts
  <2> QED
    BY Zenon, <1>1, <1>3, <1>4, <1>5, <1>6, <1>7, <1>10, <2>1 DEF Others
<1>11. CASE Become(w, Idle) /\ UNCHANGED pool
  BY Zenon, <1>1, <1>3, <1>7, <1>8, <1>11, IdleSound DEF Others
<1> QED
  BY Zenon, <1>3, <1>9, <1>10, <1>11

(* A worker that picks the slot of a new lease: the address has none, and the
   overlap with another such worker is recorded. *)
Picks(w) ==
    /\ workers[w].pc = "bind"
    /\ \A j \in Slots : j < lease_count => leases[j].ip # workers[w].ip
    /\ lease_count \in Slots
    /\ workers'[w].pc = "clear" /\ workers'[w].slot = lease_count
    /\ workers'[w].ip = workers[w].ip
    /\ races \subseteq races'
    /\ (\E v \in Workers \ {w} : workers[v].pc \in Adding) => "add" \in races'
    /\ \A v \in Workers : v # w => workers'[v] = workers[v]
    /\ UNCHANGED <<pool, leases, lease_count, timer, sync, saved, offer, held, packets, restarts>>

(* Bind renews the lease of the address, or picks a slot for one, or gives up. *)
LEMMA BindFacts ==
    ASSUME TypeInv, NEW w \in Workers, Bind(w)
    PROVE  /\ TypeInv'
           /\ \/ \E i \in Slots : Renews(w, i)
              \/ Picks(w)
              \/ /\ Quiet(w) /\ UNCHANGED <<pool, offer, held>>
                 /\ workers'[w].pc = "rollback" /\ workers'[w].ip = workers[w].ip
<1> DEFINE me == workers[w]
           i == lease_db_find_by_ip(me.ip)
           found == [me EXCEPT !.pc = "offer", !.slot = i]
           picked == [me EXCEPT !.pc = "clear", !.slot = lease_count]
           given_up == [me EXCEPT !.pc = "rollback"]
<1>1. /\ me \in WorkerStates /\ me.ip \in Addresses \union {0}
      /\ Typed(pool, leases, lease_count, offer, held, races)
  BY Zenon, WorkerNow, TypedNow
<1>2. /\ i \in Slots \union {None}
      /\ i # None => i \in Slots /\ i < lease_count /\ leases[i].ip = me.ip
      /\ i = None => \A j \in Slots : j < lease_count => leases[j].ip # me.ip
  BY Zenon, FindByIp
<1>3. me.pc = "bind" /\ UNCHANGED <<pool, lease_count, Others>>
  BY Zenon DEF Bind
<1>4. \/ /\ i # None /\ leases' = Renewed(i) /\ races' = races \union RenewalRaces(i)
         /\ Become(w, found)
      \/ /\ i = None /\ lease_count < MaxLeases /\ UNCHANGED leases
         /\ Become(w, picked)
         /\ races' = races \union (IF \E v \in Workers \ {w} : workers[v].pc \in Adding
                                   THEN {"add"} ELSE {})
      \/ /\ i = None /\ lease_count >= MaxLeases /\ UNCHANGED <<leases, races>>
         /\ Become(w, given_up)
  BY Zenon DEF Bind
<1>5. /\ i # None => Sound(found) /\ found.pc = "offer"
      /\ lease_count \in Slots => /\ Sound(picked) /\ picked.pc = "clear"
                                 /\ picked.slot = lease_count /\ picked.ip = me.ip
  <2> HIDE DEF i
  <2> QED
    BY Zenon, <1>1, <1>2 DEF Sound, WorkerStates, PCs
<1>6. Sound(given_up) /\ given_up.pc = "rollback" /\ given_up.ip = me.ip
  BY Zenon, <1>1 DEF Sound, WorkerStates, PCs, Pointing, Adding
<1> HIDE DEF i, found, picked, given_up
<1>7. ASSUME NEW new, Sound(new), Become(w, new)
      PROVE  /\ workers' \in [Workers -> WorkerStates] /\ \A v \in Workers : Sound(workers'[v])
             /\ workers'[w] = new /\ \A v \in Workers : v # w => workers'[v] = workers[v]
  BY Zenon, <1>7, BecomeSound
<1>8. CASE /\ i # None /\ leases' = Renewed(i) /\ races' = races \union RenewalRaces(i)
           /\ Become(w, found)
  <2>1. leases' = Marked(leases, i, "ACTIVE")
    BY Zenon, <1>8 DEF Renewed, Marked
  <2>2. /\ workers' \in [Workers -> WorkerStates] /\ \A v \in Workers : Sound(workers'[v])
        /\ workers'[w].pc = "offer" /\ \A v \in Workers : v # w => workers'[v] = workers[v]
    BY Zenon, <1>2, <1>5, <1>7, <1>8
  <2>3. Renews(w, i)
    BY Zenon, <1>2, <1>3, <1>8, <2>1, <2>2 DEF Renews, Others
  <2>4. TypeInv'
    BY Zenon, <1>3, <2>2, <2>3, RenewsTypes, TypedNext DEF Others
  <2> QED
    BY Zenon, <1>2, <1>8, <2>3, <2>4
<1>9. CASE /\ i = None /\ lease_count < MaxLeases /\ UNCHANGED leases
           /\ Become(w, picked)
           /\ races' = races \union (IF \E v \in Workers \ {w} : workers[v].pc \in Adding
                                     THEN {"add"} ELSE {})
  <2>1. lease_count \in Slots
    BY Zenon, <1>1, <1>9, SlotsFacts DEF Typed
  <2>2. Picks(w)
    <3>1. /\ workers'[w].pc = "clear" /\ workers'[w].slot = lease_count
          /\ workers'[w].ip = workers[w].ip
          /\ \A v \in Workers : v # w => workers'[v] = workers[v]
      BY Zenon, <1>5, <1>7, <1>9, <2>1
    <3>2. /\ races \subseteq races'
          /\ (\E v \in Workers \ {w} : workers[v].pc \in Adding) => "add" \in races'
      BY Zenon, <1>9
    <3> QED
      BY Zenon, <1>2, <1>3, <1>9, <2>1, <3>1, <3>2 DEF Picks, Others
  <2>3. Typed(pool', leases', lease_count', offer', held', races')
    BY Zenon, <1>1, <1>3, <1>9 DEF Typed, Others
  <2>4. TypeInv'
    BY Zenon, <1>3, <1>5, <1>7, <1>9, <2>1, <2>3, TypedNext DEF Others
  <2> QED
    BY Zenon, <2>2, <2>4
<1>10. CASE /\ i = None /\ lease_count >= MaxLeases /\ UNCHANGED <<leases, races>>
            /\ Become(w, given_up)
  <2>1. Quiet(w) /\ workers'[w].pc = "rollback" /\ workers'[w].ip = workers[w].ip
    BY Zenon, <1>3, <1>6, <1>7, <1>10 DEF Quiet, Adding, Others
  <2>2. TypeInv'
    BY Zenon, <1>1, <1>3, <1>6, <1>7, <1>10, TypedNext DEF Others
  <2> QED
    BY Zenon, <1>3, <2>1, <2>2 DEF Others
<1> QED
  BY Zenon, <1>4, <1>8, <1>9, <1>10

(* Clear, Fill and Publish: the steps that write a new lease and count it. *)
Writes(w, from, to) ==
    /\ workers[w].pc = from /\ workers'[w].pc = to
    /\ workers'[w].slot = workers[w].slot /\ workers'[w].ip = workers[w].ip
    /\ \A j \in Slots : j # workers[w].slot => leases'[j] = leases[j]
    /\ \A v \in Workers : v # w => workers'[v] = workers[v]
    /\ UNCHANGED <<pool, races, timer, sync, saved, offer, held, packets, restarts>>

LEMMA ClearFacts ==
    ASSUME TypeInv, NEW w \in Workers, Clear(w)
    PROVE  /\ TypeInv' /\ Writes(w, "clear", "fill") /\ UNCHANGED lease_count
           /\ leases'[workers[w].slot].ip = workers[w].ip
<1> DEFINE me == workers[w]
           new == [me EXCEPT !.pc = "fill"]
           lease == [NoLease EXCEPT !.ip = me.ip]
<1>1. /\ me.pc = "clear" /\ leases' = [leases EXCEPT ![me.slot] = lease] /\ Become(w, new)
      /\ UNCHANGED <<pool, lease_count, races, Others>>
  BY Zenon DEF Clear
<1>2. /\ me \in WorkerStates /\ me.ip \in Addresses \union {0}
      /\ me.slot \in Slots
      /\ Typed(pool, leases, lease_count, offer, held, races)
  BY Zenon, <1>1, WorkerNow, TypedNow DEF Pointing, Adding
<1>3. lease \in Lease /\ lease.ip = me.ip
  BY Zenon, <1>2 DEF NoLease, Lease, LeaseStates
<1>4. Sound(new) /\ new.pc = "fill" /\ new.slot = me.slot /\ new.ip = me.ip
  BY Zenon, <1>2 DEF Sound, WorkerStates, PCs
<1> HIDE DEF new, lease
<1>5. /\ workers' \in [Workers -> WorkerStates] /\ \A v \in Workers : Sound(workers'[v])
      /\ workers'[w] = new /\ \A v \in Workers : v # w => workers'[v] = workers[v]
  BY Zenon, <1>1, <1>4, BecomeSound
<1>6. /\ leases' \in [Slots -> Lease] /\ leases'[me.slot] = lease
      /\ \A j \in Slots : j # me.slot => leases'[j] = leases[j]
  BY Zenon, <1>1, <1>2, <1>3 DEF Typed
<1>7. TypeInv'
  BY Zenon, <1>1, <1>2, <1>5, <1>6, TypedNext DEF Others, Typed
<1> QED
  BY Zenon, <1>1, <1>3, <1>4, <1>5, <1>6, <1>7 DEF Writes, Others

LEMMA FillFacts ==
    ASSUME TypeInv, NEW w \in Workers, Fill(w)
    PROVE  /\ TypeInv' /\ Writes(w, "fill", "publish") /\ UNCHANGED lease_count
           /\ leases'[workers[w].slot].ip = leases[workers[w].slot].ip
           /\ workers'[w].n = lease_count
<1> DEFINE me == workers[w]
           new == [me EXCEPT !.pc = "publish", !.n = lease_count]
           half == [leases EXCEPT ![me.slot].mac = me.mac]
<1>1. /\ me.pc = "fill" /\ leases' = Marked(half, me.slot, "ACTIVE") /\ Become(w, new)
      /\ UNCHANGED <<pool, lease_count, races, Others>>
  BY Zenon DEF Fill, Marked
<1>2. /\ me \in WorkerStates /\ me.mac \in Macs \union {NoMac} /\ me.slot \in Slots
      /\ Typed(pool, leases, lease_count, offer, held, races)
      /\ leases \in [Slots -> Lease] /\ lease_count \in Nat
  BY Zenon, <1>1, WorkerNow, TypedNow DEF Pointing, Adding, Typed
<1>3. Sound(new) /\ new.pc = "publish" /\ new.slot = me.slot /\ new.ip = me.ip /\ new.n = lease_count
  BY Zenon, <1>2 DEF Sound, WorkerStates, PCs
<1>4. /\ half \in [Slots -> Lease] /\ half[me.slot].ip = leases[me.slot].ip
      /\ \A j \in Slots : j # me.slot => half[j] = leases[j]
  <2>1. \A l \in Lease : /\ [l EXCEPT !.mac = me.mac] \in Lease
                         /\ [l EXCEPT !.mac = me.mac].ip = l.ip
    BY Zenon, <1>2 DEF Lease
  <2>2. half = [j \in Slots |-> IF j = me.slot THEN [leases[j] EXCEPT !.mac = me.mac] ELSE leases[j]]
    BY Zenon, <1>2
  <2> QED
    BY Zenon, <1>2, <2>1, <2>2
<1>5. "ACTIVE" \in LeaseStates
  BY Zenon DEF LeaseStates
<1> HIDE DEF new, half
<1>6. /\ leases' \in [Slots -> Lease] /\ leases'[me.slot].ip = leases[me.slot].ip
      /\ \A j \in Slots : j # me.slot => leases'[j] = leases[j]
  <2> DEFINE marked == Marked(half, me.slot, "ACTIVE")
  <2>1. /\ marked \in [Slots -> Lease]
        /\ \A j \in Slots : marked[j].ip = half[j].ip /\ (j # me.slot => marked[j] = half[j])
    BY <1>4, <1>5, MarkedFacts
  <2> HIDE DEF marked
  <2>2. leases' = marked
    BY Zenon, <1>1 DEF marked
  <2> QED
    BY Zenon, <1>2, <1>4, <2>1, <2>2
<1>7. /\ workers' \in [Workers -> WorkerStates] /\ \A v \in Workers : Sound(workers'[v])
      /\ workers'[w] = new /\ \A v \in Workers : v # w => workers'[v] = workers[v]
  BY Zenon, <1>1, <1>3, BecomeSound
<1>8. TypeInv'
  BY Zenon, <1>1, <1>2, <1>6, <1>7, TypedNext DEF Others, Typed
<1> QED
  BY Zenon, <1>1, <1>3, <1>6, <1>7, <1>8 DEF Writes, Others

LEMMA PublishFacts ==
    ASSUME TypeInv, NEW w \in Workers, Publish(w)
    PROVE  /\ TypeInv' /\ Writes(w, "publish", "offer") /\ UNCHANGED leases
           /\ lease_count' = workers[w].n + 1
<1> DEFINE me == workers[w]
           new == [me EXCEPT !.pc = "offer", !.n = 0]
<1>1. /\ me.pc = "publish" /\ lease_count' = me.n + 1 /\ Become(w, new)
      /\ UNCHANGED <<pool, leases, races, Others>>
  BY Zenon DEF Publish
<1>2. /\ me \in WorkerStates /\ me.n \in Nat /\ me.slot \in Slots
      /\ Typed(pool, leases, lease_count, offer, held, races)
  BY Zenon, <1>1, WorkerNow, TypedNow DEF Pointing, Adding
<1>3. Sound(new) /\ new.pc = "offer" /\ new.slot = me.slot /\ new.ip = me.ip
  BY Zenon, <1>2 DEF Sound, WorkerStates, PCs
<1> HIDE DEF new
<1>4. /\ workers' \in [Workers -> WorkerStates] /\ \A v \in Workers : Sound(workers'[v])
      /\ workers'[w] = new /\ \A v \in Workers : v # w => workers'[v] = workers[v]
  BY Zenon, <1>1, <1>3, BecomeSound
<1>5. TypeInv'
  BY <1>1, <1>2, <1>4, TypedNext DEF Others, Typed
<1> QED
  BY Zenon, <1>1, <1>3, <1>4, <1>5 DEF Writes, Others

(* Rollback and Free: the address goes back to the pool. *)
LEMMA GivesBackFacts ==
    ASSUME TypeInv, NEW w \in Workers, Rollback(w) \/ Free(w)
    PROVE  /\ TypeInv' /\ Quiet(w) /\ UNCHANGED <<offer, held>>
           /\ workers'[w].pc = "idle"
           /\ With(pool', "ALLOCATED") \subseteq With(pool, "ALLOCATED") \ {workers[w].ip}
<1>1. /\ pool' = ip_pool_release_ip(pool, workers[w].ip) /\ Become(w, Idle)
      /\ UNCHANGED <<leases, lease_count, races, Others>>
  BY Zenon DEF Rollback, Free
<1>2. Typed(pool, leases, lease_count, offer, held, races) /\ pool \in Pools
  BY Zenon, TypedNow DEF Typed
<1>3. pool' \in Pools
  BY Zenon, <1>1, <1>2, ReleaseSteps, StepsKeep
<1>4. With(pool', "ALLOCATED") \subseteq With(pool, "ALLOCATED") \ {workers[w].ip}
  BY <1>1, <1>2, AllocatedFacts
<1>5. /\ workers' \in [Workers -> WorkerStates] /\ \A v \in Workers : Sound(workers'[v])
      /\ workers'[w] = Idle /\ \A v \in Workers : v # w => workers'[v] = workers[v]
  BY Zenon, <1>1, IdleSound, BecomeSound
<1>6. TypeInv'
  BY Zenon, <1>1, <1>2, <1>3, <1>5, TypedNext DEF Others, Typed
<1> QED
  BY <1>1, <1>4, <1>5, <1>6 DEF Quiet, Adding, Idle, Others

(* Offer, Nak and the acknowledgement: only Ack gives a client an address, that of
   the lease the worker points to, while the client waits for it. *)
LEMMA RepliesFacts ==
    ASSUME TypeInv, NEW w \in Workers, Offer(w) \/ Nak(w) \/ Ack(w)
    PROVE  /\ TypeInv' /\ Quiet(w) /\ UNCHANGED pool
           /\ workers'[w].pc = "idle"
           /\ workers[w].pc \in {"offer", "nak", "ack"}
           /\ \/ UNCHANGED held
              \/ /\ workers[w].pc = "ack" /\ workers[w].xid
                 /\ held' = [held EXCEPT ![workers[w].mac] = leases[workers[w].slot].ip]
<1> DEFINE me == workers[w]
<1>1. /\ Become(w, Idle) /\ me.pc \in {"offer", "nak", "ack"}
      /\ UNCHANGED <<pool, leases, lease_count, races, timer, sync, saved, packets, restarts>>
  BY Zenon DEF Offer, Nak, Ack
<1>2. /\ \/ UNCHANGED offer
         \/ offer' = [offer EXCEPT ![me.mac] = 0]
         \/ me.pc = "offer" /\ offer' = [offer EXCEPT ![me.mac] = leases[me.slot].ip]
      /\ \/ UNCHANGED held
         \/ me.pc = "ack" /\ me.xid /\ held' = [held EXCEPT ![me.mac] = leases[me.slot].ip]
  BY Zenon DEF Offer, Nak, Ack
<1>3. /\ Typed(pool, leases, lease_count, offer, held, races)
      /\ me.pc \in {"offer", "ack"} => me.slot \in Slots
  BY Zenon, TypedNow, WorkerNow DEF Pointing
<1>4. me.pc \in {"offer", "ack"} => leases[me.slot].ip \in Addresses \union {0}
  BY Zenon, <1>3 DEF Typed, Lease
<1>5. /\ offer' \in [Macs -> Addresses \union {0}]
      /\ held' \in [Macs -> Addresses \union {0}]
  BY Zenon, <1>2, <1>3, <1>4 DEF Typed
<1>6. /\ workers' \in [Workers -> WorkerStates] /\ \A v \in Workers : Sound(workers'[v])
      /\ workers'[w] = Idle /\ \A v \in Workers : v # w => workers'[v] = workers[v]
  BY Zenon, <1>1, IdleSound, BecomeSound
<1>7. TypeInv'
  BY Zenon, <1>1, <1>3, <1>5, <1>6, TypedNext DEF Typed
<1> QED
  BY SMTT(30), <1>1, <1>2, <1>6, <1>7 DEF Quiet, Adding, Idle

(* Request renews the lease of the address if it is the client's, Renew whoever's it
   is; otherwise they leave the database alone. *)
LEMMA RequestFacts ==
    ASSUME TypeInv, NEW w \in Workers, Request(w) \/ Renew(w)
    PROVE  /\ TypeInv'
           /\ workers[w].pc \in {"request", "renew"}
           /\ \/ \E i \in Slots : Renews(w, i)
              \/ Quiet(w) /\ UNCHANGED <<pool, offer, held>>
<1> DEFINE me == workers[w]
           i == lease_db_find_by_ip(me.ip)
           acked == [me EXCEPT !.pc = "ack", !.slot = i]
           refused == [me EXCEPT !.pc = "nak"]
<1>1. me \in WorkerStates /\ Typed(pool, leases, lease_count, offer, held, races)
  BY Zenon, WorkerNow, TypedNow
<1>2. /\ i \in Slots \union {None}
      /\ i # None => i \in Slots /\ i < lease_count /\ leases[i].ip = me.ip
  BY Zenon, FindByIp
<1>3. me.pc \in {"request", "renew"} /\ UNCHANGED <<pool, lease_count, Others>>
  BY Zenon DEF Request, Renew
<1>4. \/ /\ i # None /\ leases' = Renewed(i) /\ races' = races \union RenewalRaces(i)
         /\ (leases[i].mac = me.mac /\ Become(w, acked)) \/ Become(w, Idle)
      \/ UNCHANGED <<leases, races>> /\ (Become(w, refused) \/ Become(w, Idle))
  BY Zenon DEF Request, Renew
<1>5. /\ i # None => Sound(acked) /\ acked.pc = "ack" /\ acked.slot = i /\ acked.mac = me.mac
      /\ Sound(refused) /\ refused.pc = "nak"
      /\ Idle.pc = "idle"
  <2> HIDE DEF i
  <2> QED
    BY Zenon, <1>1, <1>2 DEF Sound, WorkerStates, PCs, Pointing, Adding, Idle
<1> HIDE DEF i, acked, refused
<1>6. ASSUME NEW new, Sound(new), Become(w, new)
      PROVE  /\ workers' \in [Workers -> WorkerStates] /\ \A v \in Workers : Sound(workers'[v])
             /\ workers'[w] = new /\ \A v \in Workers : v # w => workers'[v] = workers[v]
  BY Zenon, <1>6, BecomeSound
<1>7. CASE /\ i # None /\ leases' = Renewed(i) /\ races' = races \union RenewalRaces(i)
           /\ (leases[i].mac = me.mac /\ Become(w, acked)) \/ Become(w, Idle)
  <2>1. leases' = Marked(leases, i, "ACTIVE")
    BY Zenon, <1>7 DEF Renewed, Marked
  <2>2. /\ workers' \in [Workers -> WorkerStates] /\ \A v \in Workers : Sound(workers'[v])
        /\ workers'[w].pc \in {"ack", "idle"} /\ \A v \in Workers : v # w => workers'[v] = workers[v]
        /\ workers'[w].pc = "ack" => workers'[w].slot = i /\ leases[i].mac = workers'[w].mac
    BY Zenon, <1>5, <1>6, <1>7, IdleSound
  <2>3. Renews(w, i)
    BY Zenon, <1>2, <1>3, <1>7, <2>1, <2>2 DEF Renews, Others
  <2>4. TypeInv'
    BY Zenon, <1>3, <2>2, <2>3, RenewsTypes, TypedNext DEF Others
  <2> QED
    BY Zenon, <1>2, <1>3, <1>7, <2>3, <2>4
<1>8. CASE UNCHANGED <<leases, races>> /\ (Become(w, refused) \/ Become(w, Idle))
  <2>1. /\ workers' \in [Workers -> WorkerStates] /\ \A v \in Workers : Sound(workers'[v])
        /\ workers'[w].pc \in {"nak", "idle"} /\ \A v \in Workers : v # w => workers'[v] = workers[v]
    BY Zenon, <1>5, <1>6, <1>8, IdleSound
  <2>2. TypeInv'
    BY Zenon, <1>1, <1>3, <1>8, <2>1, TypedNext DEF Others
  <2> QED
    BY Zenon, <1>3, <1>8, <2>1, <2>2 DEF Quiet, Adding, Others
<1> QED
  BY Zenon, <1>4, <1>7, <1>8

(* Release marks a lease of the address, if there is one. *)
LEMMA ReleaseFacts ==
    ASSUME TypeInv, NEW w \in Workers, Release(w)
    PROVE  /\ TypeInv'
           /\ workers[w].pc = "release" /\ workers'[w].pc = "free"
           /\ \/ UNCHANGED leases
              \/ \E i \in Slots : /\ i < lease_count /\ leases[i].ip = workers[w].ip
                                  /\ leases' = Marked(leases, i, "RELEASED")
           /\ \A v \in Workers : v # w => workers'[v] = workers[v]
           /\ UNCHANGED <<pool, lease_count, races, timer, sync, saved, offer, held, packets, restarts>>
<1> DEFINE me == workers[w]
           i == lease_db_find_by_ip(me.ip)
           new == [me EXCEPT !.pc = "free"]
<1>1. /\ me \in WorkerStates /\ Typed(pool, leases, lease_count, offer, held, races)
      /\ leases \in [Slots -> Lease]
  BY Zenon, WorkerNow, TypedNow DEF Typed
<1>2. /\ i \in Slots \union {None}
      /\ i # None => i \in Slots /\ i < lease_count /\ leases[i].ip = me.ip
  BY Zenon, FindByIp
<1>3. /\ me.pc = "release" /\ UNCHANGED <<pool, lease_count, races, Others>>
      /\ Become(w, new)
      /\ leases' = IF i = None THEN leases ELSE Marked(leases, i, "RELEASED")
  BY Zenon DEF Release, Released, Marked
<1>4. Sound(new) /\ new.pc = "free"
  BY Zenon, <1>1 DEF Sound, WorkerStates, PCs, Pointing, Adding
<1> HIDE DEF i, new
<1>5. "RELEASED" \in LeaseStates
  BY Zenon DEF LeaseStates
<1>6. Marked(leases, i, "RELEASED") \in [Slots -> Lease]
  BY Zenon, <1>1, <1>5, MarkedFacts
<1>7. /\ workers' \in [Workers -> WorkerStates] /\ \A v \in Workers : Sound(workers'[v])
      /\ workers'[w].pc = "free" /\ \A v \in Workers : v # w => workers'[v] = workers[v]
  BY Zenon, <1>3, <1>4, BecomeSound
<1>8. TypeInv'
  BY Zenon, <1>1, <1>3, <1>6, <1>7, TypedNext DEF Others, Typed
<1> QED
  BY Zenon, <1>2, <1>3, <1>7, <1>8 DEF Others

(* The packets of a client, and the client that gives up an address. *)
Arrives(w, m) ==
    \/ \E requested \in Requests : ReceiveDiscover(w, m, requested)
    \/ ReceiveRequest(w, m)
    \/ ReceiveRenewal(w, m)
    \/ ReceiveRelease(w, m)

LEMMA ArrivesFacts ==
    ASSUME TypeInv, NEW w \in Workers, NEW m \in Macs, Arrives(w, m)
    PROVE  /\ TypeInv'
           /\ workers[w].pc = "idle"
           /\ workers'[w].pc \in {"discover", "request", "renew", "release"}
           /\ \A v \in Workers \ {w} :
                /\ workers'[v].pc = workers[v].pc /\ workers'[v].mac = workers[v].mac
                /\ workers'[v].ip = workers[v].ip /\ workers'[v].slot = workers[v].slot
                /\ workers'[v].n = workers[v].n
                /\ workers'[v].xid => workers[v].xid
           /\ workers'[w].pc = "release" =>
                /\ held[m] # 0 /\ workers'[w].ip = held[m]
                /\ held' = [held EXCEPT ![m] = 0]
                /\ \A v \in Workers \ {w} : workers'[v].xid => workers[v].mac # m
           /\ workers'[w].pc # "release" => UNCHANGED held
           /\ UNCHANGED <<pool, leases, lease_count, timer, sync, saved, races, offer, restarts>>
<1>1. /\ Typed(pool, leases, lease_count, offer, held, races)
      /\ offer[m] \in Addresses \union {0} /\ held[m] \in Addresses \union {0}
      /\ held \in [Macs -> Addresses \union {0}]
  BY Zenon, TypedNow DEF Typed
<1>2. PICK pc \in {"discover", "request", "renew", "release"}, ip \in Addresses \union {0} :
         /\ Receive(w, pc, m, ip)
         /\ IF pc = "release" THEN held[m] # 0 /\ ip = held[m] /\ held' = [held EXCEPT ![m] = 0]
            ELSE UNCHANGED held
         /\ UNCHANGED offer
  <2>1. Requests \subseteq Addresses \union {0}
    BY Zenon, RequestsAssumption DEF Addresses
  <2> QED
    BY Zenon, <1>1, <2>1 DEF Arrives, ReceiveDiscover, ReceiveRequest, ReceiveRenewal, ReceiveRelease
<1>3. /\ workers' \in [Workers -> WorkerStates]
      /\ \A v \in Workers : Sound(workers'[v])
      /\ workers'[w].pc = pc /\ workers'[w].mac = m /\ workers'[w].ip = ip
      /\ \A v \in Workers \ {w} :
           /\ workers'[v].pc = workers[v].pc /\ workers'[v].mac = workers[v].mac
           /\ workers'[v].ip = workers[v].ip /\ workers'[v].slot = workers[v].slot
           /\ workers'[v].n = workers[v].n
           /\ workers'[v].xid => workers[v].xid /\ (pc = "release" => workers[v].mac # m)
  BY SMTT(30), <1>2, ReceiveFacts
<1>4. /\ workers[w].pc = "idle" /\ packets < MaxPackets /\ packets' = packets + 1
      /\ UNCHANGED <<pool, leases, lease_count, timer, sync, saved, races, restarts>>
  BY Zenon, <1>2 DEF Receive
<1>5. held' \in [Macs -> Addresses \union {0}]
  BY Zenon, <1>1, <1>2
<1>6. packets' \in 0 .. MaxPackets
  <2>1. packets \in 0 .. MaxPackets
    BY Zenon DEF TypeInv, TypeOK
  <2> QED
    BY <1>4, <2>1, BoundsAssumption
<1>7. TypeInv'
  BY Zenon, <1>2, <1>3, <1>4, <1>5, <1>6 DEF TypeInv, TypeOK, WorkerStates, Sound
<1> QED
  BY Zenon, <1>2, <1>3, <1>4, <1>7

LEMMA StartsOverFacts ==
    ASSUME TypeInv, NEW m \in Macs, ClientStartsOver(m)
    PROVE  /\ TypeInv'
           /\ \A v \in Workers :
                /\ workers'[v].pc = workers[v].pc /\ workers'[v].mac = workers[v].mac
                /\ workers'[v].ip = workers[v].ip /\ workers'[v].slot = workers[v].slot
                /\ workers'[v].n = workers[v].n
                /\ workers'[v].xid => workers[v].xid
           /\ held' = [held EXCEPT ![m] = 0]
           /\ UNCHANGED <<pool, leases, lease_count, timer, sync, saved, races, packets, restarts>>
<1>1. /\ workers' = Forgotten(m)
      /\ held' = [held EXCEPT ![m] = 0] /\ offer' = [offer EXCEPT ![m] = 0]
      /\ UNCHANGED <<pool, leases, lease_count, timer, sync, saved, races, packets, restarts>>
  BY Zenon DEF ClientStartsOver
<1>2. /\ workers' \in [Workers -> WorkerStates]
      /\ \A v \in Workers :
           /\ Sound(workers'[v])
           /\ workers'[v].pc = workers[v].pc /\ workers'[v].mac = workers[v].mac
           /\ workers'[v].ip = workers[v].ip /\ workers'[v].slot = workers[v].slot
           /\ workers'[v].n = workers[v].n
           /\ workers'[v].xid => workers[v].xid
  BY <1>1, ForgottenFacts
<1>3. Typed(pool', leases', lease_count', offer', held', races')
  BY Zenon, <1>1, TypedNow DEF Typed
<1> QED
  BY Zenon, <1>1, <1>2, <1>3, TypedNext

(* The timer, the synchronisation thread and the passing of time. *)
LEMMA ThreadTypes ==
    ASSUME TypeInv,
           \/ \E i \in Slots : TimerFinds(i) \/ LeaseRunsOut(i)
           \/ TimerMarks
           \/ SyncStep
    PROVE  TypeInv'
<1>1. /\ pool \in Pools /\ leases \in [Slots -> Lease] /\ lease_count \in Nat
      /\ timer \in Slots \union {None}
      /\ sync \in [at : Nat, expiring : BOOLEAN, running : BOOLEAN]
  BY Zenon DEF TypeInv, TypeOK
<1>2. SUFFICES /\ UNCHANGED <<lease_count, workers, saved, offer, held, races, packets, restarts>>
               /\ pool' \in Pools
               /\ leases' \in [Slots -> Lease]
               /\ timer' \in Slots \union {None}
               /\ sync' \in [at : Nat, expiring : BOOLEAN, running : BOOLEAN]
  BY Zenon DEF TypeInv, TypeOK, Sound
<1>3. \A i : Marked(leases, i, "EXPIRED") \in [Slots -> Lease]
  <2>1. "EXPIRED" \in LeaseStates
    BY Zenon DEF LeaseStates
  <2> QED
    BY Zenon, <1>1, <2>1, MarkedFacts
<1>4. ASSUME NEW i \in Slots, TimerFinds(i)
      PROVE  <1>2!1
  BY Zenon, <1>1, <1>4 DEF TimerFinds
<1>5. ASSUME NEW i \in Slots, LeaseRunsOut(i)
      PROVE  <1>2!1
  <2>1. \A l \in Lease : [l EXCEPT !.over = TRUE] \in Lease
    BY Zenon DEF Lease
  <2>2. [leases EXCEPT ![i].over = TRUE] \in [Slots -> Lease]
    BY Zenon, <1>1, <2>1
  <2> QED
    BY Zenon, <1>1, <1>5, <2>2 DEF LeaseRunsOut
<1>6. CASE TimerMarks
  BY Zenon, <1>1, <1>3, <1>6 DEF TimerMarks, Expired, Marked
<1>7. CASE SyncBegin \/ SyncEnd
  <2>1. \A b \in BOOLEAN : [at |-> 0, expiring |-> FALSE, running |-> b]
                            \in [at : Nat, expiring : BOOLEAN, running : BOOLEAN]
    BY Zenon
  <2>2. sync' \in [at : Nat, expiring : BOOLEAN, running : BOOLEAN]
    BY Zenon, <1>7, <2>1 DEF SyncBegin, SyncEnd
  <2> QED
    BY Zenon, <1>1, <1>7, <2>2 DEF SyncBegin, SyncEnd
<1>8. CASE SyncFinds
  BY Zenon, <1>1, <1>8 DEF SyncFinds
<1>9. CASE SyncMarks
  <2>1. [sync EXCEPT !.expiring = FALSE] \in [at : Nat, expiring : BOOLEAN, running : BOOLEAN]
    BY Zenon, <1>1
  <2> QED
    BY Zenon, <1>1, <1>3, <1>9, <2>1 DEF SyncMarks, Expired, Marked
<1>10. CASE SyncTurn
  <2> DEFINE lease == LeaseAt(sync.at)
  <2>1. lease \in Lease
    BY Zenon, <1>1 DEF LeaseAt, NoLease, Lease, LeaseStates
  <2>2. lease.state \in LeaseStates /\ lease.mac \in Macs \union {NoMac}
    <3> HIDE DEF lease
    <3> QED
      BY Zenon, <2>1 DEF Lease
  <2>3. SyncEntry(pool, lease.ip, lease.state, lease.mac) \in Pools
    <3> HIDE DEF lease
    <3> QED
      BY Zenon, <1>1, <2>2, UpdateSteps, StepsKeep
  <2>4. sync' \in [at : Nat, expiring : BOOLEAN, running : BOOLEAN]
    BY <1>1, <1>10 DEF SyncTurn
  <2> QED
    BY Zenon, <1>1, <1>10, <2>3, <2>4 DEF SyncTurn
<1> QED
  BY Zenon, <1>4, <1>5, <1>6, <1>7, <1>8, <1>9, <1>10 DEF SyncStep

(* A start of the server, from an image of the database. *)
LEMMA StartFacts ==
    ASSUME TypeInv, NEW image \in Images, Start(image),
           races' \subseteq {"add", "expire", "release", "crash"}
    PROVE  /\ TypeInv'
           /\ \A w \in Workers : workers'[w].pc = "idle"
           /\ ~ sync'.expiring
<1>1. /\ restarts < MaxRestarts /\ restarts' = restarts + 1
      /\ leases' = Loaded(image)
      /\ lease_count' = IF image.count > MaxLeases THEN MaxLeases ELSE image.count
      /\ pool' = ip_pool_init(image)
      /\ workers' = [w \in Workers |-> Idle]
      /\ timer' = None
      /\ sync' = [at |-> 0, expiring |-> FALSE, running |-> FALSE]
      /\ saved' = image
      /\ UNCHANGED <<offer, held, packets>>
  BY Zenon DEF Start
<1>2. leases' \in [Slots -> Lease] /\ pool' \in Pools
  BY Zenon, <1>1, LoadedFacts, PoolInitFacts
<1>3. lease_count' \in Nat
  BY Zenon, <1>1, MaxLeasesAssumption DEF Images
<1>4. restarts' \in 0 .. MaxRestarts
  <2>1. restarts \in 0 .. MaxRestarts
    BY Zenon DEF TypeInv, TypeOK
  <2> QED
    BY <1>1, <2>1, BoundsAssumption
<1>5. /\ workers' \in [Workers -> WorkerStates]
      /\ \A w \in Workers : Sound(workers'[w]) /\ workers'[w] = Idle
  BY Zenon, <1>1, IdleSound DEF Sound
<1>6. timer' \in Slots \union {None} /\ sync' \in [at : Nat, expiring : BOOLEAN, running : BOOLEAN]
      /\ saved' \in Images /\ ~ sync'.expiring
  BY Zenon, <1>1
<1>7. TypeInv'
  BY Zenon, <1>1, <1>2, <1>3, <1>4, <1>5, <1>6 DEF TypeInv, TypeOK, WorkerStates, Images, Sound
<1> QED
  BY <1>5, <1>6, <1>7 DEF Idle

LEMMA ImagesNow == TypeInv => saved \in Images /\ [leases |-> leases, count |-> lease_count] \in Images
BY Zenon DEF TypeInv, TypeOK, Images

LEMMA WorkerTypes ==
    ASSUME TypeInv, NEW w \in Workers, WorkerStep(w)
    PROVE  TypeInv'
BY Zenon, DiscoverFacts, AllocateFacts, BindFacts, ClearFacts, FillFacts, PublishFacts, GivesBackFacts,
   RepliesFacts, RequestFacts, ReleaseFacts DEF WorkerStep

LEMMA TypeInit == Init => TypeInv
<1> SUFFICES ASSUME Init PROVE TypeInv
  BY Zenon
<1>1. NoLease \in Lease
  BY Zenon DEF NoLease, Lease, LeaseStates
<1>2. workers \in [Workers -> WorkerStates] /\ \A w \in Workers : Sound(workers[w])
  BY Zenon, IdleSound DEF Init, Sound
<1>3. pool \in Pools
  BY Zenon, ConfiguredCounts DEF Init
<1> QED
  BY <1>1, <1>2, <1>3, BoundsAssumption, MaxLeasesAssumption
  DEF Init, TypeInv, TypeOK, WorkerStates, None

LEMMA TypeStep == TypeInv /\ [Next]_vars => TypeInv'
<1> SUFFICES ASSUME TypeInv, [Next]_vars PROVE TypeInv'
  BY Zenon
<1>1. CASE UNCHANGED vars
  BY Zenon, <1>1 DEF vars, TypeInv, TypeOK, Sound
<1>2. CASE StopAndStart \/ CrashAndStart
  BY Zenon, <1>2, ImagesNow, StartFacts, TypedNow DEF StopAndStart, CrashAndStart, Typed
<1> QED
  BY Zenon, <1>1, <1>2, WorkerTypes, ArrivesFacts, StartsOverFacts, ThreadTypes DEF Next, Arrives

--------------------------------------------------------------------------------
(* The kinds of steps.  Most neither add a lease nor count one, and no worker starts
   to. *)

SameDb ==
    /\ \A i \in Slots : leases'[i].ip = leases[i].ip /\ leases'[i].mac = leases[i].mac
    /\ \A v \in Workers : workers'[v].pc \in Adding =>
         /\ workers'[v].pc = workers[v].pc /\ workers'[v].slot = workers[v].slot
         /\ workers'[v].ip = workers[v].ip /\ workers'[v].n = workers[v].n
    /\ races \subseteq races'
    /\ UNCHANGED <<lease_count, saved>>

(* The lease that runs out keeps its address, its owner and its state. *)
LEMMA RunsOutFacts ==
    ASSUME TypeInv, NEW i \in Slots, LeaseRunsOut(i)
    PROVE  /\ \A j \in Slots : leases'[j].ip = leases[j].ip /\ leases'[j].mac = leases[j].mac
           /\ \A j \in Slots : j # i => leases'[j] = leases[j]
           /\ leases'[i].over
<1>1. leases \in [Slots -> Lease] /\ leases' = [leases EXCEPT ![i].over = TRUE]
  BY Zenon, TypedNow DEF Typed, LeaseRunsOut
<1>2. \A l \in Lease : LET k == [l EXCEPT !.over = TRUE] IN k.ip = l.ip /\ k.mac = l.mac /\ k.over
  BY Zenon DEF Lease
<1>3. leases' = [j \in Slots |-> IF j = i THEN [leases[j] EXCEPT !.over = TRUE] ELSE leases[j]]
  BY Zenon, <1>1
<1> QED
  BY Zenon, <1>1, <1>2, <1>3

(* The threads that mark a lease expired, and the lease they mark. *)
LEMMA MarksFacts ==
    ASSUME TypeInv, NEW i, leases' = Marked(leases, i, "EXPIRED")
    PROVE  /\ \A j \in Slots : leases'[j].ip = leases[j].ip /\ leases'[j].mac = leases[j].mac
           /\ \A j \in Slots : j # i => leases'[j] = leases[j]
           /\ i \in Slots => leases'[i].state = "EXPIRED"
<1>1. leases \in [Slots -> Lease] /\ "EXPIRED" \in LeaseStates
  BY Zenon, TypedNow DEF Typed, LeaseStates
<1> QED
  BY <1>1, MarkedFacts

LEMMA RenewsSame ==
    ASSUME TypeInv, NEW w \in Workers, NEW i, Renews(w, i)
    PROVE  /\ SameDb
           /\ \A j \in Slots : j # i => leases'[j] = leases[j]
           /\ leases'[i].state = "ACTIVE" /\ ~ leases'[i].over
<1>1. /\ leases \in [Slots -> Lease] /\ "ACTIVE" \in LeaseStates
      /\ leases' = Marked(leases, i, "ACTIVE") /\ i \in Slots
  BY Zenon, TypedNow DEF Typed, LeaseStates, Renews
<1>2. /\ \A j \in Slots : leases'[j].ip = leases[j].ip /\ leases'[j].mac = leases[j].mac
      /\ \A j \in Slots : j # i => leases'[j] = leases[j]
      /\ leases'[i].state = "ACTIVE" /\ ~ leases'[i].over
  BY <1>1, MarkedFacts
<1> QED
  BY Zenon, <1>2 DEF SameDb, Renews, Adding

LEMMA StepKinds ==
    ASSUME TypeInv, [Next]_vars
    PROVE  \/ SameDb
           \/ \E w \in Workers : Picks(w) \/ Clear(w) \/ Fill(w) \/ Publish(w)
           \/ StopAndStart
           \/ CrashAndStart
<1>1. CASE UNCHANGED vars
  BY Zenon, <1>1 DEF SameDb, vars
<1>2. ASSUME NEW w \in Workers, Quiet(w)
      PROVE  SameDb
  BY Zenon, <1>2 DEF SameDb, Quiet
<1>3. ASSUME NEW w \in Workers, WorkerStep(w)
      PROVE  SameDb \/ Picks(w) \/ Clear(w) \/ Fill(w) \/ Publish(w)
  <2>1. CASE Discover(w) \/ Allocate(w) \/ Rollback(w) \/ Free(w) \/ Offer(w) \/ Nak(w) \/ Ack(w)
    BY Zenon, <1>2, <2>1, DiscoverFacts, AllocateFacts, GivesBackFacts, RepliesFacts
  <2>2. CASE Bind(w) \/ Request(w) \/ Renew(w)
    BY Zenon, <1>2, <2>2, BindFacts, RequestFacts, RenewsSame
  <2>3. CASE Release(w)
    <3>1. leases \in [Slots -> Lease] /\ "RELEASED" \in LeaseStates
      BY Zenon, TypedNow DEF Typed, LeaseStates
    <3>2. \A j \in Slots : leases'[j].ip = leases[j].ip /\ leases'[j].mac = leases[j].mac
      BY SMTT(30), <2>3, <3>1, ReleaseFacts, MarkedFacts
    <3> QED
      BY Zenon, <2>3, <3>2, ReleaseFacts DEF SameDb, Adding
  <2> QED
    BY Zenon, <1>3, <2>1, <2>2, <2>3 DEF WorkerStep
<1>4. ASSUME NEW w \in Workers, NEW m \in Macs, Arrives(w, m)
      PROVE  SameDb
  BY Zenon, <1>4, ArrivesFacts DEF SameDb, Adding
<1>5. ASSUME NEW m \in Macs, ClientStartsOver(m)
      PROVE  SameDb
  BY Zenon, <1>5, StartsOverFacts DEF SameDb
<1>6. ASSUME NEW i \in Slots, TimerFinds(i) \/ LeaseRunsOut(i)
      PROVE  SameDb
  <2>1. CASE TimerFinds(i)
    BY Zenon, <2>1 DEF TimerFinds, SameDb
  <2>2. CASE LeaseRunsOut(i)
    <3>1. UNCHANGED <<lease_count, workers, saved, races>>
      BY Zenon, <2>2 DEF LeaseRunsOut
    <3> QED
      BY Zenon, <2>2, <3>1, RunsOutFacts DEF SameDb
  <2> QED
    BY Zenon, <1>6, <2>1, <2>2
<1>7. CASE TimerMarks \/ SyncMarks
  <2>1. PICK i : leases' = Marked(leases, i, "EXPIRED")
    BY Zenon, <1>7 DEF TimerMarks, SyncMarks, Expired, Marked
  <2>2. UNCHANGED <<lease_count, workers, saved, races>>
    BY Zenon, <1>7 DEF TimerMarks, SyncMarks
  <2> QED
    BY Zenon, <2>1, <2>2, MarksFacts DEF SameDb
<1>8. CASE SyncBegin \/ SyncFinds \/ SyncTurn \/ SyncEnd
  BY Zenon, <1>8 DEF SyncBegin, SyncFinds, SyncTurn, SyncEnd, SameDb
<1> QED
  BY Zenon, <1>1, <1>3, <1>4, <1>5, <1>6, <1>7, <1>8 DEF Next, Arrives, SyncStep

--------------------------------------------------------------------------------
(* One lease per address.  As long as no two workers added at the same time, the one
   that adds has the slot behind the last lease, nobody else writes lease_count, and
   its address has no lease yet. *)

Unique(ls, n) == \A i, j \in Slots : i < j /\ j < n => ls[i].ip # ls[j].ip

AloneAt(w) ==
    /\ \A v \in Workers : workers[v].pc \in Adding => v = w
    /\ workers[w].slot = lease_count
    /\ \A i \in Slots : i < lease_count => leases[i].ip # workers[w].ip
    /\ workers[w].pc \in {"fill", "publish"} => leases[lease_count].ip = workers[w].ip
    /\ workers[w].pc = "publish" => workers[w].n = lease_count

AddInv ==
    "add" \notin races =>
      /\ lease_count <= MaxLeases /\ saved.count <= MaxLeases
      /\ Unique(leases, lease_count) /\ Unique(saved.leases, saved.count)
      /\ \A w \in Workers : workers[w].pc \in Adding => AloneAt(w)

LEMMA AddInit == Init => AddInv
<1> SUFFICES ASSUME Init PROVE AddInv
  BY Zenon
<1>1. lease_count = 0 /\ saved.count = 0 /\ \A w \in Workers : workers[w].pc = "idle"
  BY Zenon DEF Init, Idle
<1>2. Unique(leases, 0) /\ Unique(saved.leases, 0)
  BY SlotsFacts DEF Unique
<1> QED
  BY <1>1, <1>2, MaxLeasesAssumption DEF AddInv, Adding

(* The worker that writes is the only one, and writes behind the leases. *)
LEMMA WritesAlone ==
    ASSUME TypeInv, AddInv, "add" \notin races, NEW w \in Workers, NEW from \in Adding, NEW to,
           Writes(w, from, to)
    PROVE  /\ AloneAt(w) /\ lease_count \in Slots /\ workers[w].slot = lease_count
           /\ \A i \in Slots : i < lease_count => leases'[i] = leases[i]
           /\ \A v \in Workers : workers'[v].pc \in Adding => v = w
<1>1. lease_count \in Nat
  BY Zenon, TypedNow DEF Typed
<1>2. AloneAt(w) /\ workers[w].slot = lease_count
  BY Zenon DEF Writes, AloneAt, AddInv
<1>3. lease_count \in Slots
  BY Zenon, <1>2, WorkerNow DEF Writes, Pointing
<1>4. \A i \in Slots : i < lease_count => leases'[i] = leases[i]
  BY <1>1, <1>2, SlotsFacts DEF Writes
<1> QED
  BY Zenon, <1>2, <1>3, <1>4 DEF Writes, AloneAt

LEMMA AddStep == TypeInv /\ AddInv /\ [Next]_vars => AddInv'
<1> SUFFICES ASSUME TypeInv, AddInv, [Next]_vars, "add" \notin races' PROVE AddInv'
  BY Zenon DEF AddInv
<1>0. SUFFICES /\ lease_count' <= MaxLeases /\ saved'.count <= MaxLeases
               /\ Unique(leases', lease_count') /\ Unique(saved'.leases, saved'.count)
               /\ \A w \in Workers : workers'[w].pc \in Adding => AloneAt(w)'
  BY Zenon DEF AddInv
<1>1. /\ Typed(pool, leases, lease_count, offer, held, races)
      /\ lease_count \in Nat /\ leases \in [Slots -> Lease] /\ saved \in Images
  BY Zenon, TypedNow, ImagesNow DEF Typed
<1>2. ASSUME "add" \notin races
      PROVE  /\ lease_count <= MaxLeases /\ saved.count <= MaxLeases
             /\ Unique(leases, lease_count) /\ Unique(saved.leases, saved.count)
             /\ \A w \in Workers : workers[w].pc \in Adding => AloneAt(w)
  BY Zenon, <1>2 DEF AddInv
<1>3. CASE SameDb
  <2>1. "add" \notin races
    BY Zenon, <1>3 DEF SameDb
  <2>2. Unique(leases', lease_count')
    BY <1>2, <1>3, <2>1 DEF SameDb, Unique
  <2>3. ASSUME NEW w \in Workers, workers'[w].pc \in Adding
        PROVE  AloneAt(w)'
    <3>1. /\ workers'[w].pc = workers[w].pc /\ workers'[w].slot = workers[w].slot
          /\ workers'[w].ip = workers[w].ip /\ workers'[w].n = workers[w].n
          /\ AloneAt(w)
      BY Zenon, <1>2, <1>3, <2>1, <2>3 DEF SameDb
    <3>2. workers[w].slot \in Slots
      BY Zenon, <2>3, <3>1, WorkerNow DEF Pointing
    <3> QED
      BY Zenon, <1>3, <3>1, <3>2 DEF SameDb, AloneAt
  <2> QED
    BY Zenon, <1>2, <1>3, <2>1, <2>2, <2>3 DEF SameDb
<1>4. ASSUME NEW w \in Workers, Picks(w)
      PROVE  <1>0!1
  <2>1. "add" \notin races /\ \A v \in Workers : v # w => workers[v].pc \notin Adding
    BY Zenon, <1>4 DEF Picks
  <2>2. \A v \in Workers : workers'[v].pc \in Adding => v = w
    BY Zenon, <1>4, <2>1 DEF Picks
  <2>3. AloneAt(w)'
    BY Zenon, <1>4, <2>2 DEF Picks, AloneAt
  <2> QED
    BY Zenon, <1>2, <1>4, <2>1, <2>2, <2>3 DEF Picks
<1>5. ASSUME NEW w \in Workers, NEW from \in Adding, NEW to, Writes(w, from, to)
      PROVE  /\ "add" \notin races /\ AloneAt(w) /\ lease_count \in Slots
             /\ workers[w].slot = lease_count
             /\ \A i \in Slots : i < lease_count => leases'[i] = leases[i]
             /\ \A v \in Workers : workers'[v].pc \in Adding => v = w
             /\ UNCHANGED saved
  <2>1. "add" \notin races /\ UNCHANGED saved
    BY Zenon, <1>5 DEF Writes
  <2> QED
    BY Zenon, <1>5, <2>1, WritesAlone
<1>6. ASSUME NEW w \in Workers, Clear(w) \/ Fill(w)
      PROVE  <1>0!1
  <2>1. PICK from \in Adding, to \in {"fill", "publish"} : Writes(w, from, to)
    BY Zenon, <1>6, ClearFacts, FillFacts DEF Adding
  <2>2. /\ "add" \notin races /\ AloneAt(w) /\ lease_count \in Slots
        /\ workers[w].slot = lease_count
        /\ \A i \in Slots : i < lease_count => leases'[i] = leases[i]
        /\ \A v \in Workers : workers'[v].pc \in Adding => v = w
        /\ UNCHANGED saved
    BY Zenon, <1>5, <2>1
  <2>3. UNCHANGED lease_count
    BY Zenon, <1>6, ClearFacts, FillFacts
  <2>4. Unique(leases', lease_count')
    BY <1>1, <1>2, <2>2, <2>3, SlotsFacts DEF Unique
  <2>5. /\ leases'[lease_count].ip = workers[w].ip
        /\ workers'[w].pc = "publish" => workers'[w].n = lease_count
    <3>1. CASE Clear(w)
      BY Zenon, <2>2, <3>1, ClearFacts DEF Writes
    <3>2. CASE Fill(w)
      BY Zenon, <2>2, <3>2, FillFacts DEF Writes, AloneAt
    <3> QED
      BY Zenon, <1>6, <3>1, <3>2
  <2>6. AloneAt(w)'
    BY Zenon, <2>1, <2>2, <2>3, <2>5 DEF Writes, AloneAt
  <2> QED
    BY Zenon, <1>2, <2>2, <2>3, <2>4, <2>6
<1>7. ASSUME NEW w \in Workers, Publish(w)
      PROVE  <1>0!1
  <2>1. /\ Writes(w, "publish", "offer") /\ UNCHANGED leases /\ lease_count' = workers[w].n + 1
    BY Zenon, <1>7, PublishFacts
  <2>2. /\ "add" \notin races /\ AloneAt(w) /\ lease_count \in Slots
        /\ workers[w].slot = lease_count
        /\ \A v \in Workers : workers'[v].pc \in Adding => v = w
        /\ UNCHANGED saved
    BY Zenon, <1>5, <2>1 DEF Adding
  <2>3. /\ lease_count' = lease_count + 1
        /\ leases[lease_count].ip = workers[w].ip
        /\ \A i \in Slots : i < lease_count => leases[i].ip # workers[w].ip
    BY Zenon, <2>1, <2>2 DEF AloneAt, Writes
  <2>4. Unique(leases', lease_count')
    <3> SUFFICES ASSUME NEW i \in Slots, NEW j \in Slots, i < j, j < lease_count + 1
                 PROVE  leases[i].ip # leases[j].ip
      BY Zenon, <2>1, <2>3 DEF Unique
    <3>1. CASE j < lease_count
      BY Zenon, <1>2, <2>2, <3>1 DEF Unique
    <3>2. CASE j = lease_count
      BY Zenon, <2>3, <3>2
    <3> QED
      BY <1>1, <3>1, <3>2, SlotsFacts
  <2>5. lease_count' <= MaxLeases
    BY <1>1, <2>2, <2>3, SlotsFacts, MaxLeasesAssumption
  <2>6. \A v \in Workers : workers'[v].pc \notin Adding
    BY Zenon, <2>1, <2>2 DEF Writes, Adding
  <2> QED
    BY Zenon, <1>2, <2>2, <2>4, <2>5, <2>6
<1>8. ASSUME NEW image \in Images, Start(image), image.count <= MaxLeases,
             Unique(image.leases, image.count)
      PROVE  <1>0!1
  <2>1. /\ leases' = Loaded(image) /\ saved' = image /\ lease_count' = image.count
        /\ \A w \in Workers : workers'[w].pc = "idle"
    BY <1>8, MaxLeasesAssumption DEF Start, Images, Idle
  <2>2. \A i \in Slots : i < image.count => leases'[i].ip = image.leases[i].ip
    BY Zenon, <2>1, LoadedFacts
  <2>3. \A i, j \in Slots : i < j /\ j < image.count => i < image.count
    BY SlotsFacts DEF Images
  <2>4. Unique(leases', lease_count')
    BY ZenonT(30), <1>8, <2>1, <2>2, <2>3 DEF Unique
  <2> QED
    BY Zenon, <1>8, <2>1, <2>4 DEF Adding
<1>9. CASE StopAndStart
  <2>1. Start([leases |-> leases, count |-> lease_count]) /\ "add" \notin races
    BY Zenon, <1>9 DEF StopAndStart
  <2>2. [leases |-> leases, count |-> lease_count] \in Images
    BY Zenon, ImagesNow
  <2> QED
    BY Zenon, <1>2, <1>8, <2>1, <2>2
<1>10. CASE CrashAndStart
  <2>1. Start(saved) /\ "add" \notin races
    BY Zenon, <1>10 DEF CrashAndStart
  <2> QED
    BY Zenon, <1>1, <1>2, <1>8, <2>1
<1> QED
  BY Zenon, <1>3, <1>4, <1>6, <1>7, <1>9, <1>10, StepKinds

(* What is counted stays counted, with its address and its owner, unless the server
   is killed or two workers add at the same time. *)
LEMMA Stable ==
    ASSUME TypeInv, AddInv, [Next]_vars, "add" \notin races', ~ CrashAndStart,
           NEW i \in Slots, i < lease_count
    PROVE  i < lease_count' /\ leases'[i].ip = leases[i].ip /\ leases'[i].mac = leases[i].mac
<1>0. SUFFICES i < lease_count' /\ leases'[i].ip = leases[i].ip /\ leases'[i].mac = leases[i].mac
  BY Zenon
<1>1. lease_count \in Nat /\ i \in Nat
  BY Zenon, TypedNow, SlotsFacts DEF Typed
<1>2. CASE SameDb
  BY Zenon, <1>2 DEF SameDb
<1>3. ASSUME NEW w \in Workers, Picks(w)
      PROVE  <1>0!1
  BY Zenon, <1>3 DEF Picks
<1>4. ASSUME NEW w \in Workers, Clear(w) \/ Fill(w)
      PROVE  <1>0!1
  <2>1. PICK from \in Adding, to \in {"fill", "publish"} : Writes(w, from, to) /\ UNCHANGED lease_count
    BY Zenon, <1>4, ClearFacts, FillFacts DEF Adding
  <2>2. "add" \notin races
    BY Zenon, <2>1 DEF Writes
  <2> QED
    BY Zenon, <2>1, <2>2, WritesAlone
<1>5. ASSUME NEW w \in Workers, Publish(w)
      PROVE  <1>0!1
  <2>1. /\ Writes(w, "publish", "offer") /\ UNCHANGED leases /\ lease_count' = workers[w].n + 1
        /\ "publish" \in Adding
    BY Zenon, <1>5, PublishFacts DEF Adding
  <2>2. "add" \notin races /\ workers[w].pc = "publish"
    BY Zenon, <2>1 DEF Writes
  <2>3. lease_count' = lease_count + 1
    BY Zenon, <2>1, <2>2, WritesAlone DEF AloneAt
  <2> QED
    BY <1>1, <2>1, <2>3
<1>6. CASE StopAndStart
  <2> DEFINE image == [leases |-> leases, count |-> lease_count]
  <2>1. Start(image) /\ "add" \notin races
    BY Zenon, <1>6 DEF StopAndStart
  <2>2. image \in Images /\ image.leases = leases /\ image.count = lease_count
    BY Zenon, ImagesNow
  <2>3. lease_count <= MaxLeases
    BY Zenon, <2>1 DEF AddInv
  <2> HIDE DEF image
  <2>4. leases' = Loaded(image) /\ lease_count' = lease_count
    BY <1>1, <2>1, <2>2, <2>3, MaxLeasesAssumption DEF Start
  <2> QED
    BY Zenon, <2>2, <2>4, LoadedFacts
<1> QED
  BY Zenon, <1>2, <1>3, <1>4, <1>5, <1>6, StepKinds

--------------------------------------------------------------------------------
(* Allocated entries.  Each has a lease, or a worker that carries its address to one
   or back to the pool. *)

Covered(ip) == \E i \in Slots : i < lease_count /\ leases[i].ip = ip

Carrying == Adding \union {"bind", "rollback"}

Carried(ip) == \E w \in Workers : workers[w].ip = ip /\ workers[w].pc \in Carrying

LeakInv == "add" \notin races => \A ip \in With(pool, "ALLOCATED") : Covered(ip) \/ Carried(ip)

LEMMA LeakInit == Init => LeakInv
BY DEF Init, LeakInv, With, ConfiguredPool

(* After a start, the allocated entries are those of leases in the file. *)
LEMMA StartCovers ==
    ASSUME NEW image \in Images, Start(image), image.count <= MaxLeases,
           NEW ip \in With(pool', "ALLOCATED")
    PROVE  Covered(ip)'
<1>1. leases' = Loaded(image) /\ lease_count' = image.count /\ pool' = ip_pool_init(image)
  BY MaxLeasesAssumption DEF Start, Images
<1>2. PICK i \in Slots : i < image.count /\ image.leases[i].ip = ip
  BY Zenon, <1>1, PoolInitFacts
<1> QED
  BY Zenon, <1>1, <1>2, LoadedFacts DEF Covered

LEMMA LeakStep == TypeInv /\ AddInv /\ LeakInv /\ [Next]_vars => LeakInv'
<1> SUFFICES ASSUME TypeInv, AddInv, LeakInv, [Next]_vars, "add" \notin races',
                    NEW ip \in With(pool', "ALLOCATED")
             PROVE  Covered(ip)' \/ Carried(ip)'
  BY Zenon DEF LeakInv
<1>0. SUFFICES Covered(ip)' \/ Carried(ip)'
  BY Zenon
<1>1. ip \in Ips /\ ip # 0 /\ pool \in Pools /\ saved \in Images
  BY TypedNow, ImagesNow DEF With, Ips, Typed
<1>2. "add" \notin races => saved.count <= MaxLeases /\ lease_count <= MaxLeases
  BY Zenon DEF AddInv
<1>3. CASE CrashAndStart
  BY Zenon, <1>1, <1>2, <1>3, StartCovers DEF CrashAndStart
<1>4. CASE StopAndStart
  BY Zenon, <1>2, <1>4, ImagesNow, StartCovers DEF StopAndStart
<1>5. ASSUME ~ CrashAndStart, Covered(ip)
      PROVE  Covered(ip)'
  <2>1. PICK i \in Slots : i < lease_count /\ leases[i].ip = ip
    BY Zenon, <1>5 DEF Covered
  <2>2. i < lease_count' /\ leases'[i].ip = leases[i].ip
    BY Zenon, <1>5, <2>1, Stable
  <2> QED
    BY Zenon, <2>1, <2>2 DEF Covered
<1>6. ASSUME ~ CrashAndStart, "add" \notin races, ip \in With(pool, "ALLOCATED"),
             NEW w \in Workers,
             \A v \in Workers : v # w => workers'[v] = workers[v],
             workers[w].pc \in Carrying /\ workers[w].ip = ip =>
               \/ workers'[w].pc \in Carrying /\ workers'[w].ip = ip
               \/ Covered(ip)'
      PROVE  Covered(ip)' \/ Carried(ip)'
  <2>1. Covered(ip) \/ Carried(ip)
    BY Zenon, <1>6 DEF LeakInv
  <2>2. CASE Carried(ip)
    <3>1. PICK v \in Workers : workers[v].ip = ip /\ workers[v].pc \in Carrying
      BY Zenon, <2>2 DEF Carried
    <3>2. CASE v = w
      BY Zenon, <1>6, <3>1, <3>2 DEF Carried
    <3>3. CASE v # w
      BY Zenon, <1>6, <3>1, <3>3 DEF Carried
    <3> QED
      BY Zenon, <3>2, <3>3
  <2> QED
    BY Zenon, <1>5, <1>6, <2>1, <2>2
<1>7. ASSUME ~ CrashAndStart, "add" \notin races, ip \in With(pool, "ALLOCATED"),
             \A v \in Workers : workers[v].pc \in Carrying =>
               workers'[v].pc = workers[v].pc /\ workers'[v].ip = workers[v].ip
      PROVE  Covered(ip)' \/ Carried(ip)'
  <2>1. Covered(ip) \/ Carried(ip)
    BY Zenon, <1>7 DEF LeakInv
  <2> QED
    BY Zenon, <1>5, <1>7, <2>1 DEF Carried
<1>8. ASSUME ~ CrashAndStart, NEW w \in Workers, WorkerStep(w)
      PROVE  Covered(ip)' \/ Carried(ip)'
  <2>1. ASSUME Discover(w) \/ Request(w) \/ Renew(w) \/ Offer(w) \/ Nak(w) \/ Ack(w) \/ Release(w)
        PROVE  <1>0!1
    <3>1. /\ workers[w].pc \notin Carrying
          /\ races \subseteq races' /\ UNCHANGED pool
          /\ \A v \in Workers : v # w => workers'[v] = workers[v]
      <4>1. CASE Discover(w)
        BY Zenon, <4>1, DiscoverFacts DEF Discover, Quiet, Carrying, Adding
      <4>2. CASE Request(w) \/ Renew(w)
        BY Zenon, <4>2, RequestFacts DEF Quiet, Renews, Carrying, Adding
      <4>3. CASE Offer(w) \/ Nak(w) \/ Ack(w)
        BY Zenon, <4>3, RepliesFacts DEF Quiet, Carrying, Adding
      <4>4. CASE Release(w)
        BY Zenon, <4>4, ReleaseFacts DEF Carrying, Adding
      <4> QED
        BY Zenon, <2>1, <4>1, <4>2, <4>3, <4>4
    <3> QED
      BY Zenon, <1>6, <1>8, <3>1
  <2>2. CASE Allocate(w)
    <3>1. /\ workers[w].pc = "allocate" /\ "add" \notin races
          /\ \A v \in Workers : v # w => workers'[v] = workers[v]
          /\ \/ UNCHANGED pool
             \/ /\ workers'[w].pc = "bind"
                /\ With(pool', "ALLOCATED") \subseteq With(pool, "ALLOCATED") \union {workers'[w].ip}
      BY Zenon, <2>2, AllocateFacts DEF Quiet
    <3>2. CASE ip \in With(pool, "ALLOCATED")
      BY Zenon, <1>6, <1>8, <3>1, <3>2 DEF Carrying, Adding
    <3>3. CASE ip \notin With(pool, "ALLOCATED")
      BY Zenon, <3>1, <3>3 DEF Carried, Carrying
    <3> QED
      BY Zenon, <3>2, <3>3
  <2>3. CASE Bind(w)
    <3>1. CASE Picks(w)
      <4>1. races \subseteq races' /\ UNCHANGED pool /\ workers'[w].ip = workers[w].ip
            /\ workers'[w].pc = "clear" /\ \A v \in Workers : v # w => workers'[v] = workers[v]
        BY Zenon, <3>1 DEF Picks
      <4> QED
        BY Zenon, <1>6, <1>8, <4>1 DEF Carrying, Adding
    <3>2. CASE /\ Quiet(w) /\ UNCHANGED pool
               /\ workers'[w].pc = "rollback" /\ workers'[w].ip = workers[w].ip
      BY Zenon, <1>6, <1>8, <3>2 DEF Quiet, Carrying
    <3>3. ASSUME NEW i \in Slots, Renews(w, i)
          PROVE  <1>0!1
      <4>1. /\ races \subseteq races' /\ UNCHANGED pool
            /\ \A v \in Workers : v # w => workers'[v] = workers[v]
            /\ i < lease_count /\ leases[i].ip = workers[w].ip
        BY Zenon, <3>3 DEF Renews
      <4>2. workers[w].ip = ip => Covered(ip)'
        BY Zenon, <1>5, <1>8, <4>1 DEF Covered
      <4> QED
        BY Zenon, <1>6, <1>8, <4>1, <4>2
    <3> QED
      BY Zenon, <2>3, <3>1, <3>2, <3>3, BindFacts
  <2>4. CASE Clear(w) \/ Fill(w)
    <3>1. PICK from \in Adding, to \in Adding : Writes(w, from, to)
      BY Zenon, <2>4, ClearFacts, FillFacts DEF Adding
    <3> QED
      BY Zenon, <1>6, <1>8, <3>1 DEF Writes, Carrying
  <2>5. CASE Publish(w)
    <3>1. /\ Writes(w, "publish", "offer") /\ UNCHANGED leases /\ lease_count' = workers[w].n + 1
          /\ "publish" \in Adding
      BY Zenon, <2>5, PublishFacts DEF Adding
    <3>2. "add" \notin races /\ workers[w].pc = "publish" /\ UNCHANGED pool
          /\ \A v \in Workers : v # w => workers'[v] = workers[v]
      BY Zenon, <3>1 DEF Writes
    <3>3. /\ lease_count \in Slots /\ leases'[lease_count].ip = workers[w].ip
          /\ lease_count' = lease_count + 1
      BY Zenon, <3>1, <3>2, WritesAlone DEF AloneAt
    <3>4. workers[w].ip = ip => Covered(ip)'
      BY <3>3, SlotsFacts DEF Covered
    <3> QED
      BY Zenon, <1>6, <1>8, <3>2, <3>4
  <2>6. CASE Rollback(w) \/ Free(w)
    <3>1. /\ races' = races /\ \A v \in Workers : v # w => workers'[v] = workers[v]
          /\ With(pool', "ALLOCATED") \subseteq With(pool, "ALLOCATED") \ {workers[w].ip}
      BY Zenon, <2>6, GivesBackFacts DEF Quiet
    <3> QED
      BY Zenon, <1>6, <1>8, <3>1
  <2> QED
    BY Zenon, <1>8, <2>1, <2>2, <2>3, <2>4, <2>5, <2>6 DEF WorkerStep
<1>9. ASSUME ~ CrashAndStart, NEW w \in Workers, NEW m \in Macs, Arrives(w, m)
      PROVE  Covered(ip)' \/ Carried(ip)'
  BY Zenon, <1>7, <1>9, ArrivesFacts DEF Carrying, Adding
<1>10. ASSUME ~ CrashAndStart, NEW m \in Macs, ClientStartsOver(m)
       PROVE  Covered(ip)' \/ Carried(ip)'
  BY Zenon, <1>7, <1>10, StartsOverFacts
<1>11. CASE /\ ~ CrashAndStart
            /\ \/ \E i \in Slots : TimerFinds(i) \/ LeaseRunsOut(i)
               \/ TimerMarks \/ SyncBegin \/ SyncFinds \/ SyncMarks \/ SyncEnd \/ UNCHANGED vars
  <2>1. UNCHANGED <<pool, workers, races>>
    BY Zenon, <1>11 DEF TimerFinds, LeaseRunsOut, TimerMarks, SyncBegin, SyncFinds, SyncMarks, SyncEnd, vars
  <2> QED
    BY Zenon, <1>7, <1>11, <2>1
<1>12. CASE ~ CrashAndStart /\ SyncTurn
  <2> DEFINE lease == LeaseAt(sync.at)
  <2>1. /\ pool' = SyncEntry(pool, lease.ip, lease.state, lease.mac)
        /\ sync.at < lease_count /\ UNCHANGED <<workers, races>>
    BY Zenon, <1>12 DEF SyncTurn
  <2>2. With(pool', "ALLOCATED") \subseteq With(pool, "ALLOCATED") \union {lease.ip}
    BY <1>1, <2>1, AllocatedFacts
  <2>3. ip = lease.ip => Covered(ip)
    BY Zenon, <1>1, <2>1 DEF LeaseAt, NoLease, Covered
  <2> QED
    BY Zenon, <1>5, <1>7, <1>12, <2>1, <2>2, <2>3
<1> QED
  BY Zenon, <1>3, <1>4, <1>8, <1>9, <1>10, <1>11, <1>12 DEF Next, Arrives, SyncStep

--------------------------------------------------------------------------------
(* Holders.  A client uses the address of a lease in its own name, and so will one
   whose acknowledgement is on its way. *)

HolderInv ==
    races \intersect {"add", "crash"} = {} =>
      /\ \A m \in Macs : held[m] # 0 =>
           \E i \in Slots : i < lease_count /\ leases[i].ip = held[m] /\ leases[i].mac = m
      /\ \A w \in Workers : workers[w].pc = "ack" =>
           workers[w].slot < lease_count /\ leases[workers[w].slot].mac = workers[w].mac

LEMMA HolderInit == Init => HolderInv
BY DEF Init, HolderInv, Idle

(* Nothing forgets an overlap. *)
LEMMA RacesGrow ==
    ASSUME TypeInv, [Next]_vars
    PROVE  races \subseteq races'
<1>1. ASSUME NEW w \in Workers, Clear(w) \/ Fill(w) \/ Publish(w)
      PROVE  UNCHANGED races
  BY Zenon, <1>1 DEF Clear, Fill, Publish
<1>2. StopAndStart \/ CrashAndStart => races \subseteq races'
  BY Zenon DEF StopAndStart, CrashAndStart
<1> QED
  BY Zenon, <1>1, <1>2, StepKinds DEF SameDb, Picks

(* How a worker comes to send an acknowledgement, and a client to an address. *)
AckKept(v) ==
    /\ workers[v].pc = "ack" /\ workers'[v].slot = workers[v].slot
    /\ workers'[v].mac = workers[v].mac
    /\ workers'[v].xid => workers[v].xid

Takes(w, m) ==
    /\ workers[w].pc = "ack" /\ workers[w].xid /\ workers[w].mac = m
    /\ held'[m] = leases[workers[w].slot].ip
    /\ Quiet(w) /\ workers'[w].pc = "idle"

ClientKind ==
    /\ \A v \in Workers : workers'[v].pc = "ack" => AckKept(v) \/ \E i \in Slots : Renews(v, i)
    /\ \A m \in Macs : \/ held'[m] = held[m] \/ held'[m] = 0
                       \/ \E w \in Workers : Takes(w, m)

LEMMA RestartFacts ==
    ASSUME StopAndStart \/ CrashAndStart
    PROVE  UNCHANGED held /\ \A w \in Workers : workers'[w].pc = "idle"
<1>1. workers' = [w \in Workers |-> Idle] /\ UNCHANGED held
  <2>1. ASSUME NEW image, Start(image)
        PROVE  workers' = [w \in Workers |-> Idle] /\ UNCHANGED held
    BY Zenon, <2>1 DEF Start
  <2> QED BY Zenon, <2>1 DEF StopAndStart, CrashAndStart
<1>2. Idle.pc = "idle"
  BY DEF Idle
<1> QED BY Zenon, <1>1, <1>2

LEMMA ClientKinds ==
    ASSUME TypeInv, [Next]_vars
    PROVE  ClientKind
<1>1. held \in [Macs -> Addresses \union {0}]
  BY Zenon, TypedNow DEF Typed
<1>2. ASSUME UNCHANGED <<workers, held>>
      PROVE  ClientKind
  BY Zenon, <1>2 DEF ClientKind, AckKept
<1>3. ASSUME NEW w \in Workers, \A v \in Workers : v # w => workers'[v] = workers[v],
             workers'[w].pc # "ack", UNCHANGED held
      PROVE  ClientKind
  BY Zenon, <1>3 DEF ClientKind, AckKept
<1>4. ASSUME NEW w \in Workers, WorkerStep(w)
      PROVE  ClientKind
  <2>1. CASE Discover(w) \/ Allocate(w) \/ Rollback(w) \/ Free(w)
    BY Zenon, <1>3, <2>1, DiscoverFacts, AllocateFacts, GivesBackFacts DEF Quiet
  <2>2. ASSUME NEW i \in Slots, Renews(w, i)
        PROVE  ClientKind
    BY Zenon, <2>2 DEF Renews, ClientKind, AckKept
  <2>3. CASE Bind(w) \/ Request(w) \/ Renew(w)
    <3>1. Picks(w) => ClientKind
      BY Zenon, <1>3 DEF Picks
    <3>2. Quiet(w) /\ UNCHANGED held => ClientKind
      BY Zenon, <1>3 DEF Quiet
    <3> QED
      BY Zenon, <2>2, <2>3, <3>1, <3>2, BindFacts, RequestFacts
  <2>4. CASE Clear(w) \/ Fill(w) \/ Publish(w)
    <3>1. PICK from \in Adding, to \in {"fill", "publish", "offer"} : Writes(w, from, to)
      BY Zenon, <2>4, ClearFacts, FillFacts, PublishFacts DEF Adding
    <3> QED
      BY Zenon, <1>3, <3>1 DEF Writes
  <2>5. CASE Release(w)
    BY Zenon, <1>3, <2>5, ReleaseFacts
  <2>6. CASE Offer(w) \/ Nak(w) \/ Ack(w)
    <3>1. /\ Quiet(w) /\ workers'[w].pc = "idle"
          /\ \/ UNCHANGED held
             \/ /\ workers[w].pc = "ack" /\ workers[w].xid
                /\ held' = [held EXCEPT ![workers[w].mac] = leases[workers[w].slot].ip]
      BY Zenon, <2>6, RepliesFacts
    <3>2. \A v \in Workers : workers'[v].pc = "ack" => AckKept(v)
      BY Zenon, <3>1 DEF Quiet, AckKept
    <3>3. \A m \in Macs : held'[m] = held[m] \/ Takes(w, m)
      BY Zenon, <1>1, <3>1 DEF Takes
    <3> QED
      BY Zenon, <3>2, <3>3 DEF ClientKind
  <2> QED
    BY Zenon, <1>4, <2>1, <2>3, <2>4, <2>5, <2>6 DEF WorkerStep
<1>5. ASSUME NEW w \in Workers, NEW m \in Macs, Arrives(w, m)
      PROVE  ClientKind
  <2>1. \A v \in Workers : workers'[v].pc = "ack" => AckKept(v)
    BY Zenon, <1>5, ArrivesFacts DEF AckKept
  <2>2. \A n \in Macs : held'[n] = held[n] \/ held'[n] = 0
    BY <1>1, <1>5, ArrivesFacts
  <2> QED
    BY Zenon, <2>1, <2>2 DEF ClientKind
<1>6. ASSUME NEW m \in Macs, ClientStartsOver(m)
      PROVE  ClientKind
  BY Zenon, <1>1, <1>6, StartsOverFacts DEF ClientKind, AckKept
<1>7. CASE \/ \E i \in Slots : TimerFinds(i) \/ LeaseRunsOut(i)
           \/ TimerMarks \/ SyncStep \/ UNCHANGED vars
  BY Zenon, <1>2, <1>7 DEF TimerFinds, LeaseRunsOut, TimerMarks, SyncStep, SyncBegin, SyncFinds, SyncMarks,
                    SyncTurn, SyncEnd, vars
<1>8. CASE StopAndStart \/ CrashAndStart
  BY Zenon, <1>8, RestartFacts DEF ClientKind
<1> QED
  BY Zenon, <1>4, <1>5, <1>6, <1>7, <1>8 DEF Next, Arrives

LEMMA HolderStep == TypeInv /\ AddInv /\ HolderInv /\ [Next]_vars => HolderInv'
<1> SUFFICES ASSUME TypeInv, AddInv, HolderInv, [Next]_vars, races' \intersect {"add", "crash"} = {}
             PROVE  HolderInv'
  BY Zenon DEF HolderInv
<1>1. /\ "add" \notin races' /\ ~ CrashAndStart
      /\ \A m \in Macs : held[m] # 0 =>
           \E i \in Slots : i < lease_count /\ leases[i].ip = held[m] /\ leases[i].mac = m
      /\ \A w \in Workers : workers[w].pc = "ack" =>
           workers[w].slot < lease_count /\ leases[workers[w].slot].mac = workers[w].mac
  BY Zenon, RacesGrow DEF HolderInv, CrashAndStart
<1>2. \A i \in Slots : i < lease_count =>
        i < lease_count' /\ leases'[i].ip = leases[i].ip /\ leases'[i].mac = leases[i].mac
  BY Zenon, <1>1, Stable
<1>3. ClientKind
  BY Zenon, ClientKinds
<1>4. ASSUME NEW m \in Macs, held'[m] # 0
      PROVE  \E i \in Slots : i < lease_count' /\ leases'[i].ip = held'[m] /\ leases'[i].mac = m
  <2>1. CASE held'[m] = held[m]
    BY SMTT(30), <1>1, <1>2, <1>4, <2>1
  <2>2. ASSUME NEW w \in Workers, Takes(w, m)
        PROVE  \E i \in Slots : i < lease_count' /\ leases'[i].ip = held'[m] /\ leases'[i].mac = m
    <3>1. workers[w].slot \in Slots
      BY Zenon, <2>2, WorkerNow DEF Takes, Pointing
    <3> QED
      BY <1>1, <1>2, <2>2, <3>1 DEF Takes
  <2> QED
    BY Zenon, <1>3, <1>4, <2>1, <2>2 DEF ClientKind
<1>5. ASSUME NEW v \in Workers, workers'[v].pc = "ack"
      PROVE  workers'[v].slot < lease_count' /\ leases'[workers'[v].slot].mac = workers'[v].mac
  <2>1. CASE AckKept(v)
    <3>1. workers[v].slot \in Slots
      BY Zenon, <2>1, WorkerNow DEF AckKept, Pointing
    <3> QED
      BY <1>1, <1>2, <2>1, <3>1 DEF AckKept
  <2>2. ASSUME NEW i \in Slots, Renews(v, i)
        PROVE  workers'[v].slot < lease_count' /\ leases'[workers'[v].slot].mac = workers'[v].mac
    BY Zenon, <1>2, <1>5, <2>2 DEF Renews
  <2> QED
    BY Zenon, <1>3, <1>5, <2>1, <2>2 DEF ClientKind
<1> QED
  BY Zenon, <1>4, <1>5 DEF HolderInv

--------------------------------------------------------------------------------
(* Leases in use.  While nothing overlapped, a lease that a client uses or is about to
   be given is active, no thread is about to mark it expired, and no worker is about
   to release it. *)

Good(i) == leases[i].state = "ACTIVE" /\ ~ leases[i].over

Wanted(i) ==
    \/ \E m \in Macs : held[m] # 0 /\ held[m] = leases[i].ip
    \/ \E w \in Workers : workers[w].pc = "ack" /\ workers[w].xid /\ workers[w].slot = i

Doomed(i) == timer = i \/ (sync.expiring /\ sync.at = i)

ActiveInv ==
    races = {} =>
      \A i \in Slots :
        /\ Doomed(i) => i < lease_count /\ ~ Good(i)
        /\ i < lease_count /\ Wanted(i) =>
             /\ Good(i)
             /\ \A w \in Workers : workers[w].pc = "release" => workers[w].ip # leases[i].ip

LEMMA ActiveInit == Init => ActiveInv
<1> SUFFICES ASSUME Init PROVE ActiveInv
  BY Zenon
<1>1. lease_count = 0 /\ timer = None /\ ~ sync.expiring
  BY Zenon DEF Init
<1> QED
  BY <1>1, SlotsFacts DEF ActiveInv, Doomed

(* What may happen to a lease that is counted. *)
LEMMA LeaseKinds ==
    ASSUME TypeInv, AddInv, [Next]_vars, "add" \notin races', NEW i \in Slots, i < lease_count
    PROVE  \/ leases'[i] = leases[i]
           \/ \E w \in Workers : Renews(w, i)
           \/ LeaseRunsOut(i)
           \/ TimerMarks /\ timer = i
           \/ SyncMarks /\ sync.at = i
           \/ \E w \in Workers : /\ Release(w) /\ workers[w].ip = leases[i].ip
           \/ StopAndStart
           \/ CrashAndStart
<1>1. ASSUME NEW w \in Workers, WorkerStep(w)
      PROVE  leases'[i] = leases[i] \/ Renews(w, i) \/ (Release(w) /\ workers[w].ip = leases[i].ip)
  <2>1. CASE Discover(w) \/ Allocate(w) \/ Rollback(w) \/ Free(w) \/ Offer(w) \/ Nak(w) \/ Ack(w)
    BY Zenon, <2>1, DiscoverFacts, AllocateFacts, GivesBackFacts, RepliesFacts DEF Quiet
  <2>2. ASSUME NEW j \in Slots, Renews(w, j)
        PROVE  leases'[i] = leases[i] \/ Renews(w, i)
    BY Zenon, <2>2, RenewsSame
  <2>3. CASE Bind(w) \/ Request(w) \/ Renew(w)
    BY Zenon, <2>2, <2>3, BindFacts, RequestFacts DEF Picks, Quiet
  <2>4. CASE Clear(w) \/ Fill(w) \/ Publish(w)
    <3>1. PICK from \in Adding, to \in {"fill", "publish", "offer"} : Writes(w, from, to)
      BY Zenon, <2>4, ClearFacts, FillFacts, PublishFacts DEF Adding
    <3>2. "add" \notin races
      BY Zenon, <3>1 DEF Writes
    <3> QED
      BY Zenon, <3>1, <3>2, WritesAlone
  <2>5. CASE Release(w)
    <3>1. CASE UNCHANGED leases
      BY Zenon, <3>1
    <3>2. ASSUME NEW j \in Slots, leases[j].ip = workers[w].ip, leases' = Marked(leases, j, "RELEASED")
          PROVE  leases'[i] = leases[i] \/ workers[w].ip = leases[i].ip
      <4>1. leases \in [Slots -> Lease] /\ "RELEASED" \in LeaseStates
        BY Zenon, TypedNow DEF Typed, LeaseStates
      <4>2. i # j => leases'[i] = leases[i]
        BY <3>2, <4>1, MarkedFacts
      <4> QED
        BY Zenon, <3>2, <4>2
    <3> QED
      BY Zenon, <2>5, <3>1, <3>2, ReleaseFacts
  <2> QED
    BY Zenon, <1>1, <2>1, <2>3, <2>4, <2>5 DEF WorkerStep
<1>2. ASSUME NEW w \in Workers, NEW m \in Macs, Arrives(w, m)
      PROVE  leases'[i] = leases[i]
  BY Zenon, <1>2, ArrivesFacts
<1>3. ASSUME NEW m \in Macs, ClientStartsOver(m)
      PROVE  leases'[i] = leases[i]
  BY Zenon, <1>3 DEF ClientStartsOver
<1>4. ASSUME NEW j \in Slots, TimerFinds(j) \/ LeaseRunsOut(j)
      PROVE  leases'[i] = leases[i] \/ LeaseRunsOut(i)
  BY Zenon, <1>4, RunsOutFacts DEF TimerFinds
<1>5. CASE TimerMarks
  <2>1. leases' = Marked(leases, timer, "EXPIRED")
    BY Zenon, <1>5 DEF TimerMarks, Expired, Marked
  <2>2. i # timer => leases'[i] = leases[i]
    BY <2>1, MarksFacts
  <2> QED
    BY Zenon, <1>5, <2>2
<1>6. CASE SyncMarks
  <2>1. leases' = Marked(leases, sync.at, "EXPIRED")
    BY Zenon, <1>6 DEF SyncMarks, Expired, Marked
  <2>2. i # sync.at => leases'[i] = leases[i]
    BY <2>1, MarksFacts
  <2> QED
    BY Zenon, <1>6, <2>2
<1>7. CASE SyncBegin \/ SyncFinds \/ SyncTurn \/ SyncEnd \/ UNCHANGED vars
  BY Zenon, <1>7 DEF SyncBegin, SyncFinds, SyncTurn, SyncEnd, vars
<1> QED
  BY Zenon, <1>1, <1>2, <1>3, <1>4, <1>5, <1>6, <1>7 DEF Next, Arrives, SyncStep

(* Where the threads come to be about to mark a lease, and a worker to release one. *)
LEMMA DoomKinds ==
    ASSUME TypeInv, [Next]_vars, NEW i \in Slots, Doomed(i)'
    PROVE  /\ Doomed(i) \/ (RunOut(i) /\ UNCHANGED <<leases, lease_count>>)
           /\ ~ StopAndStart /\ ~ CrashAndStart
<1>1. i # None
  BY Zenon, SlotsFacts
<1>2. ASSUME UNCHANGED <<timer, sync>>
      PROVE  Doomed(i)
  BY Zenon, <1>2 DEF Doomed
<1>3. ~ StopAndStart /\ ~ CrashAndStart
  <2>1. ASSUME NEW image, Start(image) PROVE FALSE
    <3>1. timer' = None /\ ~ sync'.expiring
      BY Zenon, <2>1 DEF Start
    <3> QED
      BY Zenon, <1>1, <3>1 DEF Doomed
  <2> QED
    BY Zenon, <2>1 DEF StopAndStart, CrashAndStart
<1> SUFFICES Doomed(i) \/ (RunOut(i) /\ UNCHANGED <<leases, lease_count>>)
  BY Zenon, <1>3
<1>4. ASSUME NEW w \in Workers, WorkerStep(w)
      PROVE  UNCHANGED <<timer, sync>>
  BY Zenon, <1>4 DEF WorkerStep, Discover, Allocate, Bind, Clear, Fill, Publish, Rollback, Offer, Request,
              Ack, Nak, Renew, Release, Free, Others
<1>5. ASSUME NEW w \in Workers, NEW m \in Macs, Arrives(w, m)
      PROVE  UNCHANGED <<timer, sync>>
  BY Zenon, <1>5, ArrivesFacts
<1>6. ASSUME NEW m \in Macs, ClientStartsOver(m)
      PROVE  UNCHANGED <<timer, sync>>
  BY Zenon, <1>6 DEF ClientStartsOver
<1>7. ASSUME NEW j \in Slots, TimerFinds(j) \/ LeaseRunsOut(j)
      PROVE  Doomed(i) \/ (RunOut(i) /\ UNCHANGED <<leases, lease_count>>)
  BY Zenon, <1>2, <1>7 DEF TimerFinds, LeaseRunsOut, Doomed
<1>8. CASE TimerMarks
  BY Zenon, <1>1, <1>8 DEF TimerMarks, Doomed
<1>9. CASE SyncBegin \/ SyncEnd
  BY <1>9 DEF SyncBegin, SyncEnd, Doomed
<1>10. sync \in [at : Nat, expiring : BOOLEAN, running : BOOLEAN]
  BY Zenon DEF TypeInv, TypeOK
<1>11. CASE SyncFinds
  <2>1. sync'.at = sync.at /\ UNCHANGED timer /\ RunOut(sync.at) /\ UNCHANGED <<leases, lease_count>>
    BY Zenon, <1>10, <1>11 DEF SyncFinds
  <2> QED
    BY Zenon, <2>1 DEF Doomed
<1>12. CASE SyncMarks \/ SyncTurn
  <2>1. ~ sync'.expiring /\ UNCHANGED timer
    BY Zenon, <1>10, <1>12 DEF SyncMarks, SyncTurn
  <2> QED
    BY Zenon, <2>1 DEF Doomed
<1>13. CASE UNCHANGED vars
  BY Zenon, <1>2, <1>13 DEF vars
<1> QED
  BY Zenon, <1>2, <1>3, <1>4, <1>5, <1>6, <1>7, <1>8, <1>9, <1>11, <1>12, <1>13 DEF Next, Arrives, SyncStep

ReleaseKind(v) ==
    \/ workers[v].pc = "release" /\ workers'[v].ip = workers[v].ip
    \/ \E m \in Macs : Arrives(v, m)

LEMMA ReleaseKinds ==
    ASSUME TypeInv, [Next]_vars, NEW v \in Workers, workers'[v].pc = "release"
    PROVE  ReleaseKind(v)
<1>1. ASSUME NEW w \in Workers, \A u \in Workers : u # w => workers'[u] = workers[u],
             workers'[w].pc # "release"
      PROVE  ReleaseKind(v)
  BY Zenon, <1>1 DEF ReleaseKind
<1>2. ASSUME NEW w \in Workers, WorkerStep(w)
      PROVE  ReleaseKind(v)
  <2>1. CASE Discover(w) \/ Allocate(w) \/ Rollback(w) \/ Free(w) \/ Offer(w) \/ Nak(w) \/ Ack(w)
    BY Zenon, <1>1, <2>1, DiscoverFacts, AllocateFacts, GivesBackFacts, RepliesFacts DEF Quiet
  <2>2. CASE Bind(w) \/ Request(w) \/ Renew(w)
    <3>1. Picks(w) \/ Quiet(w) \/ \E i \in Slots : Renews(w, i)
      BY Zenon, <2>2, BindFacts, RequestFacts
    <3> QED
      BY Zenon, <1>1, <3>1 DEF Picks, Quiet, Renews
  <2>3. CASE Clear(w) \/ Fill(w) \/ Publish(w)
    <3>1. PICK from \in Adding, to \in {"fill", "publish", "offer"} : Writes(w, from, to)
      BY Zenon, <2>3, ClearFacts, FillFacts, PublishFacts DEF Adding
    <3> QED
      BY Zenon, <1>1, <3>1 DEF Writes
  <2>4. CASE Release(w)
    BY Zenon, <1>1, <2>4, ReleaseFacts
  <2> QED
    BY Zenon, <1>2, <2>1, <2>2, <2>3, <2>4 DEF WorkerStep
<1>3. ASSUME NEW w \in Workers, NEW m \in Macs, Arrives(w, m)
      PROVE  ReleaseKind(v)
  <2>1. v # w => workers'[v].pc = workers[v].pc /\ workers'[v].ip = workers[v].ip
    BY <1>3, ArrivesFacts
  <2> QED
    BY Zenon, <1>3, <2>1 DEF ReleaseKind
<1>4. ASSUME NEW m \in Macs, ClientStartsOver(m)
      PROVE  ReleaseKind(v)
  BY Zenon, <1>4, StartsOverFacts DEF ReleaseKind
<1>5. CASE \/ \E i \in Slots : TimerFinds(i) \/ LeaseRunsOut(i)
           \/ TimerMarks \/ SyncStep \/ UNCHANGED vars
  <2>1. UNCHANGED workers
    BY Zenon, <1>5 DEF TimerFinds, LeaseRunsOut, TimerMarks, SyncStep, SyncBegin, SyncFinds, SyncMarks,
                SyncTurn, SyncEnd, vars
  <2> QED
    BY Zenon, <2>1 DEF ReleaseKind
<1>6. CASE StopAndStart \/ CrashAndStart
  BY Zenon, <1>6, RestartFacts DEF ReleaseKind
<1> QED
  BY Zenon, <1>2, <1>3, <1>4, <1>5, <1>6 DEF Next, Arrives

(* A lease that is wanted was wanted before, or has just been renewed. *)
LEMMA WantedKinds ==
    ASSUME TypeInv, AddInv, AddInv', HolderInv, [Next]_vars,
           races' \intersect {"add", "crash"} = {}, NEW i \in Slots, i < lease_count', Wanted(i)'
    PROVE  i < lease_count /\ (Wanted(i) \/ \E w \in Workers : Renews(w, i))
<1>1. /\ "add" \notin races' /\ ~ CrashAndStart /\ Unique(leases', lease_count')
      /\ \A m \in Macs : held[m] # 0 =>
           \E j \in Slots : j < lease_count /\ leases[j].ip = held[m] /\ leases[j].mac = m
      /\ \A w \in Workers : workers[w].pc = "ack" =>
           workers[w].slot < lease_count /\ leases[workers[w].slot].mac = workers[w].mac
  BY Zenon, RacesGrow DEF HolderInv, CrashAndStart, AddInv
<1>2. \A j \in Slots : j < lease_count => j < lease_count' /\ leases'[j].ip = leases[j].ip
  BY Zenon, <1>1, Stable
<1>3. ASSUME NEW j \in Slots, j < lease_count, leases'[i].ip = leases[j].ip
      PROVE  i = j
  <2>1. leases'[i].ip = leases'[j].ip /\ j < lease_count'
    BY Zenon, <1>2, <1>3
  <2> QED
    BY <1>1, <2>1, SlotsFacts DEF Unique
<1>4. ClientKind
  BY Zenon, ClientKinds
<1>5. ASSUME NEW m \in Macs, held'[m] # 0, held'[m] = leases'[i].ip
      PROVE  i < lease_count /\ Wanted(i)
  <2>1. CASE held'[m] = held[m]
    <3>1. PICK j \in Slots : j < lease_count /\ leases[j].ip = held[m]
      BY Zenon, <1>1, <1>5, <2>1
    <3>2. i = j
      BY Zenon, <1>3, <1>5, <2>1, <3>1
    <3> QED
      BY Zenon, <1>5, <2>1, <3>1, <3>2 DEF Wanted
  <2>2. ASSUME NEW w \in Workers, Takes(w, m)
        PROVE  i < lease_count /\ Wanted(i)
    <3>1. workers[w].slot \in Slots /\ workers[w].slot < lease_count
      BY Zenon, <1>1, <2>2, WorkerNow DEF Takes, Pointing
    <3>2. i = workers[w].slot
      BY Zenon, <1>3, <1>5, <2>2, <3>1 DEF Takes
    <3> QED
      BY Zenon, <2>2, <3>1, <3>2 DEF Takes, Wanted
  <2> QED
    BY Zenon, <1>4, <1>5, <2>1, <2>2 DEF ClientKind
<1>6. ASSUME NEW v \in Workers, workers'[v].pc = "ack", workers'[v].xid, workers'[v].slot = i
      PROVE  i < lease_count /\ (Wanted(i) \/ \E w \in Workers : Renews(w, i))
  <2>1. CASE AckKept(v)
    BY Zenon, <1>1, <1>6, <2>1 DEF AckKept, Wanted
  <2>2. ASSUME NEW j \in Slots, Renews(v, j)
        PROVE  i < lease_count /\ Renews(v, i)
    BY Zenon, <1>6, <2>2 DEF Renews
  <2> QED
    BY Zenon, <1>4, <1>6, <2>1, <2>2 DEF ClientKind
<1> QED
  BY Zenon, <1>5, <1>6 DEF Wanted

(* A renewal that records no overlap meets no thread and no release. *)
LEMMA RenewsClean ==
    ASSUME NEW w \in Workers, NEW i, Renews(w, i), races' = {}
    PROVE  /\ ~ Doomed(i)
           /\ \A v \in Workers : workers'[v].pc = "release" => workers'[v].ip # leases[i].ip
<1>1. RenewalRaces(i) = {}
  BY Zenon DEF Renews
<1>2. /\ ~ (timer = i \/ (sync.expiring /\ sync.at = i))
      /\ ~ \E v \in Workers : workers[v].pc \in {"release", "free"} /\ workers[v].ip = leases[i].ip
  BY Zenon, <1>1 DEF RenewalRaces
<1> QED
  BY Zenon, <1>2 DEF Doomed, Renews

LEMMA ActiveStep ==
    TypeInv /\ AddInv /\ AddInv' /\ HolderInv /\ ActiveInv /\ [Next]_vars => ActiveInv'
<1> SUFFICES ASSUME TypeInv, AddInv, AddInv', HolderInv, ActiveInv, [Next]_vars, races' = {},
                    NEW i \in Slots
             PROVE  /\ Doomed(i)' => i < lease_count' /\ ~ Good(i)'
                    /\ i < lease_count' /\ Wanted(i)' =>
                         /\ Good(i)'
                         /\ \A v \in Workers : workers'[v].pc = "release" =>
                              workers'[v].ip # leases'[i].ip
  BY Zenon DEF ActiveInv
<1>1. /\ races = {} /\ ~ CrashAndStart /\ "add" \notin races' /\ i # None
      /\ races' \intersect {"add", "crash"} = {}
  BY Zenon, RacesGrow, SlotsFacts DEF CrashAndStart
<1>2. /\ Doomed(i) => i < lease_count /\ ~ Good(i)
      /\ i < lease_count /\ Wanted(i) =>
           /\ Good(i)
           /\ \A w \in Workers : workers[w].pc = "release" => workers[w].ip # leases[i].ip
  BY Zenon, <1>1 DEF ActiveInv
<1>3. i < lease_count => i < lease_count' /\ leases'[i].ip = leases[i].ip
  BY Zenon, <1>1, Stable
<1>4. /\ \A m \in Macs : held[m] # 0 =>
           \E j \in Slots : j < lease_count /\ leases[j].ip = held[m] /\ leases[j].mac = m
      /\ \A w \in Workers : workers[w].pc = "ack" =>
           workers[w].slot < lease_count /\ leases[workers[w].slot].mac = workers[w].mac
      /\ Unique(leases, lease_count)
  BY Zenon, <1>1 DEF HolderInv, AddInv
<1>5. ASSUME Doomed(i)'
      PROVE  i < lease_count' /\ ~ Good(i)'
  <2>1. /\ i < lease_count /\ ~ Good(i)
        /\ Doomed(i) \/ leases'[i] = leases[i]
        /\ ~ StopAndStart
    BY Zenon, <1>2, <1>5, DoomKinds, TypedNow DEF RunOut, LeaseAt, Good
  <2>2. ASSUME NEW w \in Workers, Renews(w, i)
        PROVE  leases'[i] = leases[i]
    BY Zenon, <1>1, <2>1, <2>2, RenewsClean
  <2>3. LeaseRunsOut(i) => ~ Good(i)'
    BY Zenon, RunsOutFacts DEF Good
  <2>4. (TimerMarks /\ timer = i) \/ (SyncMarks /\ sync.at = i) => ~ Good(i)'
    <3>1. (TimerMarks /\ timer = i) \/ (SyncMarks /\ sync.at = i) =>
            leases' = Marked(leases, i, "EXPIRED")
      BY Zenon DEF TimerMarks, SyncMarks, Expired, Marked
    <3> QED
      BY Zenon, <3>1, MarksFacts DEF Good
  <2>5. ASSUME NEW w \in Workers, Release(w)
        PROVE  leases'[i] = leases[i] \/ ~ Good(i)'
    <3>1. leases \in [Slots -> Lease] /\ "RELEASED" \in LeaseStates
      BY Zenon, TypedNow DEF Typed, LeaseStates
    <3>2. \A j \in Slots : leases' = Marked(leases, j, "RELEASED") =>
            leases'[i] = leases[i] \/ leases'[i].state = "RELEASED"
      BY <3>1, MarkedFacts
    <3> QED
      BY Zenon, <2>5, <3>2, ReleaseFacts DEF Good
  <2>6. leases'[i] = leases[i] \/ ~ Good(i)'
    BY Zenon, <1>1, <2>1, <2>2, <2>3, <2>4, <2>5, LeaseKinds
  <2> QED
    BY Zenon, <1>3, <2>1, <2>6 DEF Good
<1>6. ASSUME i < lease_count, Wanted(i)
      PROVE  Good(i)'
  <2>1. Good(i) /\ ~ Doomed(i)
    BY Zenon, <1>2, <1>6
  <2>2. ASSUME NEW w \in Workers, Renews(w, i)
        PROVE  Good(i)'
    BY Zenon, <2>2, RenewsSame DEF Good
  <2>3. ~ LeaseRunsOut(i)
    BY Zenon, <1>6 DEF LeaseRunsOut, Wanted
  <2>4. ~ (TimerMarks /\ timer = i) /\ ~ (SyncMarks /\ sync.at = i)
    BY Zenon, <2>1 DEF Doomed, SyncMarks
  <2>5. ASSUME NEW w \in Workers, Release(w), workers[w].ip = leases[i].ip
        PROVE  FALSE
    BY Zenon, <1>2, <1>6, <2>5 DEF Release
  <2>6. CASE StopAndStart
    <3> DEFINE image == [leases |-> leases, count |-> lease_count]
    <3>1. image \in Images /\ image.leases = leases /\ image.count = lease_count
      BY Zenon, ImagesNow
    <3>2. leases' = Loaded(image)
      BY Zenon, <2>6 DEF StopAndStart, Start
    <3> HIDE DEF image
    <3>3. leases'[i] = leases[i]
      BY Zenon, <1>6, <2>1, <3>1, <3>2, LoadedFacts DEF Good
    <3> QED
      BY Zenon, <2>1, <3>3 DEF Good
  <2>7. CASE leases'[i] = leases[i]
    BY Zenon, <2>1, <2>7 DEF Good
  <2> QED
    BY Zenon, <1>1, <1>6, <2>2, <2>3, <2>4, <2>5, <2>6, <2>7, LeaseKinds
<1>7. ASSUME i < lease_count', Wanted(i)'
      PROVE  Good(i)'
  <2>1. i < lease_count /\ (Wanted(i) \/ \E w \in Workers : Renews(w, i))
    BY Zenon, <1>1, <1>7, WantedKinds
  <2>2. ASSUME NEW w \in Workers, Renews(w, i)
        PROVE  Good(i)'
    BY Zenon, <2>2, RenewsSame DEF Good
  <2> QED
    BY Zenon, <1>6, <2>1, <2>2
<1>8. ASSUME i < lease_count', Wanted(i)', NEW v \in Workers, workers'[v].pc = "release",
             workers'[v].ip = leases'[i].ip
      PROVE  FALSE
  <2>1. i < lease_count /\ (Wanted(i) \/ \E w \in Workers : Renews(w, i)) /\ leases'[i].ip = leases[i].ip
    BY Zenon, <1>1, <1>3, <1>8, WantedKinds
  <2>2. Wanted(i) /\ workers[v].pc = "release" => workers[v].ip # leases[i].ip
    BY Zenon, <1>2, <2>1
  <2>3. ~ \E w \in Workers : Renews(w, i)
    BY Zenon, <1>1, <1>8, <2>1, RenewsClean
  <2>4. PICK m \in Macs : Arrives(v, m)
    BY Zenon, <1>8, <2>1, <2>2, <2>3, ReleaseKinds DEF ReleaseKind
  <2>5. /\ held[m] # 0 /\ workers'[v].ip = held[m] /\ held' = [held EXCEPT ![m] = 0]
        /\ \A u \in Workers \ {v} :
             /\ workers'[u].pc = workers[u].pc /\ workers'[u].slot = workers[u].slot
             /\ workers'[u].xid => workers[u].mac # m
    BY SMTT(30), <1>8, <2>4, ArrivesFacts
  <2>6. ASSUME NEW n \in Macs, held[n] # 0, held[n] = held[m]
        PROVE  leases[i].mac = n
    <3>1. PICK j \in Slots : j < lease_count /\ leases[j].ip = held[n] /\ leases[j].mac = n
      BY Zenon, <1>4, <2>6
    <3>2. i = j
      BY SMTT(30), <1>4, <1>8, <2>1, <2>5, <2>6, <3>1, SlotsFacts DEF Unique
    <3> QED
      BY Zenon, <3>1, <3>2
  <2>7. leases[i].mac = m
    BY Zenon, <2>5, <2>6
  <2>8. ASSUME NEW n \in Macs, held'[n] # 0, held'[n] = leases'[i].ip
        PROVE  FALSE
    <3>1. held \in [Macs -> Addresses \union {0}]
      BY Zenon, TypedNow DEF Typed
    <3>2. n # m /\ held'[n] = held[n]
      BY Zenon, <2>5, <2>8, <3>1
    <3>3. held[n] # 0 /\ held[n] = held[m]
      BY Zenon, <1>8, <2>5, <2>8, <3>2
    <3> QED
      BY Zenon, <2>6, <2>7, <3>2, <3>3
  <2>9. ASSUME NEW u \in Workers, workers'[u].pc = "ack", workers'[u].xid, workers'[u].slot = i
        PROVE  FALSE
    <3>1. u # v
      BY Zenon, <1>8, <2>9
    <3>2. workers[u].pc = "ack" /\ workers[u].slot = i /\ workers[u].mac # m
      BY Zenon, <2>5, <2>9, <3>1
    <3> QED
      BY Zenon, <1>4, <2>7, <3>2
  <2> QED
    BY Zenon, <1>8, <2>8, <2>9 DEF Wanted
<1> QED
  BY Zenon, <1>5, <1>7, <1>8

--------------------------------------------------------------------------------
(* The five parts hold together in every reachable state. *)

ServerInv == TypeInv /\ AddInv /\ LeakInv /\ HolderInv /\ ActiveInv

LEMMA Invariance == Spec => []ServerInv
<1>1. Init => ServerInv
  BY Zenon, TypeInit, AddInit, LeakInit, HolderInit, ActiveInit DEF ServerInv
<1>2. ServerInv /\ [Next]_vars => ServerInv'
  <2> SUFFICES ASSUME ServerInv, [Next]_vars PROVE ServerInv'
    BY Zenon
  <2>1. TypeInv /\ AddInv /\ LeakInv /\ HolderInv /\ ActiveInv
    BY Zenon DEF ServerInv
  <2>2. TypeInv' /\ AddInv'
    BY Zenon, <2>1, TypeStep, AddStep
  <2>3. LeakInv' /\ HolderInv' /\ ActiveInv'
    BY Zenon, <2>1, <2>2, LeakStep, HolderStep, ActiveStep
  <2> QED
    BY Zenon, <2>2, <2>3 DEF ServerInv
<1> QED
  BY <1>1, <1>2, PTL DEF Spec

(***************************************************************************)
(* Every variable of the server stays in its type, with any number of      *)
(* workers, leases and addresses: in particular the slot that a worker     *)
(* carries from a lookup to its use is a slot of the array of leases.      *)
(***************************************************************************)
THEOREM ServerTypes == Spec => []TypeOK
<1>1. ServerInv => TypeOK
  BY Zenon DEF ServerInv, TypeInv
<1> QED
  BY <1>1, Invariance, PTL

(***************************************************************************)
(* The database never has two leases of one address, unless two workers    *)
(* were inside lease_db_add_lease together.                                *)
(***************************************************************************)
THEOREM LeasesUnique == Spec => []LeasesAreUnique
<1>1. ServerInv => LeasesAreUnique
  BY Zenon DEF ServerInv, AddInv, Unique, LeasesAreUnique
<1> QED
  BY <1>1, Invariance, PTL

(***************************************************************************)
(* An allocated address of the pool always has a lease in the database, or *)
(* a worker that is about to add one or to free the address again.         *)
(***************************************************************************)
THEOREM NoLeak == Spec => []NoAddressLeak
<1>1. ServerInv => NoAddressLeak
  <2> SUFFICES ASSUME LeakInv, "add" \notin races, NEW ip \in With(pool, "ALLOCATED")
               PROVE  lease_db_find_by_ip(ip) # None \/ Carried(ip)
    BY Zenon DEF ServerInv, NoAddressLeak, Carried, Carrying
  <2>1. Covered(ip) \/ Carried(ip)
    BY Zenon DEF LeakInv
  <2>2. Covered(ip) => lease_db_find_by_ip(ip) # None
    BY Zenon, FindByIp DEF Covered
  <2> QED
    BY Zenon, <2>1, <2>2
<1> QED
  BY <1>1, Invariance, PTL

(***************************************************************************)
(* Two clients never use the same address, unless two workers were inside  *)
(* lease_db_add_lease together or a crash lost acknowledged leases.        *)
(***************************************************************************)
THEOREM OneHolder == Spec => []OneHolderPerAddress
<1>1. ServerInv => OneHolderPerAddress
  <2> SUFFICES ASSUME ServerInv, races \intersect {"add", "crash"} = {},
                      NEW m \in Macs, NEW n \in Macs, held[m] # 0, held[m] = held[n]
               PROVE  m = n
    BY Zenon DEF OneHolderPerAddress
  <2>1. /\ \A k \in Macs : held[k] # 0 =>
             \E i \in Slots : i < lease_count /\ leases[i].ip = held[k] /\ leases[i].mac = k
        /\ Unique(leases, lease_count)
    BY Zenon DEF ServerInv, HolderInv, AddInv
  <2>2. PICK i \in Slots : i < lease_count /\ leases[i].ip = held[m] /\ leases[i].mac = m
    BY Zenon, <2>1
  <2>3. PICK j \in Slots : j < lease_count /\ leases[j].ip = held[n] /\ leases[j].mac = n
    BY Zenon, <2>1
  <2>4. i = j
    BY <2>1, <2>2, <2>3, SlotsFacts DEF Unique
  <2> QED
    BY Zenon, <2>2, <2>3, <2>4
<1> QED
  BY <1>1, Invariance, PTL

(***************************************************************************)
(* The lease that lease_db_find_by_ip returns for an address in use is in  *)
(* the name of its user, active and not run out, unless one of the         *)
(* overlaps that races records came first.                                 *)
(***************************************************************************)
THEOREM HeldLeased == Spec => []HeldIsLeased
<1>1. ServerInv => HeldIsLeased
  <2> SUFFICES ASSUME ServerInv, races = {}, NEW m \in Macs, held[m] # 0,
                      NEW i, i = lease_db_find_by_ip(held[m])
               PROVE  i # None /\ leases[i].mac = m /\ leases[i].state = "ACTIVE" /\ ~ leases[i].over
    BY Zenon DEF HeldIsLeased
  <2>1. Unique(leases, lease_count)
    BY Zenon DEF ServerInv, AddInv
  <2>2. PICK j \in Slots : j < lease_count /\ leases[j].ip = held[m] /\ leases[j].mac = m
    BY Zenon DEF ServerInv, HolderInv
  <2>3. i \in Slots /\ i < lease_count /\ leases[i].ip = held[m]
    BY Zenon, <2>2, FindByIp
  <2>4. i = j
    BY <2>1, <2>2, <2>3, SlotsFacts DEF Unique
  <2>5. Wanted(j)
    BY Zenon, <2>2 DEF Wanted
  <2>6. Good(j)
    BY Zenon, <2>2, <2>5 DEF ServerInv, ActiveInv
  <2>7. i # None
    BY Zenon, <2>3, SlotsFacts
  <2> QED
    BY Zenon, <2>2, <2>4, <2>6, <2>7 DEF Good
<1> QED
  BY <1>1, Invariance, PTL
================================================================================
