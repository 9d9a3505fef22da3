---------------------------- MODULE IpPoolOpsProofs ---------------------------
(***************************************************************************)
(* Lemmas about the operators of IpPoolOps, for every range, every set of  *)
(* clients and reservations and every configuration: each operation keeps  *)
(* the pool well typed and, unless its bookkeeping leaves the counters     *)
(* behind, exact.  The work is in MoveCounts, about the cardinality of a   *)
(* set of entries when one of them changes state.                          *)
(***************************************************************************)
EXTENDS IpPoolOps, Integers, FiniteSetTheorems, WellFoundedInduction, TLAPS

(* The counters hold the numbers of entries in the two states. *)
Counts(p) == /\ p.available = Cardinality(With(p, "AVAILABLE"))
             /\ p.allocated = Cardinality(With(p, "ALLOCATED"))

(* The entries of the range are finitely many, PoolSize of them. *)
LEMMA IpsFinite ==
    /\ IsFiniteSet(Ips)
    /\ Cardinality(Ips) = PoolSize
    /\ \A S \in SUBSET Ips : /\ IsFiniteSet(S)
                             /\ Cardinality(S) \in 0 .. PoolSize
<1>1. IsFiniteSet(1 .. PoolSize) /\ Cardinality(1 .. PoolSize) = PoolSize
  BY FS_Interval, PoolSizeAssumption
<1>2. ASSUME NEW S \in SUBSET (1 .. PoolSize)
      PROVE  IsFiniteSet(S) /\ Cardinality(S) \in 0 .. PoolSize
  <2>1. IsFiniteSet(S) /\ Cardinality(S) <= PoolSize
    BY <1>1, FS_Subset
  <2>2. Cardinality(S) \in Nat
    BY <2>1, FS_CardinalityType
  <2> QED
    BY <2>1, <2>2, PoolSizeAssumption
<1> QED
  BY <1>1, <1>2 DEF Ips

(* A counter that is recounted stays a uint32_t. *)
LEMMA RecountType ==
    ASSUME NEW n \in 0 .. UINT_MAX, NEW s, NEW old, NEW new
    PROVE  Recount(n, s, old, new) \in 0 .. UINT_MAX
BY CounterAssumption DEF Recount, Inc, Dec

(* Moving an entry to another state keeps the pool well typed. *)
LEMMA MoveType ==
    ASSUME NEW p \in Pools, NEW ip \in Ips, NEW new \in IpStates,
           NEW mac \in Macs \union {NoMac}
    PROVE  Move(p, ip, new, mac) \in Pools
<1>1. /\ Recount(p.available, "AVAILABLE", p.state[ip], new) \in 0 .. UINT_MAX
      /\ Recount(p.allocated, "ALLOCATED", p.state[ip], new) \in 0 .. UINT_MAX
  BY RecountType DEF Pools
<1> QED
  BY <1>1 DEF Move, Pools

(* When one entry changes state and the counter of a state s held the number of
   entries in s, the recounted counter holds it afterwards. *)
LEMMA RecountCounts ==
    ASSUME NEW p \in Pools, NEW ip \in Ips, NEW new \in IpStates, NEW s \in IpStates,
           NEW q, q.state = [p.state EXCEPT ![ip] = new]
    PROVE  Recount(Cardinality(With(p, s)), s, p.state[ip], new)
             = Cardinality(With(q, s))
<1> DEFINE S == With(p, s)
           T == With(q, s)
<1>1. S \in SUBSET Ips /\ IsFiniteSet(S) /\ Cardinality(S) \in 0 .. PoolSize
  BY IpsFinite DEF With
<1>2. p.state \in [Ips -> IpStates]
  BY DEF Pools
<1>3. CASE p.state[ip] = s /\ new # s
  <2>1. ip \in S /\ T = S \ {ip}
    BY <1>2, <1>3 DEF With
  <2>2. Cardinality(T) = Cardinality(S) - 1
    <3> HIDE DEF S, T
    <3>1. Cardinality(S \ {ip}) = IF ip \in S THEN Cardinality(S) - 1 ELSE Cardinality(S)
      BY <1>1, FS_RemoveElement
    <3> QED
      BY <2>1, <3>1
  <2>3. Cardinality(S) # 0
    BY <1>1, <2>1, FS_EmptySet
  <2> QED
    BY <1>3, <2>2, <2>3 DEF Recount, Dec
<1>4. CASE p.state[ip] # s /\ new = s
  <2>1. ip \notin S /\ T = S \union {ip} /\ T \in SUBSET Ips
    BY <1>2, <1>4 DEF With
  <2>2. Cardinality(T) = Cardinality(S) + 1
    BY <1>1, <2>1, FS_AddElement
  <2>3. Cardinality(T) \in 0 .. PoolSize
    BY <2>1, IpsFinite
  <2>4. Cardinality(S) # UINT_MAX
    BY <1>1, <2>2, <2>3, CounterAssumption, PoolSizeAssumption
  <2> QED
    BY <1>4, <2>2, <2>4 DEF Recount, Inc
<1>5. CASE (p.state[ip] = s) <=> (new = s)
  <2>1. T = S
    BY <1>2, <1>5 DEF With
  <2> QED
    BY <1>5, <2>1 DEF Recount
<1> QED
  BY <1>3, <1>4, <1>5

(* So Move keeps the counters exact. *)
LEMMA MoveCounts ==
    ASSUME NEW p \in Pools, NEW ip \in Ips, NEW new \in IpStates, NEW mac, Counts(p)
    PROVE  Counts(Move(p, ip, new, mac))
<1> DEFINE q == Move(p, ip, new, mac)
<1>1. q.state = [p.state EXCEPT ![ip] = new]
  BY DEF Move
<1>2. /\ q.available = Recount(p.available, "AVAILABLE", p.state[ip], new)
      /\ q.allocated = Recount(p.allocated, "ALLOCATED", p.state[ip], new)
  BY DEF Move
<1>3. Recount(Cardinality(With(p, "AVAILABLE")), "AVAILABLE", p.state[ip], new)
        = Cardinality(With(q, "AVAILABLE"))
  <2>1. "AVAILABLE" \in IpStates
    BY DEF IpStates
  <2> HIDE DEF q
  <2> QED
    BY <1>1, <2>1, RecountCounts
<1>4. Recount(Cardinality(With(p, "ALLOCATED")), "ALLOCATED", p.state[ip], new)
        = Cardinality(With(q, "ALLOCATED"))
  <2>1. "ALLOCATED" \in IpStates
    BY DEF IpStates
  <2> HIDE DEF q
  <2> QED
    BY <1>1, <2>1, RecountCounts
<1> HIDE DEF q
<1>5. Counts(q)
  BY <1>2, <1>3, <1>4 DEF Counts
<1> QED
  BY <1>5 DEF q

--------------------------------------------------------------------------------
(* A lease state maps to a state of an entry. *)
LEMMA StateOfLease ==
    ASSUME NEW s \in LeaseStates
    PROVE  ip_state_from_lease_state(s) \in IpStates
BY DEF LeaseStates, IpStates, ip_state_from_lease_state

(* The hardware address an entry gets from a lease is one of the entry type. *)
LEMMA MacForType ==
    ASSUME NEW p \in Pools, NEW ip \in Ips, NEW new, NEW mac \in Macs \union {NoMac}
    PROVE  MacFor(p, ip, new, mac) \in Macs \union {NoMac}
BY DEF MacFor, Pools

(* A non-empty set of naturals has a least element. *)
LEMMA LeastElement ==
    ASSUME NEW A \in SUBSET Nat, A # {}
    PROVE  \E x \in A : \A y \in A : x <= y
<1> DEFINE R == OpToRel(<, Nat)
<1>1. PICK x \in A : \A y \in A : ~ (<<y, x>> \in R)
  <2>1. IsWellFoundedOn(R, Nat)
    BY NatLessThanWellFounded
  <2> HIDE DEF R
  <2> QED
    BY <2>1, WFMin
<1>2. ASSUME NEW y \in A PROVE x <= y
  <2>1. ~ (y < x)
    BY <1>1 DEF OpToRel
  <2> QED
    BY <2>1
<1> QED
  BY <1>2

(* Whatever address ip_pool_allocate picks is that of an available entry. *)
LEMMA FreshIsAvailable ==
    ASSUME NEW p \in Pools, NEW requested \in Nat, Fresh(p, requested) # 0
    PROVE  Fresh(p, requested) \in With(p, "AVAILABLE")
<1> DEFINE A == With(p, "AVAILABLE")
<1>1. CASE requested \in A
  BY <1>1 DEF Fresh
<1>2. CASE requested \notin A
  <2>1. First(A) # 0 /\ Fresh(p, requested) = First(A)
    BY <1>2 DEF Fresh
  <2>2. A # {} /\ First(A) = CHOOSE ip \in A : \A other \in A : ip <= other
    BY <2>1 DEF First
  <2>3. A \in SUBSET Nat
    BY DEF With, Ips
  <2>4. \E ip \in A : \A other \in A : ip <= other
    BY <2>2, <2>3, LeastElement
  <2> QED
    BY <2>1, <2>2, <2>4
<1> QED
  BY <1>1, <1>2

--------------------------------------------------------------------------------
(* The operations, each of which returns the pool it was given or moves one
   entry: StepsOf(p, q) is that relation between the pool before and after. *)
StepsOf(p, q) ==
    \/ q = p
    \/ \E ip \in Ips, new \in IpStates, mac \in Macs \union {NoMac} :
         q = Move(p, ip, new, mac)

(* Such a step keeps the pool well typed and its counters exact. *)
LEMMA StepsKeep ==
    ASSUME NEW p \in Pools, NEW q, StepsOf(p, q)
    PROVE  q \in Pools /\ (Counts(p) => Counts(q))
BY MoveType, MoveCounts DEF StepsOf

(* ip_pool_release_ip moves one entry or none. *)
LEMMA ReleaseSteps ==
    ASSUME NEW p \in Pools, NEW ip
    PROVE  StepsOf(p, ip_pool_release_ip(p, ip))
<1>1. "AVAILABLE" \in IpStates
  BY DEF IpStates
<1> QED
  BY <1>1 DEF ip_pool_release_ip, StepsOf

(* So does ip_pool_mark_conflict, whatever the state of the entry. *)
LEMMA MarkConflictSteps ==
    ASSUME NEW p \in Pools, NEW ip
    PROVE  StepsOf(p, ip_pool_mark_conflict(p, ip))
<1>1. "CONFLICT" \in IpStates
  BY DEF IpStates
<1>2. ip \in Ips => p.mac[ip] \in Macs \union {NoMac}
  BY DEF Pools
<1> QED
  BY <1>1, <1>2 DEF ip_pool_mark_conflict, StepsOf

(* So do ip_pool_update_from_lease and a turn of the synchronisation thread. *)
LEMMA UpdateSteps ==
    ASSUME NEW p \in Pools, NEW ip, NEW s \in LeaseStates,
           NEW mac \in Macs \union {NoMac}
    PROVE  /\ StepsOf(p, ip_pool_update_from_lease(p, ip, s, mac))
           /\ StepsOf(p, SyncEntry(p, ip, s, mac))
<1> DEFINE new == ip_state_from_lease_state(s)
<1>1. new \in IpStates
  BY StateOfLease
<1>2. ip \in Ips => MacFor(p, ip, new, mac) \in Macs \union {NoMac}
  BY MacForType
<1>3. /\ \/ ip_pool_update_from_lease(p, ip, s, mac) = p
         \/ /\ ip \in Ips
            /\ ip_pool_update_from_lease(p, ip, s, mac)
                 = Move(p, ip, new, MacFor(p, ip, new, mac))
      /\ \/ SyncEntry(p, ip, s, mac) = p
         \/ /\ ip \in Ips
            /\ SyncEntry(p, ip, s, mac) = Move(p, ip, new, MacFor(p, ip, new, mac))
  BY DEF ip_pool_update_from_lease, SyncEntry
<1> HIDE DEF new
<1> QED
  BY <1>1, <1>2, <1>3 DEF StepsOf

(* So does the end of ip_pool_allocate, for the address it picked. *)
LEMMA TakeSteps ==
    ASSUME NEW p \in Pools, NEW requested \in Nat, NEW mac \in Macs \union {NoMac},
           Fresh(p, requested) # 0
    PROVE  StepsOf(p, Take(p, Fresh(p, requested), mac))
<1>1. Fresh(p, requested) \in Ips
  BY FreshIsAvailable DEF With
<1>2. "ALLOCATED" \in IpStates
  BY DEF IpStates
<1> QED
  BY <1>1, <1>2 DEF Take, StepsOf

(* An entry in the unknown state is reserved without being counted. *)
LEMMA ReserveSteps ==
    ASSUME NEW p \in Pools, NEW ip, NEW mac \in Macs
    PROVE  /\ ip_pool_reserve_ip(p, ip, mac) \in Pools
           /\ ~ (ip \in Ips /\ p.state[ip] = "UNKNOWN")
                => StepsOf(p, ip_pool_reserve_ip(p, ip, mac))
<1>1. "ALLOCATED" \in IpStates
  BY DEF IpStates
<1>2. CASE ip \in Ips /\ p.state[ip] = "UNKNOWN"
  BY <1>1, <1>2 DEF ip_pool_reserve_ip, Pools
<1>3. CASE ~ (ip \in Ips /\ p.state[ip] = "UNKNOWN")
  <2>1. StepsOf(p, ip_pool_reserve_ip(p, ip, mac))
    BY <1>1, <1>3 DEF ip_pool_reserve_ip, StepsOf
  <2> QED
    BY <1>3, <2>1, StepsKeep
<1> QED
  BY <1>2, <1>3

(* The loop of ip_pool_init counts the transitions that Uncounted does not name. *)
LEMMA InitLeaseSteps ==
    ASSUME NEW p \in Pools, NEW ip, NEW s \in LeaseStates,
           NEW mac \in Macs \union {NoMac}
    PROVE  /\ InitFromLease(p, ip, s, mac) \in Pools
           /\ (ip \in Ips => \/ p.state[ip] = "RESERVED"
                            \/ ip_state_from_lease_state(s) \in {"RESERVED", "UNKNOWN"}
                            \/ ~ Uncounted(p.state[ip], ip_state_from_lease_state(s)))
                => StepsOf(p, InitFromLease(p, ip, s, mac))
<1> DEFINE new == ip_state_from_lease_state(s)
           m == MacFor(p, ip, new, mac)
           q == InitFromLease(p, ip, s, mac)
           Kept == ip \notin Ips \/ p.state[ip] = "RESERVED" \/ new \in {"RESERVED", "UNKNOWN"}
<1>1. new \in IpStates
  BY StateOfLease
<1>2. ip \in Ips => m \in Macs \union {NoMac}
  BY MacForType
<1>3. /\ Kept => q = p
      /\ ~ Kept /\ Uncounted(p.state[ip], new)
           => q = [p EXCEPT !.state[ip] = new, !.mac[ip] = m]
      /\ ~ Kept /\ ~ Uncounted(p.state[ip], new) => q = Move(p, ip, new, m)
  BY DEF InitFromLease
<1> HIDE DEF new, m, q
<1>4. CASE ~ Kept /\ Uncounted(p.state[ip], new)
  <2>1. q \in Pools
    <3>1. ip \in Ips /\ m \in Macs \union {NoMac}
      BY <1>2, <1>4
    <3>2. q = [p EXCEPT !.state[ip] = new, !.mac[ip] = m]
      BY <1>3, <1>4
    <3> QED
      BY <1>1, <3>1, <3>2 DEF Pools
  <2> QED
    BY <1>4, <2>1 DEF q, new
<1>5. CASE ~ (~ Kept /\ Uncounted(p.state[ip], new))
  <2>1. StepsOf(p, q)
    BY <1>1, <1>2, <1>3, <1>5 DEF StepsOf
  <2>2. q \in Pools
    BY <2>1, StepsKeep
  <2> QED
    BY <2>1, <2>2 DEF q
<1> QED
  BY <1>4, <1>5

(* The pool of the configuration alone: when no host reservation names an
   excluded address, available_count is the number of available entries. *)
LEMMA ConfiguredCounts ==
    /\ ConfiguredPool \in Pools
    /\ HostIps \intersect Excluded = {} => Counts(ConfiguredPool)
<1> DEFINE c == ConfiguredPool
           A == Ips \ Excluded
           n == (UINT_MAX + 1 + Cardinality(A) - Cardinality(HostIps)) % (UINT_MAX + 1)
<1>1. /\ c.available = n
      /\ c.allocated = 0
      /\ c.state = [ip \in Ips |-> IF ip \in HostIps THEN "RESERVED"
                                  ELSE IF ip \in Excluded THEN "EXCLUDED" ELSE "AVAILABLE"]
      /\ c.mac = [ip \in Ips |-> IF ip \in HostIps
                                THEN CHOOSE m \in DOMAIN Hosts : Hosts[m] = ip ELSE NoMac]
      /\ c = [state |-> c.state, mac |-> c.mac, available |-> n, allocated |-> 0]
  BY DEF ConfiguredPool
<1>2. /\ A \in SUBSET Ips /\ HostIps \in SUBSET Ips
      /\ IsFiniteSet(A) /\ IsFiniteSet(HostIps)
      /\ Cardinality(A) \in 0 .. PoolSize /\ Cardinality(HostIps) \in 0 .. PoolSize
  BY IpsFinite DEF HostIps
<1> HIDE DEF c
<1>3. n \in 0 .. UINT_MAX
  <2>1. UINT_MAX + 1 + Cardinality(A) - Cardinality(HostIps) \in Nat
    BY <1>2, CounterAssumption, PoolSizeAssumption
  <2> QED
    BY <2>1, CounterAssumption
<1>4. c.mac \in [Ips -> Macs \union {NoMac}]
  <2>1. \A ip \in HostIps : (CHOOSE m \in DOMAIN Hosts : Hosts[m] = ip) \in Macs
    BY HostsAssumption DEF HostIps
  <2> QED
    BY <1>1, <2>1
<1>5. c.state \in [Ips -> IpStates]
  BY <1>1 DEF IpStates
<1>6. c \in Pools
  <2>1. c = [state |-> c.state, mac |-> c.mac, available |-> n, allocated |-> 0]
    BY <1>1
  <2>2. 0 \in 0 .. UINT_MAX
    BY CounterAssumption
  <2> HIDE DEF n
  <2> QED
    BY <1>3, <1>4, <1>5, <2>1, <2>2 DEF Pools
<1>7. ASSUME HostIps \intersect Excluded = {}
      PROVE  Counts(c)
  <2>1. With(c, "AVAILABLE") = A \ HostIps /\ With(c, "ALLOCATED") = {}
    BY <1>1 DEF With
  <2>2. A \intersect HostIps = HostIps
    BY <1>2, <1>7
  <2>3. Cardinality(A \ HostIps) = Cardinality(A) - Cardinality(HostIps)
    <3>1. Cardinality(A \ HostIps) = Cardinality(A) - Cardinality(A \intersect HostIps)
      BY <1>2, FS_Difference
    <3> QED
      BY <2>2, <3>1
  <2>4. Cardinality(A \ HostIps) \in 0 .. PoolSize
    BY IpsFinite
  <2>5. n = Cardinality(A \ HostIps)
    BY <1>2, <2>3, <2>4, CounterAssumption, PoolSizeAssumption
  <2> QED
    BY <1>1, <2>1, <2>5, FS_EmptySet DEF Counts
<1> QED
  BY <1>6, <1>7 DEF c
================================================================================
