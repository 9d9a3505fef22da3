--------------------------------- MODULE IpPool --------------------------------
(***************************************************************************)
(* The address pool as an object shared by threads: every operation of     *)
(* ip_pool.c on it is one action, since each runs under pool->mutex.       *)
(* ip_pool_init runs before any thread is started and is one step per      *)
(* lease of the database it is given.                                      *)
(***************************************************************************)
EXTENDS IpPoolOps

CONSTANTS Addresses,    \* the addresses callers and leases may name
          PingCheck     \* ping_check of the configuration

ASSUME AddressesAssumption == Addresses \subseteq Nat

VARIABLES pool,         \* the entries and the counters
          mutex,        \* pool->mutex between operations: "free" or "stuck"
          phase,        \* "init" or "open"
          exact         \* history: no step so far left a counter behind

ipVars == <<pool, mutex, phase, exact>>

IpTypeOK ==
    /\ pool \in Pools
    /\ mutex \in {"free", "stuck"}
    /\ phase \in {"init", "open"}
    /\ exact \in BOOLEAN

IpInit ==
    /\ pool = ConfiguredPool
    /\ mutex = "free"
    /\ phase = "init"
    /\ exact = (HostIps \intersect Excluded = {})

InitLease(ip, lease_state, mac) ==
    /\ phase = "init"
    /\ pool' = InitFromLease(pool, ip, lease_state, mac)
    /\ exact' = (exact /\ (ip \in Ips =>
                   \/ pool.state[ip] = "RESERVED"
                   \/ ip_state_from_lease_state(lease_state) \in {"RESERVED", "UNKNOWN"}
                   \/ ~ Uncounted(pool.state[ip], ip_state_from_lease_state(lease_state))))
    /\ UNCHANGED <<mutex, phase>>

InitDone ==
    /\ phase = "init"
    /\ phase' = "open"
    /\ UNCHANGED <<pool, mutex, exact>>

(* An operation of a running server, which waits for the mutex. *)
Operation(result) ==
    /\ phase = "open"
    /\ mutex = "free"
    /\ pool' = result
    /\ UNCHANGED <<mutex, phase>>

Reserve(ip, mac) ==
    /\ Operation(ip_pool_reserve_ip(pool, ip, mac))
    /\ exact' = (exact /\ ~ (ip \in Ips /\ pool.state[ip] = "UNKNOWN"))

Release(ip) ==
    /\ Operation(ip_pool_release_ip(pool, ip))
    /\ UNCHANGED exact

MarkConflict(ip) ==
    /\ Operation(ip_pool_mark_conflict(pool, ip))
    /\ UNCHANGED exact

UpdateFromLease(ip, lease_state, mac) ==
    /\ Operation(ip_pool_update_from_lease(pool, ip, lease_state, mac))
    /\ UNCHANGED exact

Sync(ip, lease_state, mac) ==
    /\ Operation(SyncEntry(pool, ip, lease_state, mac))
    /\ UNCHANGED exact

AllocateKnown(mac) ==
    /\ Known(pool, mac) # 0
    /\ Operation(pool)
    /\ UNCHANGED exact

AllocateFresh(mac, requested) ==
    /\ Known(pool, mac) = 0
    /\ Fresh(pool, requested) # 0
    /\ Operation(Take(pool, Fresh(pool, requested), mac))
    /\ UNCHANGED exact

AllocateFails(mac, requested) ==
    /\ Known(pool, mac) = 0
    /\ Fresh(pool, requested) = 0
    /\ Operation(pool)
    /\ UNCHANGED exact

(* The candidate answers the ping: ip_pool_allocate calls ip_pool_mark_conflict,
   which locks the (non-recursive) mutex its own thread holds. *)
AllocatePinged(mac, requested) ==
    /\ PingCheck
    /\ phase = "open"
    /\ mutex = "free"
    /\ Known(pool, mac) = 0
    /\ Fresh(pool, requested) # 0
    /\ mutex' = "stuck"
    /\ UNCHANGED <<pool, phase, exact>>

IpNext ==
    \/ \E ip \in Addresses, s \in LeaseStates, m \in Macs :
         InitLease(ip, s, m) \/ UpdateFromLease(ip, s, m) \/ Sync(ip, s, m)
    \/ InitDone
    \/ \E ip \in Addresses : Release(ip) \/ MarkConflict(ip)
    \/ \E ip \in Addresses, m \in Macs :
         \/ Reserve(ip, m)
         \/ AllocateFresh(m, ip)
         \/ AllocateFails(m, ip)
         \/ AllocatePinged(m, ip)
    \/ \E m \in Macs : AllocateKnown(m)

IpSpec == IpInit /\ [][IpNext]_ipVars

--------------------------------------------------------------------------------
(***************************************************************************)
(* The counters the server reports agree with the entries: whatever        *)
(* operations threads apply in whatever order, available_count and         *)
(* allocated_count are the numbers of entries in those states, unless the  *)
(* configuration or the lease file led ip_pool_init (or a reservation of   *)
(* an entry in the unknown state) through a transition it does not count.  *)
(***************************************************************************)
CountersMatch ==
    exact => /\ pool.available = Cardinality(With(pool, "AVAILABLE"))
             /\ pool.allocated = Cardinality(With(pool, "ALLOCATED"))

(***************************************************************************)
(* ip_pool_allocate never waits for the mutex it holds: "Let's implement   *)
(* the reservation logic directly here to avoid recursive lock issues"     *)
(* (ip_pool.c:525).                                                        *)
(***************************************************************************)
NoRecursiveLock == mutex # "stuck"
================================================================================
