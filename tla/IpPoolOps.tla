------------------------------- MODULE IpPoolOps -------------------------------
(***************************************************************************)
(* The address pool of DHCPv4/src/ip_pool.c as operators on its value: the *)
(* entries of one subnet's range, in order, and the two counters kept      *)
(* beside them.  IpPool.tla is the pool as an object with a mutex,         *)
(* DhcpV4Server.tla uses the same operators for the pool of the server.    *)
(*                                                                         *)
(* An address is a number: 1 .. PoolSize are the entries of the range, 0   *)
(* is INADDR_ANY ("none requested"), anything larger lies outside the      *)
(* range.  last_allocated and lease_id of an entry are only printed.       *)
(***************************************************************************)
EXTENDS Naturals, FiniteSets

CONSTANTS PoolSize,     \* pool_size, at most MAX_POOL_SIZE
          Macs,         \* client hardware addresses
          NoMac,        \* the all-zero hardware address
          Hosts,        \* the host reservations: Hosts[mac] = fixed_address
          Excluded,     \* network, broadcast and router address within the range
          UINT_MAX      \* the largest value of the uint32_t counters

Ips == 1 .. PoolSize

ASSUME PoolSizeAssumption == PoolSize \in Nat
ASSUME MacsAssumption == NoMac \notin Macs
ASSUME ExcludedAssumption == Excluded \subseteq Ips
ASSUME CounterAssumption == UINT_MAX \in Nat /\ PoolSize <= UINT_MAX
ASSUME HostsAssumption ==
    /\ DOMAIN Hosts \subseteq Macs
    /\ \A m \in DOMAIN Hosts : Hosts[m] \in Nat
    /\ \A m, n \in DOMAIN Hosts : Hosts[m] = Hosts[n] => m = n

IpStates == {"AVAILABLE", "ALLOCATED", "RESERVED", "EXCLUDED", "CONFLICT", "UNKNOWN"}

LeaseStates == {"FREE", "ACTIVE", "EXPIRED", "RELEASED", "ABANDONED", "RESERVED",
                "BACKUP", "UNKNOWN"}

ip_state_from_lease_state(s) ==
    CASE s \in {"ACTIVE", "BACKUP"} -> "ALLOCATED"
      [] s = "RESERVED" -> "RESERVED"
      [] s = "ABANDONED" -> "CONFLICT"
      [] s \in {"FREE", "EXPIRED", "RELEASED"} -> "AVAILABLE"
      [] s = "UNKNOWN" -> "UNKNOWN"

Pools == [state     : [Ips -> IpStates],
          mac       : [Ips -> Macs \union {NoMac}],
          available : 0 .. UINT_MAX,
          allocated : 0 .. UINT_MAX]

(* ++ and -- on a uint32_t. *)
Inc(n) == IF n = UINT_MAX THEN 0 ELSE n + 1
Dec(n) == IF n = 0 THEN UINT_MAX ELSE n - 1

With(p, s) == {ip \in Ips : p.state[ip] = s}

(* The counter of the entries in state s, when one entry goes from old to new. *)
Recount(n, s, old, new) ==
    IF old = s /\ new # s THEN Dec(n) ELSE IF old # s /\ new = s THEN Inc(n) ELSE n

(* The entry of ip goes to a new state and both counters follow. *)
Move(p, ip, new, mac) ==
    [state     |-> [p.state EXCEPT ![ip] = new],
     mac       |-> [p.mac EXCEPT ![ip] = mac],
     available |-> Recount(p.available, "AVAILABLE", p.state[ip], new),
     allocated |-> Recount(p.allocated, "ALLOCATED", p.state[ip], new)]

(* The hardware address an entry has once it is in a state taken from a lease. *)
MacFor(p, ip, new, mac) ==
    IF new = "AVAILABLE" THEN NoMac ELSE IF new = "ALLOCATED" THEN mac ELSE p.mac[ip]

--------------------------------------------------------------------------------
(* ip_pool_init: the range and the host reservations ... *)

HostIps == {Hosts[m] : m \in DOMAIN Hosts} \intersect Ips

ConfiguredPool ==
    [state     |-> [ip \in Ips |-> IF ip \in HostIps THEN "RESERVED"
                                   ELSE IF ip \in Excluded THEN "EXCLUDED" ELSE "AVAILABLE"],
     mac       |-> [ip \in Ips |-> IF ip \in HostIps
                                   THEN CHOOSE m \in DOMAIN Hosts : Hosts[m] = ip ELSE NoMac],
     available |-> (UINT_MAX + 1 + Cardinality(Ips \ Excluded) - Cardinality(HostIps))
                     % (UINT_MAX + 1),
     allocated |-> 0]

(* ... then one turn of its loop over the leases of the database.  The loop has
   its own bookkeeping, which leaves the counters alone for some transitions. *)
Uncounted(old, new) ==
    \/ old \notin {"AVAILABLE", "ALLOCATED"}
    \/ old = "ALLOCATED" /\ new = "CONFLICT"

InitFromLease(p, ip, lease_state, mac) ==
    LET new == ip_state_from_lease_state(lease_state)
    IN  IF ip \notin Ips THEN p
        ELSE IF p.state[ip] = "RESERVED" \/ new \in {"RESERVED", "UNKNOWN"} THEN p
        ELSE IF Uncounted(p.state[ip], new)
        THEN [p EXCEPT !.state[ip] = new, !.mac[ip] = MacFor(p, ip, new, mac)]
        ELSE Move(p, ip, new, MacFor(p, ip, new, mac))

--------------------------------------------------------------------------------
(* The operations.  An address without an entry leaves the pool as it is. *)

ip_pool_reserve_ip(p, ip, mac) ==
    IF ip \notin Ips \/ p.state[ip] \in {"RESERVED", "EXCLUDED", "ALLOCATED"} THEN p
    ELSE IF p.state[ip] = "UNKNOWN"
    THEN [p EXCEPT !.state[ip] = "ALLOCATED", !.mac[ip] = mac]
    ELSE Move(p, ip, "ALLOCATED", mac)

\* Mutation of ip_pool_release_ip: available_count is not incremented.
ReleaseUncounted(p, ip) ==
    IF ip \in Ips /\ p.state[ip] = "ALLOCATED"
    THEN [Move(p, ip, "AVAILABLE", NoMac) EXCEPT !.available = p.available] ELSE p

ip_pool_release_ip(p, ip) ==
    IF ip \in Ips /\ p.state[ip] = "ALLOCATED" THEN Move(p, ip, "AVAILABLE", NoMac) ELSE p

ip_pool_mark_conflict(p, ip) ==
    IF ip \in Ips THEN Move(p, ip, "CONFLICT", p.mac[ip]) ELSE p

ip_pool_update_from_lease(p, ip, lease_state, mac) ==
    LET new == ip_state_from_lease_state(lease_state)
    IN  IF ip \notin Ips \/ p.state[ip] = "RESERVED" THEN p
        ELSE Move(p, ip, new, MacFor(p, ip, new, mac))

(* One turn of the loop of ip_pool_sync_thread_func. *)
SyncEntry(p, ip, lease_state, mac) ==
    LET new == ip_state_from_lease_state(lease_state)
    IN  IF ip \notin Ips \/ p.state[ip] \in {"RESERVED", "EXCLUDED", new} THEN p
        ELSE Move(p, ip, new, MacFor(p, ip, new, mac))

--------------------------------------------------------------------------------
(* ip_pool_allocate, by priority.  0 stands for "no address". *)

First(S) == IF S = {} THEN 0 ELSE CHOOSE ip \in S : \A other \in S : ip <= other

(* Priorities 1 and 2: an address this client has already. *)
Known(p, mac) ==
    IF mac \in DOMAIN Hosts THEN Hosts[mac]
    ELSE First({ip \in With(p, "ALLOCATED") : p.mac[ip] = mac})

(* Priorities 3 and 4: an available address, the requested one if possible. *)
Fresh(p, requested) ==
    IF requested \in With(p, "AVAILABLE") THEN requested ELSE First(With(p, "AVAILABLE"))

Take(p, ip, mac) == Move(p, ip, "ALLOCATED", mac)
================================================================================
