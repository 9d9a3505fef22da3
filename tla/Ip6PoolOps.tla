------------------------------ MODULE Ip6PoolOps ------------------------------
(***************************************************************************)
(* The DHCPv6 address pool of ip6_pool.c as operators on the server's      *)
(* state s: s.ip has the entries of the range and the three counters.      *)
(*                                                                         *)
(* An entry keeps its client's DUID as text in a buffer of DUID_MAX_LEN    *)
(* characters, three per byte.  A DUID of 43 bytes or more is cut off when *)
(* it is stored and then equals no client's; ip6_pool_update_from_lease    *)
(* leaves the buffer empty instead.  last_allocated is only printed.       *)
(***************************************************************************)
EXTENDS Lease6Ops

CONSTANT Hosts      \* static hosts: Hosts[duid] is the fixed address

ASSUME HostsAssumption ==
    /\ DOMAIN Hosts \subseteq Duids
    /\ \A d \in DOMAIN Hosts : Hosts[d] \in Nat
    /\ \A d, e \in DOMAIN Hosts : Hosts[d] = Hosts[e] => d = e

Cut == "cut"

ASSUME CutAssumption == Cut \notin Duids

Ip6States == {"AVAILABLE", "ALLOCATED", "RESERVED", "EXCLUDED", "CONFLICT", "UNKNOWN"}

ip6_state_from_lease_state(ls) ==
    CASE ls \in {"ACTIVE", "BACKUP"} -> "ALLOCATED"
      [] ls = "RESERVED" -> "RESERVED"
      [] ls = "ABANDONED" -> "CONFLICT"
      [] ls \in {"FREE", "EXPIRED", "RELEASED"} -> "AVAILABLE"

Ip6Pools == [state     : [Addrs -> Ip6States],
             duid      : [Addrs -> Duids \union {None, Cut}],
             available : Nat,
             allocated : Nat,
             reserved  : Nat]

Stored(d) == IF d \in LongDuids THEN Cut ELSE d
Synced(d) == IF d \in LongDuids THEN None ELSE d

-----------------------------------------------------------------------------
(* n is the number of entries in state x. *)
Counted(p, n, x) == n = Cardinality({a \in DOMAIN p : p[a] = x})

(* The counter of the entries in state x when the entries of A, in state old,
   go to state new.  Every function takes the old state off unless the counter
   is 0, and then counts the new one. *)
Recount(n, x, A, old, new) ==
    LET gone == Cardinality({a \in A : old[a] = x})
    IN  (IF gone > n THEN 0 ELSE n - gone) + Cardinality({a \in A : new[a] = x})

(* A mutation of MoveAll: a reserved entry is not taken off its counter. *)
MoveForgetsReserved(p, A, new, duid) ==
    [state     |-> [a \in Addrs |-> IF a \in A THEN new[a] ELSE p.state[a]],
     duid      |-> [a \in Addrs |-> IF a \in A THEN duid[a] ELSE p.duid[a]],
     available |-> Recount(p.available, "AVAILABLE", A, p.state, new),
     allocated |-> Recount(p.allocated, "ALLOCATED", A, p.state, new),
     reserved  |-> p.reserved + Cardinality({a \in A : new[a] = "RESERVED"})]

(* A mutation of MoveAll: whatever is taken is taken off the available entries. *)
MoveUnguarded(p, A, new, duid) ==
    [state     |-> [a \in Addrs |-> IF a \in A THEN new[a] ELSE p.state[a]],
     duid      |-> [a \in Addrs |-> IF a \in A THEN duid[a] ELSE p.duid[a]],
     available |-> p.available - Cardinality({a \in A : new[a] # "AVAILABLE"}),
     allocated |-> Recount(p.allocated, "ALLOCATED", A, p.state, new),
     reserved  |-> Recount(p.reserved, "RESERVED", A, p.state, new)]

(* The entries of A change state and owner. *)
MoveAll(p, A, new, duid) ==
    [state     |-> [a \in Addrs |-> IF a \in A THEN new[a] ELSE p.state[a]],
     duid      |-> [a \in Addrs |-> IF a \in A THEN duid[a] ELSE p.duid[a]],
     available |-> Recount(p.available, "AVAILABLE", A, p.state, new),
     allocated |-> Recount(p.allocated, "ALLOCATED", A, p.state, new),
     reserved  |-> Recount(p.reserved, "RESERVED", A, p.state, new)]

Move(p, a, new, d) == MoveAll(p, {a}, [x \in {a} |-> new], [x \in {a} |-> d])

Free(p) == {a \in Addrs : p.state[a] = "AVAILABLE"}

-----------------------------------------------------------------------------
(* ip6_pool_update_from_lease for every lease of an address in the pool. *)
ip6_pool_sync_with_leases(p, db) ==
    LET new == [a \in DOMAIN db \cap Addrs |-> ip6_state_from_lease_state(db[a].state)]
        owner == [a \in DOMAIN db \cap Addrs |->
                     IF new[a] \in {"ALLOCATED", "RESERVED"} THEN Synced(db[a].duid) ELSE None]
    IN  MoveAll(p, DOMAIN db \cap Addrs, new, owner)

FreshPool == [state     |-> [a \in Addrs |-> "AVAILABLE"],
              duid      |-> [a \in Addrs |-> None],
              available |-> Cardinality(Addrs),
              allocated |-> 0,
              reserved  |-> 0]

HostAddrs == {Hosts[d] : d \in DOMAIN Hosts} \cap Addrs
HostOf(a) == CHOOSE d \in DOMAIN Hosts : Hosts[d] = a

(* ip6_pool_reserve_ip for every static host, after the leases were applied. *)
ReserveHosts(p) ==
    MoveAll(p, HostAddrs, [a \in HostAddrs |-> "RESERVED"],
                          [a \in HostAddrs |-> Stored(HostOf(a))])

(* A mutation of ip6_pool_init: the leases read from the file are not applied. *)
InitWithoutLeases(db) == ReserveHosts(FreshPool)

ip6_pool_init(db) == ReserveHosts(ip6_pool_sync_with_leases(FreshPool, db))

(* Declined or answering addresses leave circulation; the owner stays noted. *)
ip6_pool_mark_conflict(s, A) ==
    lease_v6_mark_conflict(
        [s EXCEPT !.ip = MoveAll(@, A, [a \in A |-> "CONFLICT"], [a \in A |-> s.ip.duid[a]])], A)

-----------------------------------------------------------------------------
(* ip6_pool_allocate.  alive are the addresses that answer ip6_ping_check. *)

Given(s, a) == [s |-> s, got |-> a]
Refused(s) == [s |-> s, got |-> None]

(* The entry is taken and the lease added, or the entry is given back: as
   AVAILABLE, whatever it was. *)
Take(s, a, d) ==
    IF HasRoom(s, a)
    THEN Given(lease_v6_add_ia_na([s EXCEPT !.ip = Move(@, a, "ALLOCATED", Stored(d))], a, d), a)
    ELSE Refused([s EXCEPT !.ip = Move(@, a, "AVAILABLE", None)])

(* 1. The fixed address of a static host, whoever has it. *)
StaticHost(s, d, alive) ==
    IF Hosts[d] \in alive THEN Refused(ip6_pool_mark_conflict(s, {Hosts[d]}))
                          ELSE Take(s, Hosts[d], d)

(* 2. The address the client has; the answer does not depend on the lease. *)
Owned(p, d) == {a \in Addrs : p.state[a] = "ALLOCATED" /\ p.duid[a] = d}

Refresh(s, d) ==
    LET a == Min(Owned(s.ip, d))
    IN  Given(IF HasRoom(s, a) THEN lease_v6_add_ia_na(s, a, d) ELSE s, a)

(* 3. The address it asks for. *)
Requested(s, d, r, alive) ==
    IF r \in alive THEN Refused(ip6_pool_mark_conflict(s, {r})) ELSE Take(s, r, d)

(* 4. The first available address that does not answer. *)
FirstFree(s, d, alive) ==
    LET good == {a \in Free(s.ip) \ alive : HasRoom(s, a)}
        tried == {a \in Free(s.ip) : good = {} \/ a < Min(good)}
        probed == ip6_pool_mark_conflict(s, tried \cap alive)
    IN  IF good = {} THEN Refused(probed) ELSE Take(probed, Min(good), d)

(* The addresses that ip6_pool_allocate may probe. *)
Probed(p, d, r) ==
    IF d \in DOMAIN Hosts /\ Hosts[d] \in Addrs THEN {Hosts[d]}
    ELSE IF Owned(p, d) # {} THEN {}
    ELSE IF r \in Free(p) THEN {r}
    ELSE Free(p)

(* A mutation of ip6_pool_allocate: the client's present address is not looked for. *)
AllocateAnew(s, d, r, alive) ==
    IF d \in DOMAIN Hosts /\ Hosts[d] \in Addrs THEN StaticHost(s, d, alive)
    ELSE IF r \in Free(s.ip) THEN Requested(s, d, r, alive)
    ELSE FirstFree(s, d, alive)

ip6_pool_allocate(s, d, r, alive) ==
    IF d \in DOMAIN Hosts /\ Hosts[d] \in Addrs THEN StaticHost(s, d, alive)
    ELSE IF Owned(s.ip, d) # {} THEN Refresh(s, d)
    ELSE IF r \in Free(s.ip) THEN Requested(s, d, r, alive)
    ELSE FirstFree(s, d, alive)
=============================================================================
