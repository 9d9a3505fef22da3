------------------------------- MODULE PdPoolOps -------------------------------
(***************************************************************************)
(* The pool of delegated prefixes of pd_pool.c as operators on the         *)
(* server's state s: s.pd has the entries and the two counters in use.     *)
(***************************************************************************)
EXTENDS Ip6PoolOps

PdPools == [state     : [Prefixes -> Ip6States],
            duid      : [Prefixes -> Duids \union {None, Cut}],
            available : Nat,
            allocated : Nat]

(* The entries of A change state and owner. *)
PdMoveAll(q, A, new, duid) ==
    [state     |-> [p \in Prefixes |-> IF p \in A THEN new[p] ELSE q.state[p]],
     duid      |-> [p \in Prefixes |-> IF p \in A THEN duid[p] ELSE q.duid[p]],
     available |-> Recount(q.available, "AVAILABLE", A, q.state, new),
     allocated |-> Recount(q.allocated, "ALLOCATED", A, q.state, new)]

PdMove(q, p, new, d) == PdMoveAll(q, {p}, [x \in {p} |-> new], [x \in {p} |-> d])

PdFree(q) == {p \in Prefixes : q.state[p] = "AVAILABLE"}

FreshPdPool == [state     |-> [p \in Prefixes |-> "AVAILABLE"],
                duid      |-> [p \in Prefixes |-> None],
                available |-> Cardinality(Prefixes),
                allocated |-> 0]

(* Unlike the address pool, an entry notes the owner of an ended lease too. *)
pd_pool_init(db) ==
    LET A == DOMAIN db \cap Prefixes
    IN  PdMoveAll(FreshPdPool, A, [p \in A |-> ip6_state_from_lease_state(db[p].state)],
                                  [p \in A |-> Synced(db[p].duid)])

PdOwned(q, d) == {p \in Prefixes : q.state[p] = "ALLOCATED" /\ q.duid[p] = d}

PdRefresh(s, d) ==
    LET p == Min(PdOwned(s.pd, d))
    IN  Given(IF HasRoom(s, p) THEN lease_v6_add_ia_pd(s, p, d) ELSE s, p)

PdFirstFree(s, d) ==
    LET p == Min(PdFree(s.pd))
        taken == [s EXCEPT !.pd = PdMove(@, p, "ALLOCATED", Stored(d))]
    IN  IF PdFree(s.pd) = {} THEN Refused(s)
        ELSE IF HasRoom(s, p) THEN Given(lease_v6_db_save(lease_v6_add_ia_pd(taken, p, d)), p)
        ELSE Refused([s EXCEPT !.pd = PdMove(@, p, "AVAILABLE", None)])

pd_pool_allocate(s, d) ==
    IF PdOwned(s.pd, d) # {} THEN PdRefresh(s, d) ELSE PdFirstFree(s, d)

(* Whoever asks for it. *)
pd_pool_release(s, p) ==
    LET freed == IF s.pd.state[p] = "ALLOCATED"
                 THEN [s EXCEPT !.pd = PdMove(@, p, "AVAILABLE", None)] ELSE s
    IN  lease_v6_db_save(lease_v6_release_prefix(freed, p))
=============================================================================
