---------------------------- MODULE Counters6Proofs ----------------------------
(***************************************************************************)
(* Proofs about the counters of the DHCPv6 pools and about what the pools  *)
(* hold back for the database: any range of addresses and prefixes, any    *)
(* clients, static hosts, size of the database and number of crashes and   *)
(* starts.  (The few facts it has in common with Pools6Proofs are in both: *)
(* neither proof uses the other.)                                          *)
(***************************************************************************)
EXTENDS DhcpV6Server, Integers, FiniteSetTheorems, WellFoundedInduction, TLAPS

(* The state that the handlers pass on. *)
Well(s) ==
    /\ DOMAIN s = {"db", "file", "ip", "pd", "seen", "disk", "failed"}
    /\ s = [f \in DOMAIN s |-> s[f]]

LEMMA SaveFacts ==
    ASSUME NEW s, Well(s)
    PROVE  LET t == lease_v6_db_save(s)
               f == [base |-> Printed(s.db), log |-> <<>>]
           IN  /\ Well(t) /\ t.db = s.db /\ t.ip = s.ip /\ t.pd = s.pd
               /\ t.file \in {s.file, f} /\ t.seen \subseteq s.seen \union {f}
  BY Zenon DEF lease_v6_db_save, Well

LEMMA DbFacts ==
    ASSUME NEW s, Well(s), NEW new
    PROVE  LET t == [s EXCEPT !.db = new]
           IN  /\ Well(t) /\ t.db = new /\ t.ip = s.ip /\ t.pd = s.pd
               /\ t.file = s.file /\ t.seen = s.seen /\ t.disk = s.disk /\ t.failed = s.failed
  BY DEF Well

LEMMA IpFacts ==
    ASSUME NEW s, Well(s), NEW new
    PROVE  LET t == [s EXCEPT !.ip = new]
           IN  /\ Well(t) /\ t.db = s.db /\ t.ip = new /\ t.pd = s.pd
               /\ t.file = s.file /\ t.seen = s.seen /\ t.disk = s.disk /\ t.failed = s.failed
  BY DEF Well

LEMMA PdFacts ==
    ASSUME NEW s, Well(s), NEW new
    PROVE  LET t == [s EXCEPT !.pd = new]
           IN  /\ Well(t) /\ t.db = s.db /\ t.ip = s.ip /\ t.pd = new
               /\ t.file = s.file /\ t.seen = s.seen /\ t.disk = s.disk /\ t.failed = s.failed
  BY DEF Well

-----------------------------------------------------------------------------
(* The counters *)

(* A counter that was right is right after the entries of A moved. *)
LEMMA RecountExact ==
    ASSUME NEW S, IsFiniteSet(S), NEW A \in SUBSET S, NEW old, NEW new, NEW x
    PROVE  Recount(Cardinality({a \in S : old[a] = x}), x, A, old, new)
             = Cardinality({a \in S : (IF a \in A THEN new[a] ELSE old[a]) = x})
<1> DEFINE rest == {a \in S \ A : old[a] = x}
           gone == {a \in A : old[a] = x}
           came == {a \in A : new[a] = x}
           before == {a \in S : old[a] = x}
           after == {a \in S : (IF a \in A THEN new[a] ELSE old[a]) = x}
<1>1. before = gone \union rest /\ gone \cap rest = {} /\ after = came \union rest /\ came \cap rest = {}
  OBVIOUS
<1>2. IsFiniteSet(rest) /\ IsFiniteSet(gone) /\ IsFiniteSet(came)
  <2>1. rest \subseteq S /\ gone \subseteq S /\ came \subseteq S
    OBVIOUS
  <2> HIDE DEF rest, gone, came
  <2> QED BY <2>1, FS_Subset
<1>3. Recount(Cardinality(before), x, A, old, new)
        = (IF Cardinality(gone) > Cardinality(before) THEN 0 ELSE Cardinality(before) - Cardinality(gone))
          + Cardinality(came)
  BY Zenon DEF Recount
<1> HIDE DEF rest, gone, came, before, after
<1>4. /\ Cardinality(rest) \in Nat /\ Cardinality(gone) \in Nat /\ Cardinality(came) \in Nat
  BY <1>2, FS_CardinalityType
<1>5. Cardinality({}) = 0
  BY FS_EmptySet
<1>6. Cardinality(before) = Cardinality(gone) + Cardinality(rest) - Cardinality(gone \cap rest)
  BY <1>1, <1>2, FS_Union
<1>7. Cardinality(after) = Cardinality(came) + Cardinality(rest) - Cardinality(came \cap rest)
  BY <1>1, <1>2, FS_Union
<1>8. Cardinality(before) = Cardinality(gone) + Cardinality(rest)
      /\ Cardinality(after) = Cardinality(came) + Cardinality(rest)
  <2>1. Cardinality(gone \cap rest) = 0 /\ Cardinality(came \cap rest) = 0
    BY <1>1, <1>5
  <2> QED BY <1>4, <1>6, <1>7, <2>1
<1>9. Recount(Cardinality(before), x, A, old, new) = Cardinality(after)
  BY <1>3, <1>4, <1>8
<1> QED BY <1>9 DEF before, after

Exact(p) ==
    /\ DOMAIN p.state = Addrs
    /\ Counted(p.state, p.available, "AVAILABLE")
    /\ Counted(p.state, p.allocated, "ALLOCATED")
    /\ Counted(p.state, p.reserved, "RESERVED")

PdExact(q) ==
    /\ DOMAIN q.state = Prefixes
    /\ Counted(q.state, q.available, "AVAILABLE")
    /\ Counted(q.state, q.allocated, "ALLOCATED")

LEMMA MoveExact ==
    ASSUME NEW p, Exact(p), NEW A \in SUBSET Addrs, NEW new, NEW duid
    PROVE  /\ Exact(MoveAll(p, A, new, duid))
           /\ MoveAll(p, A, new, duid).state = [a \in Addrs |-> IF a \in A THEN new[a] ELSE p.state[a]]
<1> DEFINE q == MoveAll(p, A, new, duid)
           st == [a \in Addrs |-> IF a \in A THEN new[a] ELSE p.state[a]]
<1>1. /\ q.state = st
      /\ q.available = Recount(p.available, "AVAILABLE", A, p.state, new)
      /\ q.allocated = Recount(p.allocated, "ALLOCATED", A, p.state, new)
      /\ q.reserved = Recount(p.reserved, "RESERVED", A, p.state, new)
  BY DEF MoveAll
<1>2. DOMAIN st = Addrs
  OBVIOUS
<1>3. ASSUME NEW n, NEW x, Counted(p.state, n, x) PROVE Counted(st, Recount(n, x, A, p.state, new), x)
  <2>1. n = Cardinality({a \in Addrs : p.state[a] = x})
    BY <1>3 DEF Exact, Counted
  <2>2. Recount(n, x, A, p.state, new)
          = Cardinality({a \in Addrs : (IF a \in A THEN new[a] ELSE p.state[a]) = x})
    BY <2>1, RecountExact, FiniteAssumption
  <2>3. {a \in Addrs : (IF a \in A THEN new[a] ELSE p.state[a]) = x} = {a \in DOMAIN st : st[a] = x}
    OBVIOUS
  <2> QED BY Zenon, <2>2, <2>3 DEF Counted
<1> HIDE DEF q, st
<1>4. Exact(q)
  BY <1>1, <1>2, <1>3 DEF Exact
<1> QED BY <1>1, <1>4 DEF q, st

LEMMA PdMoveExact ==
    ASSUME NEW p, PdExact(p), NEW A \in SUBSET Prefixes, NEW new, NEW duid
    PROVE  /\ PdExact(PdMoveAll(p, A, new, duid))
           /\ PdMoveAll(p, A, new, duid).state = [a \in Prefixes |-> IF a \in A THEN new[a] ELSE p.state[a]]
<1> DEFINE q == PdMoveAll(p, A, new, duid)
           st == [a \in Prefixes |-> IF a \in A THEN new[a] ELSE p.state[a]]
<1>1. /\ q.state = st
      /\ q.available = Recount(p.available, "AVAILABLE", A, p.state, new)
      /\ q.allocated = Recount(p.allocated, "ALLOCATED", A, p.state, new)
  BY DEF PdMoveAll
<1>2. DOMAIN st = Prefixes
  OBVIOUS
<1>3. ASSUME NEW n, NEW x, Counted(p.state, n, x) PROVE Counted(st, Recount(n, x, A, p.state, new), x)
  <2>1. n = Cardinality({a \in Prefixes : p.state[a] = x})
    BY <1>3 DEF PdExact, Counted
  <2>2. Recount(n, x, A, p.state, new)
          = Cardinality({a \in Prefixes : (IF a \in A THEN new[a] ELSE p.state[a]) = x})
    BY <2>1, RecountExact, FiniteAssumption
  <2>3. {a \in Prefixes : (IF a \in A THEN new[a] ELSE p.state[a]) = x} = {a \in DOMAIN st : st[a] = x}
    OBVIOUS
  <2> QED BY Zenon, <2>2, <2>3 DEF Counted
<1> HIDE DEF q, st
<1>4. PdExact(q)
  BY <1>1, <1>2, <1>3 DEF PdExact
<1> QED BY <1>1, <1>4 DEF q, st

LEMMA FreshExact == Exact(FreshPool) /\ PdExact(FreshPdPool)
<1> DEFINE f == [a \in Addrs |-> "AVAILABLE"]
           g == [a \in Prefixes |-> "AVAILABLE"]
<1>1. /\ FreshPool.state = f /\ FreshPool.available = Cardinality(Addrs)
      /\ FreshPool.allocated = 0 /\ FreshPool.reserved = 0
      /\ FreshPdPool.state = g /\ FreshPdPool.available = Cardinality(Prefixes)
      /\ FreshPdPool.allocated = 0
  BY DEF FreshPool, FreshPdPool
<1>2. /\ DOMAIN f = Addrs /\ {a \in DOMAIN f : f[a] = "AVAILABLE"} = Addrs
      /\ {a \in DOMAIN f : f[a] = "ALLOCATED"} = {} /\ {a \in DOMAIN f : f[a] = "RESERVED"} = {}
  OBVIOUS
<1>3. /\ DOMAIN g = Prefixes /\ {a \in DOMAIN g : g[a] = "AVAILABLE"} = Prefixes
      /\ {a \in DOMAIN g : g[a] = "ALLOCATED"} = {}
  OBVIOUS
<1> HIDE DEF f, g
<1> QED BY <1>1, <1>2, <1>3, FS_EmptySet DEF Exact, PdExact, Counted

-----------------------------------------------------------------------------
(* The inductive invariant, of the server's state as the handlers pass it on: the
   counters are right, the database and every content of the file are about addresses
   and prefixes of the pools, and what has an active lease is not free. *)

Busy(s, k) == IF k \in Addrs THEN s.ip.state[k] \in {"ALLOCATED", "RESERVED"}
                             ELSE s.pd.state[k] = "ALLOCATED"

Taken(s) == \A k \in DOMAIN s.db : s.db[k].state = "ACTIVE" => Busy(s, k)

Based(f) == DOMAIN f.base \subseteq Keys

Good(s) ==
    /\ Well(s)
    /\ Exact(s.ip) /\ PdExact(s.pd)
    /\ DOMAIN s.db \subseteq Keys /\ Based(s.file) /\ (\A f \in s.seen : Based(f))
    /\ Taken(s)

LEMMA PrintedIsBased ==
    ASSUME NEW d, DOMAIN d \subseteq Keys
    PROVE  LET f == [base |-> Printed(d), log |-> <<>>] IN Based(f)
  BY DEF Printed, Based

LEMMA SaveGood ==
    ASSUME NEW s, Good(s)
    PROVE  Good(lease_v6_db_save(s)) /\ lease_v6_db_save(s).db = s.db /\ lease_v6_db_save(s).ip = s.ip
<1> DEFINE t == lease_v6_db_save(s)
           f == [base |-> Printed(s.db), log |-> <<>>]
<1>1. /\ Well(t) /\ t.db = s.db /\ t.ip = s.ip /\ t.pd = s.pd
      /\ t.file \in {s.file, f} /\ t.seen \subseteq s.seen \union {f}
  BY SaveFacts DEF Good
<1>2. Based(f)
  BY PrintedIsBased DEF Good
<1> HIDE DEF t, f
<1>3. Good(t)
  BY <1>1, <1>2 DEF Good, Taken, Busy
<1> QED BY <1>1, <1>3 DEF t

LEMMA DbGood ==
    ASSUME NEW s, Good(s), NEW new, DOMAIN new \subseteq Keys,
           \A k \in DOMAIN new : new[k].state = "ACTIVE" => Busy(s, k)
    PROVE  Good([s EXCEPT !.db = new])
<1> DEFINE t == [s EXCEPT !.db = new]
<1>1. /\ Well(t) /\ t.db = new /\ t.ip = s.ip /\ t.pd = s.pd /\ t.file = s.file /\ t.seen = s.seen
  BY DbFacts DEF Good
<1> HIDE DEF t
<1>2. Good(t)
  BY <1>1 DEF Good, Taken, Busy
<1> QED BY <1>2 DEF t

LEMMA IpGood ==
    ASSUME NEW s, Good(s), NEW new, Exact(new),
           \A k \in DOMAIN s.db \cap Addrs :
               s.db[k].state = "ACTIVE" => new.state[k] \in {"ALLOCATED", "RESERVED"}
    PROVE  Good([s EXCEPT !.ip = new])
<1> DEFINE t == [s EXCEPT !.ip = new]
<1>1. /\ Well(t) /\ t.ip = new /\ t.db = s.db /\ t.pd = s.pd /\ t.file = s.file /\ t.seen = s.seen
  BY IpFacts DEF Good
<1> HIDE DEF t
<1>2. Taken(t)
  BY <1>1 DEF Good, Taken, Busy
<1>3. Good(t)
  BY <1>1, <1>2 DEF Good
<1> QED BY <1>3 DEF t

LEMMA PdGood ==
    ASSUME NEW s, Good(s), NEW new, PdExact(new),
           \A k \in DOMAIN s.db \ Addrs : s.db[k].state = "ACTIVE" => new.state[k] = "ALLOCATED"
    PROVE  Good([s EXCEPT !.pd = new])
<1> DEFINE t == [s EXCEPT !.pd = new]
<1>1. /\ Well(t) /\ t.pd = new /\ t.db = s.db /\ t.ip = s.ip /\ t.file = s.file /\ t.seen = s.seen
  BY PdFacts DEF Good
<1> HIDE DEF t
<1>2. Taken(t)
  BY <1>1 DEF Good, Taken, Busy
<1>3. Good(t)
  BY <1>1, <1>2 DEF Good
<1> QED BY <1>3 DEF t

LEMMA OverFacts ==
    ASSUME NEW lease, NEW new
    PROVE  Over(lease, new).state = new
  BY DEF Over

LEMMA AppendGood ==
    ASSUME NEW s, Good(s), NEW k
    PROVE  Good(lease_v6_db_append(s, k))
<1> DEFINE f(torn) == [base |-> s.file.base, log |-> Append(s.file.log, Block(s, k, torn))]
           torns == {"no", "body"} \union (IF k \in Prefixes THEN {"head"} ELSE {})
           t == lease_v6_db_append(s, k)
<1>1. \A torn : Based(f(torn))
  BY DEF Good, Based
<1>2. t = IF s.disk THEN [s EXCEPT !.file = f("no"), !.seen = @ \union {f(x) : x \in torns}]
                    ELSE [s EXCEPT !.failed = TRUE]
  BY DEF lease_v6_db_append
<1>3. \A g \in {f(x) : x \in torns} : Based(g)
  BY <1>1
<1>4. Based(f("no"))
  BY <1>1
<1> DEFINE new == {f(x) : x \in torns}
           one == f("no")
<1> HIDE DEF new, one, t, torns
<1>5. t = IF s.disk THEN [s EXCEPT !.file = one, !.seen = @ \union new] ELSE [s EXCEPT !.failed = TRUE]
  BY <1>2 DEF new, one
<1> HIDE DEF f
<1>6. /\ Well(t) /\ t.pd = s.pd /\ t.db = s.db /\ t.ip = s.ip
      /\ t.file \in {s.file, one} /\ t.seen \subseteq s.seen \union new
  BY Zenon, <1>5 DEF Well, Good
<1>7. Based(one) /\ \A g \in new : Based(g)
  BY <1>3, <1>4 DEF new, one
<1>8. Good(t)
  BY <1>6, <1>7 DEF Good, Taken, Busy
<1> QED BY <1>8 DEF t

(* A lease is added for what is busy. *)
LEMMA AddGood ==
    ASSUME NEW s, Good(s), NEW k \in Keys, Busy(s, k), NEW d
    PROVE  Good(AddLease(s, k, d))
<1> DEFINE lease == [duid |-> d, state |-> "ACTIVE", over |-> FALSE]
           new == WithLease(s.db, k, lease)
<1>1. /\ DOMAIN new = DOMAIN s.db \union {k}
      /\ \A i \in DOMAIN s.db \ {k} : new[i] = s.db[i]
  <2> HIDE DEF lease
  <2> QED BY DEF WithLease
<1>2. AddLease(s, k, d) = lease_v6_db_append([s EXCEPT !.db = new], k)
  BY DEF AddLease
<1> HIDE DEF new
<1>3. DOMAIN new \subseteq Keys
  BY <1>1 DEF Good
<1>4. \A i \in DOMAIN new : new[i].state = "ACTIVE" => Busy(s, i)
  BY <1>1 DEF Good, Taken
<1>5. Good([s EXCEPT !.db = new])
  BY <1>3, <1>4, DbGood
<1> QED BY <1>2, <1>5, AppendGood

(* A lease ends. *)
LEMMA EndGood ==
    ASSUME NEW s, Good(s), NEW k \in DOMAIN s.db, NEW new, new # "ACTIVE"
    PROVE  Good([s EXCEPT !.db = WithLease(s.db, k, Over(s.db[k], new))])
<1> DEFINE lease == Over(s.db[k], new)
           db2 == WithLease(s.db, k, lease)
<1>0. lease.state = new
  BY OverFacts
<1>1. /\ DOMAIN db2 = DOMAIN s.db \union {k} /\ db2[k].state = new
      /\ \A i \in DOMAIN s.db \ {k} : db2[i] = s.db[i]
  <2> HIDE DEF lease
  <2> QED BY <1>0 DEF WithLease
<1> HIDE DEF db2
<1>2. DOMAIN db2 \subseteq Keys
  BY <1>1 DEF Good
<1>3. \A i \in DOMAIN db2 : db2[i].state = "ACTIVE" => Busy(s, i)
  BY <1>1 DEF Good, Taken
<1>4. Good([s EXCEPT !.db = db2])
  BY <1>2, <1>3, DbGood
<1> QED BY <1>4 DEF db2

(* Conflicts: the entries leave circulation and their leases are abandoned, together. *)
LEMMA ConflictGood ==
    ASSUME NEW s, Good(s), NEW A \in SUBSET Addrs
    PROVE  Good(ip6_pool_mark_conflict(s, A))
<1> DEFINE p == MoveAll(s.ip, A, [a \in A |-> "CONFLICT"], [a \in A |-> s.ip.duid[a]])
           t == [s EXCEPT !.ip = p]
           hit == A \cap DOMAIN t.db
           With(K) == [k \in DOMAIN t.db |-> IF k \in K THEN Over(t.db[k], "ABANDONED") ELSE t.db[k]]
           between == {[base |-> Printed(With({k \in hit : k <= n})), log |-> <<>>] : n \in hit}
           u == [t EXCEPT !.db = With(hit)]
           saved == lease_v6_db_save(u)
<1>1. ip6_pool_mark_conflict(s, A) = IF hit = {} THEN t
                                     ELSE IF t.disk THEN [saved EXCEPT !.seen = @ \union between] ELSE saved
  BY DEF ip6_pool_mark_conflict, lease_v6_mark_conflict
<1>2. /\ Exact(p)
      /\ \A a \in Addrs \ A : p.state[a] = s.ip.state[a]
  <2> DEFINE new == [a \in A |-> "CONFLICT"]
             own == [a \in A |-> s.ip.duid[a]]
  <2> HIDE DEF new, own
  <2>1. /\ Exact(MoveAll(s.ip, A, new, own))
        /\ MoveAll(s.ip, A, new, own).state = [a \in Addrs |-> IF a \in A THEN new[a] ELSE s.ip.state[a]]
    BY MoveExact DEF Good
  <2> QED BY <2>1 DEF new, own
<1>3. Exact(s.ip) /\ PdExact(s.pd) /\ DOMAIN s.db \subseteq Keys /\ Based(s.file)
      /\ (\A f \in s.seen : Based(f)) /\ Taken(s) /\ Well(s)
  BY DEF Good
<1>4. Well(t) /\ t.db = s.db /\ t.ip = p /\ t.pd = s.pd /\ t.file = s.file /\ t.seen = s.seen
  <2> HIDE DEF p
  <2> QED BY <1>3, IpFacts
<1>5. \A K : DOMAIN With(K) = DOMAIN t.db
  OBVIOUS
<1>6. \A k \in DOMAIN t.db : With(hit)[k].state = "ACTIVE" => k \notin A /\ t.db[k].state = "ACTIVE"
  BY OverFacts
<1>7. \A f \in between : Based(f)
  BY Zenon, <1>3, <1>4, <1>5, PrintedIsBased
<1> DEFINE d == With(hit)
<1>8. DOMAIN d = DOMAIN s.db /\ (\A k \in DOMAIN d : d[k].state = "ACTIVE" => k \notin A /\ s.db[k].state = "ACTIVE")
  BY Zenon, <1>4, <1>5, <1>6
<1>9. u = [t EXCEPT !.db = d]
  OBVIOUS
<1> HIDE DEF d, p, t, between, u
<1>10. Well(u) /\ u.db = d /\ u.ip = p /\ u.pd = s.pd /\ u.file = s.file /\ u.seen = s.seen
  BY <1>4, <1>9, DbFacts
<1>11. Taken(u)
  BY <1>2, <1>3, <1>8, <1>10 DEF Taken, Busy
<1>12. Good(u)
  BY <1>2, <1>3, <1>8, <1>10, <1>11 DEF Good
<1>13. Good(saved)
  BY <1>12, SaveGood
<1>14. Good([saved EXCEPT !.seen = @ \union between])
  <2> DEFINE v == [saved EXCEPT !.seen = @ \union between]
  <2> HIDE DEF saved
  <2>1. /\ Well(v) /\ v.db = saved.db /\ v.ip = saved.ip /\ v.pd = saved.pd /\ v.file = saved.file
        /\ v.seen = saved.seen \union between
    BY <1>13 DEF Good, Well
  <2> HIDE DEF v
  <2>2. Good(v)
    BY <1>7, <1>13, <2>1 DEF Good, Taken, Busy
  <2> QED BY <2>2 DEF v
<1>15. hit = {} => Good(t)
  <2>1. ASSUME hit = {} PROVE \A k \in DOMAIN s.db \cap Addrs :
            s.db[k].state = "ACTIVE" => p.state[k] \in {"ALLOCATED", "RESERVED"}
    BY <1>2, <1>3, <1>4, <2>1 DEF Taken, Busy
  <2> QED BY <1>2, <2>1, IpGood DEF t
<1> QED BY <1>1, <1>13, <1>14, <1>15

LEMMA GivenFacts ==
    ASSUME NEW s, NEW a
    PROVE  Given(s, a).s = s /\ Refused(s).s = s /\ Given(s, a).got = a /\ Refused(s).got = None
  BY DEF Given, Refused

LEMMA MoveFacts ==
    ASSUME NEW p, Exact(p), NEW a \in Addrs, NEW new, NEW d
    PROVE  /\ Exact(Move(p, a, new, d)) /\ Move(p, a, new, d).state[a] = new
           /\ \A b \in Addrs \ {a} : Move(p, a, new, d).state[b] = p.state[b]
<1> DEFINE f == [x \in {a} |-> new]
           g == [x \in {a} |-> d]
<1>1. Move(p, a, new, d) = MoveAll(p, {a}, f, g)
  BY DEF Move
<1>2. f[a] = new
  OBVIOUS
<1> HIDE DEF f, g
<1>3. /\ Exact(MoveAll(p, {a}, f, g))
      /\ MoveAll(p, {a}, f, g).state = [b \in Addrs |-> IF b \in {a} THEN f[b] ELSE p.state[b]]
  BY MoveExact
<1> QED BY <1>1, <1>2, <1>3

LEMMA PdMoveFacts ==
    ASSUME NEW p, PdExact(p), NEW a \in Prefixes, NEW new, NEW d
    PROVE  /\ PdExact(PdMove(p, a, new, d)) /\ PdMove(p, a, new, d).state[a] = new
           /\ \A b \in Prefixes \ {a} : PdMove(p, a, new, d).state[b] = p.state[b]
<1> DEFINE f == [x \in {a} |-> new]
           g == [x \in {a} |-> d]
<1>1. PdMove(p, a, new, d) = PdMoveAll(p, {a}, f, g)
  BY DEF PdMove
<1>2. f[a] = new
  OBVIOUS
<1> HIDE DEF f, g
<1>3. /\ PdExact(PdMoveAll(p, {a}, f, g))
      /\ PdMoveAll(p, {a}, f, g).state = [b \in Prefixes |-> IF b \in {a} THEN f[b] ELSE p.state[b]]
  BY PdMoveExact
<1> QED BY <1>1, <1>2, <1>3

-----------------------------------------------------------------------------
(* Allocation *)

(* A non-empty set of addresses has a first one. *)
LEMMA FirstOf ==
    ASSUME NEW A \in SUBSET Nat, A # {}
    PROVE  Min(A) \in A /\ \A y \in A : Min(A) <= y
<1> DEFINE R == OpToRel(<, Nat)
<1>1. PICK x \in A : \A y \in A : ~ (<<y, x>> \in R)
  <2>1. IsWellFoundedOn(R, Nat)
    BY Zenon, NatLessThanWellFounded
  <2> HIDE DEF R
  <2> QED BY Zenon, <2>1, WFMin
<1>2. ASSUME NEW y \in A PROVE x <= y
  <2>1. ~ (y < x)
    BY Zenon, <1>1 DEF OpToRel
  <2> QED BY <2>1
<1> QED BY Zenon, <1>2 DEF Min

LEMMA TakeGood ==
    ASSUME NEW s, Good(s), NEW a \in Addrs, NEW d
    PROVE  Good(Take(s, a, d).s)
<1> DEFINE p == Move(s.ip, a, "ALLOCATED", Stored(d))
           q == Move(s.ip, a, "AVAILABLE", None)
           t == [s EXCEPT !.ip = p]
           u == [s EXCEPT !.ip = q]
<1>1. Take(s, a, d).s = IF HasRoom(s, a) THEN AddLease(t, a, d) ELSE u
  BY GivenFacts DEF Take, lease_v6_add_ia_na
<1>2. /\ Exact(p) /\ p.state[a] = "ALLOCATED" /\ \A b \in Addrs \ {a} : p.state[b] = s.ip.state[b]
  BY MoveFacts DEF Good
<1>3. /\ Exact(q) /\ \A b \in Addrs \ {a} : q.state[b] = s.ip.state[b]
  BY MoveFacts DEF Good
<1> HIDE DEF p, q
<1>4. CASE HasRoom(s, a)
  <2>1. \A k \in DOMAIN s.db \cap Addrs :
            s.db[k].state = "ACTIVE" => p.state[k] \in {"ALLOCATED", "RESERVED"}
    BY <1>2 DEF Good, Taken, Busy
  <2>2. Good(t)
    BY <1>2, <2>1, IpGood
  <2>3. t.ip = p
    BY IpFacts DEF Good
  <2> HIDE DEF t
  <2>4. Busy(t, a) /\ a \in Keys
    BY <1>2, <2>3 DEF Busy, Keys
  <2>5. Good(AddLease(t, a, d))
    BY <2>2, <2>4, AddGood
  <2> QED BY <1>1, <1>4, <2>5 DEF t
<1>5. CASE ~HasRoom(s, a)
  <2>1. a \notin DOMAIN s.db
    BY <1>5 DEF HasRoom
  <2>2. \A k \in DOMAIN s.db \cap Addrs :
            s.db[k].state = "ACTIVE" => q.state[k] \in {"ALLOCATED", "RESERVED"}
    BY <1>3, <2>1 DEF Good, Taken, Busy
  <2>3. Good(u)
    BY <1>3, <2>2, IpGood
  <2> QED BY <1>1, <1>5, <2>3
<1> QED BY <1>4, <1>5

LEMMA AllocateGood ==
    ASSUME NEW s, Good(s), NEW d, NEW r, NEW alive
    PROVE  Good(ip6_pool_allocate(s, d, r, alive).s)
<1>1. CASE d \in DOMAIN Hosts /\ Hosts[d] \in Addrs
  <2>1. Good(ip6_pool_mark_conflict(s, {Hosts[d]})) /\ Good(Take(s, Hosts[d], d).s)
    BY <1>1, ConflictGood, TakeGood
  <2>2. Good(StaticHost(s, d, alive).s)
    BY <2>1, GivenFacts DEF StaticHost
  <2> QED BY <1>1, <2>2 DEF ip6_pool_allocate
<1>2. CASE ~(d \in DOMAIN Hosts /\ Hosts[d] \in Addrs) /\ Owned(s.ip, d) # {}
  <2> DEFINE a == Min(Owned(s.ip, d))
  <2>1. Owned(s.ip, d) \in SUBSET Nat
    BY Zenon, KeysAssumption DEF Owned
  <2>2. a \in Owned(s.ip, d)
    BY <1>2, <2>1, FirstOf
  <2>3. Refresh(s, d).s = IF HasRoom(s, a) THEN AddLease(s, a, d) ELSE s
    BY GivenFacts DEF Refresh, lease_v6_add_ia_na
  <2> HIDE DEF a
  <2>4. a \in Keys /\ Busy(s, a)
    BY <2>2 DEF Owned, Keys, Busy
  <2>5. Good(Refresh(s, d).s)
    BY <2>3, <2>4, AddGood
  <2> QED BY <1>2, <2>5 DEF ip6_pool_allocate
<1>3. CASE ~(d \in DOMAIN Hosts /\ Hosts[d] \in Addrs) /\ Owned(s.ip, d) = {} /\ r \in Free(s.ip)
  <2>1. r \in Addrs
    BY <1>3 DEF Free
  <2>2. Good(ip6_pool_mark_conflict(s, {r})) /\ Good(Take(s, r, d).s)
    BY <2>1, ConflictGood, TakeGood
  <2>3. Good(Requested(s, d, r, alive).s)
    BY <2>2, GivenFacts DEF Requested
  <2> QED BY <1>3, <2>3 DEF ip6_pool_allocate
<1>4. CASE ~(d \in DOMAIN Hosts /\ Hosts[d] \in Addrs) /\ Owned(s.ip, d) = {} /\ r \notin Free(s.ip)
  <2> DEFINE good == {a \in Free(s.ip) \ alive : HasRoom(s, a)}
             tried == {a \in Free(s.ip) : good = {} \/ a < Min(good)}
             probed == ip6_pool_mark_conflict(s, tried \cap alive)
  <2>1. FirstFree(s, d, alive) = IF good = {} THEN Refused(probed) ELSE Take(probed, Min(good), d)
    BY DEF FirstFree
  <2>2. good \subseteq Addrs /\ tried \cap alive \in SUBSET Addrs
    BY DEF Free
  <2> HIDE DEF good, tried
  <2>3. Good(probed)
    BY <2>2, ConflictGood
  <2> HIDE DEF probed
  <2>4. good # {} => Min(good) \in Addrs
    BY Zenon, <2>2, KeysAssumption, FirstOf
  <2>5. good # {} => Good(Take(probed, Min(good), d).s)
    BY <2>3, <2>4, TakeGood
  <2>6. Good(FirstFree(s, d, alive).s)
    BY <2>1, <2>3, <2>5, GivenFacts
  <2> QED BY <1>4, <2>6 DEF ip6_pool_allocate
<1> QED BY <1>1, <1>2, <1>3, <1>4

LEMMA PdAllocateGood ==
    ASSUME NEW s, Good(s), NEW d
    PROVE  Good(pd_pool_allocate(s, d).s)
<1>0. Prefixes \subseteq Nat /\ Prefixes \cap Addrs = {}
  BY KeysAssumption
<1>1. CASE PdOwned(s.pd, d) # {}
  <2> DEFINE p == Min(PdOwned(s.pd, d))
  <2>1. PdOwned(s.pd, d) \in SUBSET Nat
    BY Zenon, <1>0 DEF PdOwned
  <2>2. p \in PdOwned(s.pd, d)
    BY <1>1, <2>1, FirstOf
  <2>3. PdRefresh(s, d).s = IF HasRoom(s, p) THEN AddLease(s, p, d) ELSE s
    BY GivenFacts DEF PdRefresh, lease_v6_add_ia_pd
  <2> HIDE DEF p
  <2>4. p \in Keys /\ Busy(s, p)
    BY <1>0, <2>2 DEF PdOwned, Keys, Busy
  <2>5. Good(PdRefresh(s, d).s)
    BY <2>3, <2>4, AddGood
  <2> QED BY <1>1, <2>5 DEF pd_pool_allocate
<1>2. CASE PdOwned(s.pd, d) = {}
  <2> DEFINE p == Min(PdFree(s.pd))
             m == PdMove(s.pd, p, "ALLOCATED", Stored(d))
             n == PdMove(s.pd, p, "AVAILABLE", None)
             t == [s EXCEPT !.pd = m]
             u == [s EXCEPT !.pd = n]
  <2>1. PdFirstFree(s, d).s = IF PdFree(s.pd) = {} THEN s
                              ELSE IF HasRoom(s, p) THEN lease_v6_db_save(AddLease(t, p, d)) ELSE u
    BY GivenFacts DEF PdFirstFree, lease_v6_add_ia_pd
  <2>2. ASSUME PdFree(s.pd) # {} PROVE p \in Prefixes
    <3>1. PdFree(s.pd) \in SUBSET Nat
      BY Zenon, <1>0 DEF PdFree
    <3>2. p \in PdFree(s.pd)
      BY <2>2, <3>1, FirstOf
    <3> QED BY <3>2 DEF PdFree
  <2> HIDE DEF p
  <2>3. CASE PdFree(s.pd) # {} /\ HasRoom(s, p)
    <3>1. /\ PdExact(m) /\ m.state[p] = "ALLOCATED" /\ \A b \in Prefixes \ {p} : m.state[b] = s.pd.state[b]
      BY <2>2, <2>3, PdMoveFacts DEF Good
    <3> HIDE DEF m
    <3>2. \A k \in DOMAIN s.db \ Addrs : s.db[k].state = "ACTIVE" => m.state[k] = "ALLOCATED"
      BY <3>1 DEF Good, Taken, Busy, Keys
    <3>3. Good(t)
      BY <3>1, <3>2, PdGood
    <3>4. t.pd = m
      BY PdFacts DEF Good
    <3> HIDE DEF t
    <3>5. Busy(t, p) /\ p \in Keys
      BY <1>0, <2>2, <2>3, <3>1, <3>4 DEF Busy, Keys
    <3>6. Good(lease_v6_db_save(AddLease(t, p, d)))
      BY <3>3, <3>5, AddGood, SaveGood
    <3> QED BY <1>2, <2>1, <2>3, <3>6 DEF pd_pool_allocate
  <2>4. CASE PdFree(s.pd) # {} /\ ~HasRoom(s, p)
    <3>1. /\ PdExact(n) /\ \A b \in Prefixes \ {p} : n.state[b] = s.pd.state[b]
      BY <2>2, <2>4, PdMoveFacts DEF Good
    <3> HIDE DEF n
    <3>2. p \notin DOMAIN s.db
      BY <2>4 DEF HasRoom
    <3>3. \A k \in DOMAIN s.db \ Addrs : s.db[k].state = "ACTIVE" => n.state[k] = "ALLOCATED"
      BY <3>1, <3>2 DEF Good, Taken, Busy, Keys
    <3>4. Good(u)
      BY <3>1, <3>3, PdGood
    <3> QED BY <1>2, <2>1, <2>4, <3>4 DEF pd_pool_allocate
  <2>5. CASE PdFree(s.pd) = {}
    BY <1>2, <2>1, <2>5 DEF pd_pool_allocate
  <2> QED BY <2>3, <2>4, <2>5
<1> QED BY <1>1, <1>2

-----------------------------------------------------------------------------
(* The handlers *)

LEMMA PdReleaseGood ==
    ASSUME NEW s, Good(s), NEW p \in Prefixes
    PROVE  Good(pd_pool_release(s, p))
<1> DEFINE n == PdMove(s.pd, p, "AVAILABLE", None)
           t == IF s.pd.state[p] = "ALLOCATED" THEN [s EXCEPT !.pd = n] ELSE s
           lease == Over(t.db[p], "RELEASED")
           d == WithLease(t.db, p, lease)
           u == [t EXCEPT !.db = d]
<1>0. Prefixes \cap Addrs = {}
  BY KeysAssumption
<1>1. pd_pool_release(s, p) = lease_v6_db_save(IF p \in DOMAIN t.db THEN lease_v6_db_save(u) ELSE t)
  BY DEF pd_pool_release, lease_v6_release_prefix
<1>2. PdExact(n) /\ \A b \in Prefixes \ {p} : n.state[b] = s.pd.state[b]
  BY PdMoveFacts DEF Good
<1> HIDE DEF n
<1>3. /\ Well(t) /\ t.db = s.db /\ t.ip = s.ip /\ t.pd \in {s.pd, n} /\ t.file = s.file /\ t.seen = s.seen
  BY PdFacts DEF Good
<1>4. lease.state = "RELEASED"
  BY OverFacts
<1> HIDE DEF t, lease
<1>5. CASE p \in DOMAIN t.db
  <2>1. DOMAIN d = DOMAIN t.db /\ d[p].state = "RELEASED" /\ \A i \in DOMAIN d \ {p} : d[i] = t.db[i]
    BY <1>4, <1>5 DEF WithLease
  <2> HIDE DEF d
  <2>2. Well(u) /\ u.db = d /\ u.ip = t.ip /\ u.pd = t.pd /\ u.file = t.file /\ u.seen = t.seen
    BY <1>3, DbFacts
  <2> HIDE DEF u
  <2>3. \A b \in Prefixes \ {p} : u.pd.state[b] = s.pd.state[b]
    BY <1>2, <1>3, <2>2
  <2>4. Taken(u)
    BY <1>0, <1>3, <2>1, <2>2, <2>3 DEF Good, Taken, Busy, Keys
  <2>5. Good(u)
    BY <1>2, <1>3, <2>1, <2>2, <2>4 DEF Good
  <2>6. Good(lease_v6_db_save(lease_v6_db_save(u)))
    BY <2>5, SaveGood
  <2> QED BY <1>1, <1>5, <2>6
<1>6. CASE p \notin DOMAIN t.db
  <2>1. \A b \in Prefixes \ {p} : t.pd.state[b] = s.pd.state[b]
    BY <1>2, <1>3
  <2>2. Taken(t)
    BY <1>0, <1>3, <1>6, <2>1 DEF Good, Taken, Busy, Keys
  <2>3. Good(t)
    BY <1>2, <1>3, <2>2 DEF Good
  <2>4. Good(lease_v6_db_save(t))
    BY <2>3, SaveGood
  <2> QED BY <1>1, <1>6, <2>4
<1> QED BY <1>5, <1>6

LEMMA ReleaseGood ==
    ASSUME NEW s, Good(s), NEW a
    PROVE  Good(lease_v6_release_ip(s, a))
<1>1. ASSUME a \in DOMAIN s.db
      PROVE  Good(lease_v6_db_save([s EXCEPT !.db = WithLease(s.db, a, Over(s.db[a], "RELEASED"))]))
  BY <1>1, EndGood, SaveGood
<1> QED BY <1>1 DEF lease_v6_release_ip

(* The round of cleanup_thread. *)
LEMMA ExpireGood ==
    ASSUME NEW s, Good(s)
    PROVE  Good(lease_v6_mark_expired_older(s))
<1> DEFINE d == [k \in DOMAIN s.db |->
                    IF k \in Overdue(s.db) THEN Over(s.db[k], "EXPIRED") ELSE s.db[k]]
<1>1. lease_v6_mark_expired_older(s) = IF Overdue(s.db) # {} THEN lease_v6_db_save([s EXCEPT !.db = d]) ELSE s
  BY DEF lease_v6_mark_expired_older
<1>2. /\ DOMAIN d = DOMAIN s.db
      /\ \A k \in DOMAIN s.db : d[k].state = "ACTIVE" => s.db[k].state = "ACTIVE"
  BY OverFacts
<1> HIDE DEF d
<1>3. DOMAIN d \subseteq Keys /\ \A k \in DOMAIN d : d[k].state = "ACTIVE" => Busy(s, k)
  BY <1>2 DEF Good, Taken
<1>4. Good([s EXCEPT !.db = d])
  BY <1>3, DbGood
<1>5. Good(lease_v6_db_save([s EXCEPT !.db = d]))
  BY <1>4, SaveGood
<1> QED BY <1>1, <1>5

LEMMA RemoveGood ==
    ASSUME NEW s, Good(s)
    PROVE  Good(lease_v6_cleanup(s))
<1> DEFINE d == [k \in DOMAIN s.db \ Ended(s.db) |-> s.db[k]]
<1>1. lease_v6_cleanup(s) = IF Ended(s.db) # {} THEN lease_v6_db_save([s EXCEPT !.db = d]) ELSE s
  BY DEF lease_v6_cleanup
<1>2. /\ DOMAIN d \subseteq DOMAIN s.db
      /\ \A k \in DOMAIN d : d[k] = s.db[k]
  OBVIOUS
<1> HIDE DEF d
<1>3. DOMAIN d \subseteq Keys /\ \A k \in DOMAIN d : d[k].state = "ACTIVE" => Busy(s, k)
  BY <1>2 DEF Good, Taken
<1>4. Good([s EXCEPT !.db = d])
  BY <1>3, DbGood
<1>5. Good(lease_v6_db_save([s EXCEPT !.db = d]))
  BY <1>4, SaveGood
<1> QED BY <1>1, <1>5

(* Synchronisation gives every active lease an allocated entry. *)
LEMMA SyncFacts ==
    ASSUME NEW p, Exact(p), NEW d
    PROVE  LET q == ip6_pool_sync_with_leases(p, d)
           IN  /\ Exact(q)
               /\ \A k \in DOMAIN d \cap Addrs : d[k].state = "ACTIVE" => q.state[k] = "ALLOCATED"
<1> DEFINE A == DOMAIN d \cap Addrs
           new == [a \in A |-> ip6_state_from_lease_state(d[a].state)]
           owner == [a \in A |-> IF new[a] \in {"ALLOCATED", "RESERVED"} THEN Synced(d[a].duid) ELSE None]
           q == ip6_pool_sync_with_leases(p, d)
<1>1. q = MoveAll(p, A, new, owner)
  BY Zenon DEF ip6_pool_sync_with_leases
<1>2. \A k \in A : d[k].state = "ACTIVE" => new[k] = "ALLOCATED"
  BY DEF ip6_state_from_lease_state
<1>3. A \in SUBSET Addrs
  OBVIOUS
<1> HIDE DEF new, owner, q, A
<1>4. Exact(q) /\ q.state = [a \in Addrs |-> IF a \in A THEN new[a] ELSE p.state[a]]
  BY <1>1, <1>3, MoveExact
<1>5. \A k \in A : d[k].state = "ACTIVE" => q.state[k] = "ALLOCATED"
  BY <1>2, <1>3, <1>4
<1> QED BY <1>4, <1>5 DEF q, A

-----------------------------------------------------------------------------
(* The handlers start from the variables and end in them. *)

LEMMA StateFacts ==
    ASSUME NEW disk
    PROVE  LET s == State(disk)
           IN  /\ Well(s) /\ s.db = db /\ s.file = file /\ s.ip = ip /\ s.pd = pd /\ s.seen = {}
  BY Zenon DEF State, Well

LEMMA CleanedGood ==
    ASSUME NEW disk, Good(State(disk))
    PROVE  Good(Cleaned(disk)) /\ Good(Expired(disk)) /\ Good(Removed(disk))
<1>1. Good(Expired(disk))
  BY ExpireGood DEF Expired
<1>2. Good(Removed(disk))
  BY <1>1, RemoveGood DEF Removed
<1> DEFINE s == Removed(disk)
           q == ip6_pool_sync_with_leases(s.ip, s.db)
<1>3. Cleaned(disk) = lease_v6_db_save([s EXCEPT !.ip = q])
  BY DEF Cleaned
<1> HIDE DEF s
<1>4. Exact(q) /\ \A k \in DOMAIN s.db \cap Addrs : s.db[k].state = "ACTIVE" => q.state[k] = "ALLOCATED"
  BY <1>2, SyncFacts DEF s, Good
<1> HIDE DEF q
<1>5. Good([s EXCEPT !.ip = q])
  BY <1>2, <1>4, IpGood DEF s
<1>6. Good(lease_v6_db_save([s EXCEPT !.ip = q]))
  BY <1>5, SaveGood
<1> QED BY <1>1, <1>2, <1>3, <1>6

-----------------------------------------------------------------------------
(* Every step of the server keeps the invariant. *)

Inv6 ==
    /\ Exact(ip) /\ PdExact(pd)
    /\ DOMAIN db \subseteq Keys /\ Based(file)
    /\ ActiveIsTaken

LEMMA StateGood ==
    ASSUME Inv6, NEW disk
    PROVE  Good(State(disk))
<1> DEFINE s == State(disk)
<1>1. /\ Well(s) /\ s.db = db /\ s.file = file /\ s.ip = ip /\ s.pd = pd /\ s.seen = {}
  BY StateFacts
<1> HIDE DEF s
<1>2. Good(s)
  BY <1>1 DEF Good, Inv6, ActiveIsTaken, Taken, Busy, InUse
<1> QED BY <1>2 DEF s

LEMMA CommitGood ==
    ASSUME NEW s, Good(s), NEW asked, Commit(s, asked)
    PROVE  Inv6'
<1>1. db' = s.db /\ file' = s.file /\ ip' = s.ip /\ pd' = s.pd
  BY DEF Commit
<1> QED BY <1>1 DEF Good, Inv6, ActiveIsTaken, Taken, Busy, InUse

LEMMA ForgetGood ==
    ASSUME LoseMemory, Based(file')
    PROVE  Inv6'
<1>1. db' = NoDatabase /\ ip' = FreshPool /\ pd' = FreshPdPool
  BY DEF LoseMemory
<1>2. DOMAIN NoDatabase = {}
  BY DEF NoDatabase
<1> QED BY <1>1, <1>2, FreshExact DEF Inv6, ActiveIsTaken

LEMMA CrashGood ==
    ASSUME NEW s, Good(s), NEW asked, CrashIn(s, asked)
    PROVE  Inv6'
<1>1. file' \in s.seen /\ LoseMemory
  BY DEF CrashIn
<1>2. Based(file')
  BY <1>1 DEF Good
<1> QED BY <1>1, <1>2, ForgetGood

(* The pools are built from the leases that were read, and the static hosts. *)
LEMMA PoolInitFacts ==
    ASSUME NEW d
    PROVE  LET q == ip6_pool_init(d)
           IN  /\ Exact(q)
               /\ \A k \in DOMAIN d \cap Addrs :
                      d[k].state = "ACTIVE" => q.state[k] \in {"ALLOCATED", "RESERVED"}
<1> DEFINE p == ip6_pool_sync_with_leases(FreshPool, d)
           new == [a \in HostAddrs |-> "RESERVED"]
           owner == [a \in HostAddrs |-> Stored(HostOf(a))]
           q == ip6_pool_init(d)
<1>1. q = MoveAll(p, HostAddrs, new, owner)
  BY DEF ip6_pool_init, ReserveHosts
<1>2. Exact(p) /\ \A k \in DOMAIN d \cap Addrs : d[k].state = "ACTIVE" => p.state[k] = "ALLOCATED"
  BY FreshExact, SyncFacts
<1>3. \A a \in HostAddrs : new[a] = "RESERVED"
  OBVIOUS
<1>4. HostAddrs \in SUBSET Addrs
  BY DEF HostAddrs
<1> HIDE DEF p, new, owner, q
<1>5. Exact(q) /\ q.state = [a \in Addrs |-> IF a \in HostAddrs THEN new[a] ELSE p.state[a]]
  BY <1>1, <1>2, <1>4, MoveExact
<1>6. \A k \in DOMAIN d \cap Addrs : d[k].state = "ACTIVE" => q.state[k] \in {"ALLOCATED", "RESERVED"}
  BY <1>2, <1>3, <1>5
<1> QED BY <1>5, <1>6 DEF q

LEMMA PdInitFacts ==
    ASSUME NEW d
    PROVE  LET q == pd_pool_init(d)
           IN  /\ PdExact(q)
               /\ \A k \in DOMAIN d \cap Prefixes : d[k].state = "ACTIVE" => q.state[k] = "ALLOCATED"
<1> DEFINE A == DOMAIN d \cap Prefixes
           new == [p \in A |-> ip6_state_from_lease_state(d[p].state)]
           owner == [p \in A |-> Synced(d[p].duid)]
           q == pd_pool_init(d)
<1>1. q = PdMoveAll(FreshPdPool, A, new, owner)
  BY DEF pd_pool_init
<1>2. \A k \in A : d[k].state = "ACTIVE" => new[k] = "ALLOCATED"
  BY DEF ip6_state_from_lease_state
<1>3. A \in SUBSET Prefixes
  OBVIOUS
<1> HIDE DEF new, owner, q, A
<1>4. PdExact(q) /\ q.state = [p \in Prefixes |-> IF p \in A THEN new[p] ELSE FreshPdPool.state[p]]
  BY <1>1, <1>3, FreshExact, PdMoveExact
<1>5. \A k \in A : d[k].state = "ACTIVE" => q.state[k] = "ALLOCATED"
  BY <1>2, <1>3, <1>4
<1> QED BY <1>4, <1>5 DEF q, A

LEMMA StartGood ==
    ASSUME Inv6, NEW day, Start(day)
    PROVE  Inv6'
<1> DEFINE d == lease_v6_db_load(file, day)
<1>1. db' = d /\ ip' = ip6_pool_init(d) /\ pd' = pd_pool_init(d) /\ file' = file
  BY DEF Start
<1>2. DOMAIN d \subseteq Keys
  BY DEF lease_v6_db_load, ReadKeys, Inv6, Based
<1> HIDE DEF d
<1>3. /\ Exact(ip')
      /\ \A k \in DOMAIN d \cap Addrs : d[k].state = "ACTIVE" => ip'.state[k] \in {"ALLOCATED", "RESERVED"}
  BY <1>1, PoolInitFacts
<1>4. /\ PdExact(pd')
      /\ \A k \in DOMAIN d \cap Prefixes : d[k].state = "ACTIVE" => pd'.state[k] = "ALLOCATED"
  BY <1>1, PdInitFacts
<1>5. ActiveIsTaken'
  BY <1>1, <1>2, <1>3, <1>4 DEF ActiveIsTaken, InUse, Keys
<1> QED BY <1>1, <1>2, <1>3, <1>4, <1>5 DEF Inv6, Based

LEMMA NoticedGood ==
    ASSUME Inv6, NEW m \in Notices, NEW disk
    PROVE  Good(Noticed(m, disk))
<1> DEFINE s == State(disk)
<1>1. Good(s)
  BY StateGood
<1>2. /\ m.key \in Prefixes \/ m.key \in Addrs
      /\ m.type \in {"RELEASE", "DECLINE"}
  BY DEF Notices, Keys
<1> HIDE DEF s
<1>3. /\ m.key \in Prefixes => Good(pd_pool_release(s, m.key))
      /\ Good(lease_v6_release_ip(s, m.key))
      /\ m.key \in Addrs => Good(ip6_pool_mark_conflict(s, {m.key}))
  BY <1>1, PdReleaseGood, ReleaseGood, ConflictGood
<1>4. Prefixes \cap Addrs = {}
  BY KeysAssumption
<1>5. Noticed(m, disk) =
          CASE m.key \in Prefixes /\ m.type = "RELEASE" -> pd_pool_release(s, m.key)
            [] m.key \in Prefixes /\ m.type = "DECLINE" -> s
            [] m.key \in Addrs /\ DOMAIN db = {} -> s
            [] m.key \in Addrs /\ DOMAIN db # {} ->
                IF m.type = "RELEASE" THEN lease_v6_release_ip(s, m.key)
                                      ELSE ip6_pool_mark_conflict(s, {m.key})
  BY DEF Noticed, s
<1> QED BY Zenon, <1>1, <1>2, <1>3, <1>4, <1>5

LEMMA AnswerGood ==
    ASSUME Inv6, NEW q, NEW alive, NEW disk
    PROVE  Good(AnswerPd(q, AnswerNa(q, alive, disk).s).s)
<1>1. Good(State(disk))
  BY StateGood
<1> DEFINE s == AnswerNa(q, alive, disk).s
<1>2. Good(s)
  BY <1>1, AllocateGood, GivenFacts DEF AnswerNa
<1> HIDE DEF s
<1>3. Good(AnswerPd(q, s).s)
  BY <1>2, PdAllocateGood, GivenFacts DEF AnswerPd
<1> QED BY <1>3 DEF s

LEMMA RunsOutGood ==
    ASSUME Inv6, NEW c, NEW k, RunsOut(c, k)
    PROVE  Inv6'
<1> DEFINE lease == Over(db[k], "ACTIVE")
           d == WithLease(db, k, lease)
<1>1. UNCHANGED <<ip, pd, file>> /\ db' = IF Running(c, k) THEN d ELSE db
  BY DEF RunsOut
<1> HIDE DEF lease
<1>2. Running(c, k) => k \in DOMAIN db /\ db[k].state = "ACTIVE"
  BY DEF Running
<1>3. Running(c, k) => DOMAIN d = DOMAIN db /\ \A i \in DOMAIN db \ {k} : d[i] = db[i]
  BY <1>2 DEF WithLease
<1> HIDE DEF d
<1>4. DOMAIN db' = DOMAIN db /\ \A i \in DOMAIN db : db'[i].state = "ACTIVE" => db[i].state = "ACTIVE"
  BY <1>1, <1>2, <1>3
<1> QED BY <1>1, <1>4 DEF Inv6, Based, ActiveIsTaken, InUse

LEMMA Inv6Init == Init => Inv6
<1> SUFFICES ASSUME Init PROVE Inv6
  OBVIOUS
<1>1. db = NoDatabase /\ ip = FreshPool /\ pd = FreshPdPool /\ file = EmptyFile
  BY DEF Init
<1>2. DOMAIN NoDatabase = {} /\ Based(EmptyFile)
  BY DEF NoDatabase, EmptyFile, Based
<1> QED BY <1>1, <1>2, FreshExact DEF Inv6, ActiveIsTaken

LEMMA Inv6Step == Inv6 /\ [Next]_vars => Inv6'
<1> SUFFICES ASSUME Inv6, [Next]_vars PROVE Inv6'
  OBVIOUS
<1>g. \A disk : Good(State(disk)) /\ Good(Cleaned(disk)) /\ Good(Expired(disk)) /\ Good(Removed(disk))
  BY StateGood, CleanedGood
<1>1. ASSUME NEW day, Start(day) PROVE Inv6'
  BY <1>1, StartGood
<1>2. CASE StartHangs
  BY <1>2 DEF StartHangs, Inv6, Based, ActiveIsTaken, InUse
<1>3. CASE Crash
  <2>1. LoseMemory /\ file' = file
    BY <1>3 DEF Crash
  <2> QED BY <2>1, ForgetGood DEF Inv6, Based
<1>4. ASSUME NEW q, NEW alive, NEW disk, Process(q, alive, disk) PROVE Inv6'
  <2>1. Commit(AnswerPd(q, AnswerNa(q, alive, disk).s).s, Asked(q))
    BY <1>4 DEF Process
  <2> QED BY <2>1, AnswerGood, CommitGood
<1>5. ASSUME NEW q, NEW alive, ProcessCrash(q, alive) PROVE Inv6'
  <2>1. CrashIn(AnswerPd(q, AnswerNa(q, alive, TRUE).s).s, Asked(q))
    BY Zenon, <1>5 DEF ProcessCrash
  <2> QED BY Zenon, <2>1, AnswerGood, CrashGood
<1>6. ASSUME NEW m \in Notices, NEW disk, Notice(m, disk) PROVE Inv6'
  <2>1. Commit(Noticed(m, disk), 0)
    BY <1>6 DEF Notice
  <2> QED BY <2>1, NoticedGood, CommitGood
<1>7. ASSUME NEW m \in Notices, NoticeCrash(m) PROVE Inv6'
  <2>1. CrashIn(Noticed(m, TRUE), 0)
    BY Zenon, <1>7 DEF NoticeCrash
  <2> QED BY Zenon, <2>1, NoticedGood, CrashGood
<1>8. ASSUME NEW disk, Cleanup(disk) PROVE Inv6'
  <2>1. Commit(Cleaned(disk), 0)
    BY <1>8 DEF Cleanup
  <2> QED BY <1>g, <2>1, CommitGood
<1>9. CASE CleanupCrash
  <2>1. CrashIn(Cleaned(TRUE), 0)
    BY Zenon, <1>9 DEF CleanupCrash
  <2> QED BY Zenon, <1>g, <2>1, CrashGood
<1>10. CASE Stop
  <2>1. LoseMemory
    BY <1>10 DEF Stop
  <2>2. PICK s \in {State(TRUE), Expired(TRUE), Removed(TRUE)} : file' = lease_v6_db_save(s).file
    BY Zenon, <1>10 DEF Stop
  <2>3. Good(s)
    BY Zenon, <1>g, <2>2
  <2>4. Based(lease_v6_db_save(s).file)
    BY <2>3, SaveGood DEF Good
  <2> QED BY <2>1, <2>2, <2>4, ForgetGood
<1>11. ASSUME NEW c, NEW k, NEW type, Leaves(c, k, type) PROVE Inv6'
  BY <1>11 DEF Leaves, Inv6, Based, ActiveIsTaken, InUse
<1>12. ASSUME NEW c, NEW k, RunsOut(c, k) PROVE Inv6'
  BY <1>12, RunsOutGood
<1>13. CASE UNCHANGED vars
  BY <1>13 DEF vars, Inv6, Based, ActiveIsTaken, InUse
<1> QED
  BY <1>1, <1>2, <1>3, <1>4, <1>5, <1>6, <1>7, <1>8, <1>9, <1>10, <1>11, <1>12, <1>13 DEF Next

(* Both pools count right (ip6_pool.c, pd_pool.c), through allocations with their
   rollbacks, conflicts, releases, synchronisations and starts. *)
THEOREM Counters6Exact == Spec => []Counters6Match
<1>1. Inv6 => Counters6Match
  BY DEF Inv6, Exact, PdExact, Counters6Match
<1> QED BY <1>1, Inv6Init, Inv6Step, PTL DEF Spec

(* The pools do not offer what has an active lease in ctx.db (ip6_pool_allocate,
   pd_pool_allocate), whatever crashed, failed or was removed before. *)
THEOREM ActiveStaysTaken == Spec => []ActiveIsTaken
<1>1. Inv6 => ActiveIsTaken
  BY DEF Inv6
<1> QED BY <1>1, Inv6Init, Inv6Step, PTL DEF Spec
=============================================================================
