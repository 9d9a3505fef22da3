------------------------------- MODULE Lease6Ops -------------------------------
(***************************************************************************)
(* The DHCPv6 lease database of leases6.c: the leases in memory and the    *)
(* file behind them, as operators on a value s of the server's state       *)
(* (s.db, s.file; the pools beside them are in Ip6PoolOps and PdPoolOps).  *)
(*                                                                         *)
(* A lease belongs to an address (IA_NA) or a prefix (IA_PD).  Every       *)
(* function of leases6.c looks an address up before it takes a new slot,   *)
(* so the array is a function from the keys in use to leases and its       *)
(* count is the number of keys.  Of the times of a lease only "over",      *)
(* ends < now, is kept.                                                    *)
(*                                                                         *)
(* lease_v6_db_save replaces the file by a rename, lease_v6_db_append adds *)
(* a block with one write per line.  The file is therefore what the last   *)
(* save printed (base) and the blocks appended since (log); a crash can    *)
(* leave the last block torn, for a prefix after its first line ("head")   *)
(* or later ("body"), which makes a difference when it is read.            *)
(* s.seen collects every content the file has while a handler runs: what a *)
(* crash in the middle may leave.  s.disk is FALSE when the files cannot   *)
(* be written; the callers ignore that, s.failed notes it.                 *)
(***************************************************************************)
EXTENDS Naturals, FiniteSets, Sequences, FiniteSetsExt

CONSTANTS Addrs,        \* the addresses of the pool range, in order
          Prefixes,     \* the prefixes that can be delegated, in order
          Duids,        \* clients
          LongDuids,    \* clients whose DUID has 43 bytes, or more if not a static host
          None,         \* no DUID, no address
          LEASES6_MAX   \* slots of the database

ASSUME KeysAssumption == Addrs \subseteq Nat /\ Prefixes \subseteq Nat /\ Addrs \cap Prefixes = {}
ASSUME FiniteAssumption == IsFiniteSet(Addrs) /\ IsFiniteSet(Prefixes)
ASSUME DuidsAssumption == LongDuids \subseteq Duids /\ None \notin Duids
ASSUME NoneAssumption == None \notin Nat

Keys == Addrs \union Prefixes

(* A client and what it holds. *)
Pairs == Duids \X Keys

LeaseStates == {"FREE", "ACTIVE", "EXPIRED", "RELEASED", "ABANDONED", "RESERVED", "BACKUP"}

Leases == [duid : Duids, state : LeaseStates, over : BOOLEAN]

IsDatabase(db) == DOMAIN db \subseteq Keys /\ db \in [DOMAIN db -> Leases]

(* What a lease looks like on disk: the times are read back by lease_v6_db_load. *)
Blocks == [key : Keys, duid : Duids, state : LeaseStates, torn : {"no", "head", "body"}]

Printed(db) == [k \in DOMAIN db |-> [duid |-> db[k].duid, state |-> db[k].state]]

EmptyFile == [base |-> [k \in {} |-> None], log |-> <<>>]

-----------------------------------------------------------------------------
(* Writing *)

lease_v6_db_save(s) ==
    LET f == [base |-> Printed(s.db), log |-> <<>>]
    IN  IF s.disk THEN [s EXCEPT !.file = f, !.seen = @ \union {f}]
                  ELSE [s EXCEPT !.failed = TRUE]

Block(s, k, torn) ==
    [key |-> k, duid |-> s.db[k].duid, state |-> s.db[k].state, torn |-> torn]

lease_v6_db_append(s, k) ==
    LET f(torn) == [base |-> s.file.base, log |-> Append(s.file.log, Block(s, k, torn))]
    IN  IF s.disk THEN [s EXCEPT !.file = f("no"),
                                 !.seen = @ \union {f(t) : t \in {"no", "body"} \union
                                                     (IF k \in Prefixes THEN {"head"} ELSE {})}]
                  ELSE [s EXCEPT !.failed = TRUE]

-----------------------------------------------------------------------------
(* Reading *)

(* A block goes on to the next closing brace, so a torn block takes the lines
   of the blocks behind it, whose first lines are skipped. *)
Starts(log) == {i \in DOMAIN log : i = 1 \/ log[i - 1].torn = "no"}
Closed(log, i) == {j \in i .. Len(log) : log[j].torn = "no"}

(* The keys whose blocks got mixed up that way. *)
Swallowed(log) ==
    {log[n].key : n \in UNION {i .. Min(Closed(log, i)) :
        i \in {x \in Starts(log) : log[x].torn # "no" /\ Closed(log, x) # {}}}}

(* No block is torn. *)
Intact(log) == \A i \in DOMAIN log : log[i].torn = "no"

(* The blocks of the log that lease_v6_db_load takes for a lease of k. *)
BlocksOf(log, k) == {i \in Starts(log) : log[i].key = k /\ Closed(log, i) # {}}

ReadKeys(file) == DOMAIN file.base \union {k \in Keys : BlocksOf(file.log, k) # {}}

(* The last block of a key overwrites the earlier ones. *)
ReadLease(file, k) ==
    IF BlocksOf(file.log, k) = {}
    THEN file.base[k]
    ELSE LET b == file.log[Min(Closed(file.log, Max(BlocksOf(file.log, k))))]
         IN  [duid |-> b.duid, state |-> b.state]

Read(file) == [k \in ReadKeys(file) |-> ReadLease(file, k)]

(* A time is printed as the day of the week, 0 for Sunday, and the date.  The
   first attempt of parse_lease_time_any reads a number of seconds and stops at
   the first blank: any day but Sunday is taken for a time in 1970. *)
format_lease_time(day, over) == [day |-> day, over |-> over]
parse_lease_time_any(text) == text.day > 0 \/ text.over

(* day[k]: the day on which the lease of k ends.  Whether the end has come by now
   is found out later, see RunsOut in DhcpV6Server. *)
Days(file) == [{k \in ReadKeys(file) : ReadLease(file, k).state = "ACTIVE"} -> {0, 1}]

lease_v6_db_load(file, day) ==
    [k \in ReadKeys(file) |->
        [duid  |-> ReadLease(file, k).duid,
         state |-> ReadLease(file, k).state,
         over  |-> k \in DOMAIN day => parse_lease_time_any(format_lease_time(day[k], FALSE))]]

(* parse_block_ia_pd does not stop at the end of the file.  With the first line
   of a block only, the line it goes on with is an uninitialised buffer. *)
LastTorn(log) == log # <<>> /\ log[Len(log)].torn # "no"
LastStart(log) == Max(Starts(log))
LoadMayHang(file) ==
    LastTorn(file.log) /\ file.log[LastStart(file.log)].key \in Prefixes
LoadMustHang(file) ==
    LoadMayHang(file) /\ \E i \in LastStart(file.log) .. Len(file.log) :
                            file.log[i].torn = "body" \/ i > LastStart(file.log)

-----------------------------------------------------------------------------
(* Changes of a lease *)

HasRoom(s, k) == k \in DOMAIN s.db \/ Cardinality(DOMAIN s.db) < LEASES6_MAX

WithLease(db, k, lease) == [i \in DOMAIN db \union {k} |-> IF i = k THEN lease ELSE db[i]]

(* A mutation of AddLease: an existing lease is refreshed in memory only. *)
AddWithoutAppend(s, k, d) ==
    LET added == [s EXCEPT !.db = WithLease(s.db, k, [duid |-> d, state |-> "ACTIVE", over |-> FALSE])]
    IN  IF k \in DOMAIN s.db THEN added ELSE lease_v6_db_append(added, k)

AddLease(s, k, d) ==
    lease_v6_db_append(
        [s EXCEPT !.db = WithLease(s.db, k, [duid |-> d, state |-> "ACTIVE", over |-> FALSE])], k)

(* Both return NULL when there is no room; see HasRoom. *)
lease_v6_add_ia_na(s, a, d) == AddLease(s, a, d)
lease_v6_add_ia_pd(s, p, d) == AddLease(s, p, d)

Over(lease, new) == [duid |-> lease.duid, state |-> new, over |-> TRUE]

lease_v6_release_ip(s, a) ==
    IF a \in DOMAIN s.db
    THEN lease_v6_db_save([s EXCEPT !.db = WithLease(s.db, a, Over(s.db[a], "RELEASED"))])
    ELSE s

lease_v6_release_prefix(s, p) ==
    IF p \in DOMAIN s.db
    THEN lease_v6_db_save([s EXCEPT !.db = WithLease(s.db, p, Over(s.db[p], "RELEASED"))])
    ELSE s

(* lease_v6_set_state with ABANDONED, for one address after the other.  For an
   address without a lease nothing is recorded. *)
lease_v6_mark_conflict(s, A) ==
    LET hit == A \cap DOMAIN s.db
        With(K) == [k \in DOMAIN s.db |-> IF k \in K THEN Over(s.db[k], "ABANDONED") ELSE s.db[k]]
        saved == lease_v6_db_save([s EXCEPT !.db = With(hit)])
        between == {[base |-> Printed(With({k \in hit : k <= n})), log |-> <<>>] : n \in hit}
    IN  IF hit = {} THEN s
        ELSE IF s.disk THEN [saved EXCEPT !.seen = @ \union between] ELSE saved

(* A mutation of Overdue: the comparison with now is the wrong way round. *)
NotOverdue(db) == {k \in DOMAIN db : db[k].state = "ACTIVE" /\ ~db[k].over}

Overdue(db) == {k \in DOMAIN db : db[k].state = "ACTIVE" /\ db[k].over}

lease_v6_mark_expired_older(s) ==
    LET db == [k \in DOMAIN s.db |->
                  IF k \in Overdue(s.db) THEN Over(s.db[k], "EXPIRED") ELSE s.db[k]]
    IN  IF Overdue(s.db) # {} THEN lease_v6_db_save([s EXCEPT !.db = db]) ELSE s

Ended(db) == {k \in DOMAIN db : db[k].state \in {"EXPIRED", "RELEASED"}}

lease_v6_cleanup(s) ==
    LET db == [k \in DOMAIN s.db \ Ended(s.db) |-> s.db[k]]
    IN  IF Ended(s.db) # {} THEN lease_v6_db_save([s EXCEPT !.db = db]) ELSE s
=============================================================================
