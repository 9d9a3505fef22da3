----------------------------- MODULE DhcpV6Server -----------------------------
(***************************************************************************)
(* The DHCPv6 server: process_packet and cleanup_thread of server.c over   *)
(* the pools and the lease database, with crashes, restarts, clean stops,  *)
(* and clients behind a network that loses, delays and repeats packets.    *)
(*                                                                         *)
(* process_packet and a round of cleanup_thread hold ctx.db_lock from the  *)
(* first access to the last, so each is one action; a crash in the middle  *)
(* leaves one of the contents the file had on the way.  The threads that   *)
(* call them, and the shutdown, are in DhcpV6Agent.                        *)
(*                                                                         *)
(* told and excused are about the clients.  told has the pairs of a client *)
(* and an address or prefix that a REPLY gave it and whose time            *)
(* (default_lease_time) is not over; a client that releases or declines    *)
(* leaves told when it sends the message.  excused has the pairs that one  *)
(* of these took away from the client, which is what the code does:        *)
(*   - a RELEASE or DECLINE of an earlier holder arrived late, and neither *)
(*     is compared with the owner of the lease;                            *)
(*   - a static host got its fixed address although another client had it, *)
(*     or answered the probe of its own address;                           *)
(*   - the server answered without a lease because the database was full,  *)
(*     or could not write the lease to the file;                           *)
(*   - the restarted server read the times of the lease as past;           *)
(*   - a block torn by a crash swallowed blocks appended behind it.        *)
(* behind says that a write failed since the last save, misread that a     *)
(* start read a file that was behind or had swallowed blocks.              *)
(***************************************************************************)
EXTENDS PdPoolOps

CONSTANTS Probing,      \* dhcp6.icmp6-probe
          MaxStarts,    \* bound on the starts of the server
          MaxWork,      \* bound on work
          MaxNotices    \* bound on net

ASSUME BoundsAssumption == MaxStarts \in Nat /\ MaxWork \in Nat

VARIABLES life,     \* "down", "up", or "hung" in lease_v6_db_load
          starts,   \* starts so far
          work,     \* IA_NAs and IA_PDs served so far, and handlers that could not write
          db,       \* ctx.db
          file,     \* the lease file
          ip,       \* ctx.pools[0]
          pd,       \* ctx.pd_pools[0]
          net,      \* RELEASE and DECLINE messages; they may arrive at any time, several times
          told, excused, behind, misread

vars == <<life, starts, work, db, file, ip, pd, net, told, excused, behind, misread>>

Notices == [type : {"RELEASE", "DECLINE"}, duid : Duids, key : Keys]

(* What dhcpv6_parse finds in a message that asks: who sends it, whether it has an
   IA_NA and an IA_PD, and the address in the IA_NA.  SOLICIT, REQUEST, RENEW and
   REBIND are handled alike and differ in the type of the answer. *)
Questions == {q \in [duid : Duids, na : BOOLEAN, pd : BOOLEAN, ip : Addrs \union {None}] :
                 (q.na \/ q.pd) /\ (q.na \/ q.ip = None)}

TypeOK ==
    /\ life \in {"down", "up", "hung"}
    /\ starts \in 0 .. MaxStarts
    /\ work \in 0 .. MaxWork
    /\ IsDatabase(db)
    /\ file.log \in Seq(Blocks)
    /\ ip \in Ip6Pools /\ pd \in PdPools
    /\ net \subseteq Notices
    /\ told \subseteq Pairs /\ excused \subseteq Pairs
    /\ behind \in BOOLEAN /\ misread \in BOOLEAN

NoDatabase == [k \in {} |-> None]

Init ==
    /\ life = "down" /\ starts = 0 /\ work = 0
    /\ db = NoDatabase /\ file = EmptyFile
    /\ ip = FreshPool /\ pd = FreshPdPool
    /\ net = {} /\ told = {} /\ excused = {}
    /\ behind = FALSE /\ misread = FALSE

-----------------------------------------------------------------------------
(* Start, stop and crash *)

LoseMemory == db' = NoDatabase /\ ip' = FreshPool /\ pd' = FreshPdPool

Start(day) ==
    /\ life = "down" /\ starts < MaxStarts
    /\ ~LoadMustHang(file)
    /\ LET loaded == lease_v6_db_load(file, day)
       IN  /\ db' = loaded
           /\ ip' = ip6_pool_init(loaded)
           /\ pd' = pd_pool_init(loaded)
    /\ life' = "up" /\ starts' = starts + 1
    /\ excused' = excused \union
           {x \in told : x[2] \in Swallowed(file.log) \/ (x[2] \in DOMAIN day /\ day[x[2]] > 0)}
    /\ misread' = (misread \/ behind \/ Swallowed(file.log) # {})
    /\ behind' = FALSE
    /\ UNCHANGED <<work, file, net, told>>

StartHangs ==
    /\ life = "down" /\ starts < MaxStarts
    /\ LoadMayHang(file)
    /\ life' = "hung" /\ starts' = starts + 1
    /\ UNCHANGED <<work, db, file, ip, pd, net, told, excused, behind, misread>>

Crash ==
    /\ life = "up"
    /\ life' = "down" /\ LoseMemory
    /\ UNCHANGED <<starts, work, file, net, told, excused, behind, misread>>

State(disk) == [db |-> db, file |-> file, ip |-> ip, pd |-> pd,
                seen |-> {}, disk |-> disk, failed |-> FALSE]

JustSaved(s) == s.file = [base |-> Printed(s.db), log |-> <<>>]

(* What a handler leaves, and what a crash in the middle of it leaves. *)
Commit(s, asked) ==
    /\ db' = s.db /\ file' = s.file /\ ip' = s.ip /\ pd' = s.pd
    /\ s.disk \/ s.failed
    /\ work' = work + asked + (IF s.failed THEN 1 ELSE 0)
    /\ work' <= MaxWork
    /\ behind' = ((behind \/ s.failed) /\ ~JustSaved(s))
    /\ UNCHANGED <<life, starts, misread>>

CrashIn(s, asked) ==
    /\ file' \in s.seen
    /\ life' = "down" /\ LoseMemory
    /\ work' = work + asked
    /\ UNCHANGED <<starts, told, net, behind, misread>>

-----------------------------------------------------------------------------
(* process_packet: messages that ask *)

(* The IA_NA is served first, then the IA_PD. *)
AnswerNa(q, alive, disk) ==
    IF q.na THEN ip6_pool_allocate(State(disk), q.duid, q.ip, alive) ELSE Refused(State(disk))

AnswerPd(q, s) == IF q.pd THEN pd_pool_allocate(s, q.duid) ELSE Refused(s)

(* The holders a static host's request takes its fixed address from. *)
Overridden(q, got) ==
    {x \in told : /\ q.na /\ q.duid \in DOMAIN Hosts
                  /\ x[2] = Hosts[q.duid] /\ (x[1] # q.duid \/ got = None)}

(* The associations the message asks for. *)
Asked(q) == IF q.na /\ q.pd THEN 2 ELSE 1

Asks(q) == life = "up" /\ work + Asked(q) <= MaxWork

(* The sets of addresses that may answer a probe. *)
get_effective_probe(q) ==
    IF q.na /\ Probing THEN SUBSET Probed(ip, q.duid, q.ip) ELSE {{}}

(* What the IA_NA and the IA_PD of the answer hold: the address or prefix, with a
   status of success, or a status that there is none. *)
dhcpv6_append_ia_na(q, got) == IF got = None THEN {} ELSE {<<q.duid, got>>}
dhcpv6_append_ia_pd(q, got) == IF got = None THEN {} ELSE {<<q.duid, got>>}

(* The answer is a REPLY that the client gets, or it is lost, or it is an ADVERTISE,
   which promises nothing. *)
Process(q, alive, disk) ==
    /\ Asks(q)
    /\ \E na \in {AnswerNa(q, alive, disk)} : \E r \in {AnswerPd(q, na.s)} :
       LET new == dhcpv6_append_ia_na(q, na.got) \union dhcpv6_append_ia_pd(q, r.got)
           hollow == {x \in new : r.s.failed \/ x[2] \notin DOMAIN r.s.db}
       IN  /\ Commit(r.s, Asked(q))
           /\ told' \in {told, told \union new}
           /\ excused' = (((excused \ new) \union hollow) \cap told') \union Overridden(q, na.got)
    /\ UNCHANGED net

ProcessCrash(q, alive) ==
    /\ Asks(q)
    /\ \E na \in {AnswerNa(q, alive, TRUE)} :
           /\ CrashIn(AnswerPd(q, na.s).s, Asked(q))
           /\ excused' = excused \union Overridden(q, na.got)

-----------------------------------------------------------------------------
(* process_packet: messages that give up *)

Noticed(m, disk) ==
    LET s == State(disk)
    IN  CASE m.key \in Prefixes /\ m.type = "RELEASE" -> pd_pool_release(s, m.key)
          [] m.key \in Prefixes /\ m.type = "DECLINE" -> s
          [] m.key \in Addrs /\ DOMAIN db = {} -> s
          [] m.key \in Addrs /\ DOMAIN db # {} ->
                IF m.type = "RELEASE" THEN lease_v6_release_ip(s, m.key)
                                      ELSE ip6_pool_mark_conflict(s, {m.key})

(* Neither the lease nor the entry is compared with the sender. *)
Notice(m, disk) ==
    /\ life = "up" /\ m \in net
    /\ \E s \in {Noticed(m, disk)} : Commit(s, 0)
    /\ excused' = excused \union {x \in told : x[2] = m.key}
    /\ UNCHANGED <<net, told>>

NoticeCrash(m) ==
    /\ life = "up" /\ m \in net
    /\ CrashIn(Noticed(m, TRUE), 0)
    /\ excused' = excused \union {x \in told : x[2] = m.key}

-----------------------------------------------------------------------------
(* cleanup_thread and the clean stop *)

(* Leases are removed only in a round in which one ran out, and before the pool
   is synchronised.  The pool of prefixes is left alone. *)
Expired(disk) == lease_v6_mark_expired_older(State(disk))
Removed(disk) == IF Overdue(db) # {} THEN lease_v6_cleanup(Expired(disk)) ELSE Expired(disk)
Cleaned(disk) ==
    LET s == Removed(disk)
    IN  lease_v6_db_save([s EXCEPT !.ip = ip6_pool_sync_with_leases(@, s.db)])

Cleanup(disk) ==
    /\ life = "up"
    /\ \E s \in {Cleaned(disk)} : Commit(s, 0)
    /\ UNCHANGED <<net, told, excused>>

CleanupCrash ==
    /\ life = "up"
    /\ CrashIn(Cleaned(TRUE), 0)
    /\ UNCHANGED excused

(* The final lease_v6_db_save, perhaps after cleanup_thread was cancelled while it
   wrote the file in the middle of a round. *)
Stop ==
    /\ life = "up"
    /\ \E s \in {State(TRUE), Expired(TRUE), Removed(TRUE)} : file' = lease_v6_db_save(s).file
    /\ behind' = FALSE
    /\ life' = "down" /\ LoseMemory
    /\ UNCHANGED <<starts, work, net, told, excused, misread>>

-----------------------------------------------------------------------------
(* Clients and time *)

Leaves(c, k, type) ==
    /\ <<c, k>> \in told
    /\ type = "DECLINE" => k \in Addrs
    /\ Cardinality(net) < MaxNotices
    /\ net' = net \union {[type |-> type, duid |-> c, key |-> k]}
    /\ told' = told \ {<<c, k>>} /\ excused' = excused \ {<<c, k>>}
    /\ UNCHANGED <<life, starts, work, db, file, ip, pd, behind, misread>>

Running(c, k) == k \in DOMAIN db /\ db[k].duid = c /\ db[k].state = "ACTIVE" /\ ~db[k].over

RunsOut(c, k) ==
    /\ <<c, k>> \in told \/ Running(c, k)
    /\ db' = IF Running(c, k) THEN WithLease(db, k, Over(db[k], "ACTIVE")) ELSE db
    /\ told' = told \ {<<c, k>>} /\ excused' = excused \ {<<c, k>>}
    /\ UNCHANGED <<life, starts, work, file, ip, pd, net, behind, misread>>

Next ==
    \/ life = "down" /\ \E day \in Days(file) : Start(day)
    \/ StartHangs
    \/ Crash
    \/ work < MaxWork /\ \E q \in {x \in Questions : Asks(x)} : \E alive \in get_effective_probe(q) :
          \/ \E disk \in BOOLEAN : Process(q, alive, disk)
          \/ ProcessCrash(q, alive)
    \/ \E m \in net \cap Notices : (\E disk \in BOOLEAN : Notice(m, disk)) \/ NoticeCrash(m)
    \/ \E disk \in BOOLEAN : Cleanup(disk)
    \/ CleanupCrash
    \/ Stop
    \/ \E x \in told : \E type \in {"RELEASE", "DECLINE"} : Leaves(x[1], x[2], type)
    \/ \E c \in Duids, k \in Keys : RunsOut(c, k)

Spec == Init /\ [][Next]_vars

-----------------------------------------------------------------------------
(* Properties *)

(* The counters of both pools equal the numbers of entries they count: allocation
   with its rollbacks, conflicts, reservations and every synchronisation with the
   leases keep them in step. *)
Counters6Match ==
    /\ Counted(ip.state, ip.available, "AVAILABLE")
    /\ Counted(ip.state, ip.allocated, "ALLOCATED")
    /\ Counted(ip.state, ip.reserved, "RESERVED")
    /\ Counted(pd.state, pd.available, "AVAILABLE")
    /\ Counted(pd.state, pd.allocated, "ALLOCATED")

(* Reading the lease file back would give the owners and states of the database,
   at every moment of a running server: whatever mixture of appends and saves
   wrote it, and whatever crash came before.  Excepted are failed writes and a torn
   block that no save has removed yet. *)
FileFollowsDb ==
    life = "up" /\ ~behind /\ Intact(file.log) => Read(file) = Printed(db)

InUse(k) == IF k \in Addrs THEN ip.state[k] \in {"ALLOCATED", "RESERVED"}
                           ELSE pd.state[k] = "ALLOCATED"

(* An address or prefix that a client was given in a REPLY stays its own until it
   gives it up or its time is over: the database has an active lease in its name
   and the pool does not offer the entry to others, across cleanup rounds, stops,
   crashes in the middle of a handler and restarts.  No two clients hold the same
   address.  Excepted are the pairs in excused. *)
HeldIsLeased6 ==
    life = "up" => \A x \in told \ excused :
        x[2] \in DOMAIN db /\ db[x[2]].duid = x[1] /\ db[x[2]].state = "ACTIVE" /\ InUse(x[2])

(* A client that comes back, with whatever message, finds the entry it has: the
   pools never have two entries of one client.  Excepted are DUIDs too long for
   an entry, fixed addresses of static hosts that someone else got, and leases read from
   a file that was behind or torn. *)
OnePerClient ==
    ~misread => \A d \in Duids \ LongDuids :
        /\ Cardinality(Owned(ip, d) \ HostAddrs) <= 1
        /\ Cardinality(PdOwned(pd, d)) <= 1

(* The pools never offer what has an active lease, heard of by its client or not. *)
ActiveIsTaken ==
    \A k \in DOMAIN db : db[k].state = "ACTIVE" => InUse(k)

(* A cleanup round brings the pool in line with the database: an entry that stays
   allocated has an active lease. *)
CleanupSyncsPool ==
    [][(\E disk \in BOOLEAN : Cleanup(disk)) =>
          \A a \in Addrs : ip'.state[a] = "ALLOCATED" =>
              a \in DOMAIN db' /\ db'[a].state = "ACTIVE"]_vars
=============================================================================
