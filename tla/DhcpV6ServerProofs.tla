-------------------------- MODULE DhcpV6ServerProofs --------------------------
(***************************************************************************)
(* Proofs about the DHCPv6 server at work: any range of addresses and      *)
(* prefixes, any clients, static hosts, size of the database and number of *)
(* crashes and starts.                                                     *)
(***************************************************************************)
EXTENDS DhcpV6Server, Pools6Proofs

(* The inductive invariant of the server. *)

Now == [db |-> db, file |-> file, ip |-> ip, pd |-> pd]

Serving ==
    /\ life \in {"down", "up", "hung"} /\ starts \in 0 .. MaxStarts /\ work \in 0 .. MaxWork
    /\ net \subseteq Notices /\ told \subseteq Pairs /\ excused \subseteq Pairs
    /\ behind \in BOOLEAN /\ misread \in BOOLEAN
    /\ Core(Now, misread)
    /\ life = "up" /\ ~ behind /\ Swallowed(file.log) = {} => Read(file) = Printed(db)
    /\ ~ misread /\ ~ behind => OneFile(file)
    /\ \A x \in told \ excused :
         /\ OnFile(file, x)
         /\ life = "up" => x[2] \in DOMAIN db /\ db[x[2]] = Lease(x[1])

LEMMA CoreSame ==
    ASSUME NEW s, NEW t, NEW misled, Core(s, misled),
           t.db = s.db, t.file = s.file, t.ip = s.ip, t.pd = s.pd
    PROVE  Core(t, misled)
<1>1. \A k : St(t, k) = St(s, k) /\ Ow(t, k) = Ow(s, k) /\ (Busy(t, k) <=> Busy(s, k))
  BY Zenon DEF St, Ow, Busy
<1>2. \A k, d : Owns(t, d, k) <=> Owns(s, d, k)
  BY Zenon, <1>1 DEF Owns
<1>3. Taken(t)
  BY Zenon, <1>1 DEF Core, Taken
<1>4. Agrees(t)
  BY Zenon, <1>1 DEF Core, Agrees
<1>5. ~ misled => Single(t)
  BY Zenon, <1>2 DEF Core, Single
<1> QED BY Zenon, <1>3, <1>4, <1>5 DEF Core

LEMMA StateSound ==
    ASSUME Serving, life = "up", NEW disk
    PROVE  /\ Sound(State(disk), behind, misread)
           /\ \A x \in told \ excused : Holds(State(disk), x) /\ SeenHolds(State(disk), x)
<1> DEFINE s == State(disk)
<1>1. /\ Well(s) /\ s.db = db /\ s.file = file /\ s.ip = ip /\ s.pd = pd /\ s.seen = {} /\ ~ s.failed
  BY Zenon DEF State, Well
<1>2. Now.db = db /\ Now.file = file /\ Now.ip = ip /\ Now.pd = pd
  BY Zenon DEF Now
<1> HIDE DEF s
<1>3. Core(s, misread)
  BY Zenon, <1>1, <1>2, CoreSame DEF Serving
<1>4. Ready(s)
  BY Zenon, <1>1, <1>3 DEF Ready, Core
<1>5. Follows(s, behind)
  BY Zenon, <1>1 DEF Follows, Serving
<1>6. Sound(s, behind, misread)
  BY Zenon, <1>1, <1>3, <1>4, <1>5 DEF Sound
<1>7. \A x \in told \ excused : Holds(s, x) /\ SeenHolds(s, x)
  BY Zenon, <1>1 DEF Holds, SeenHolds, Serving
<1> QED BY Zenon, <1>6, <1>7 DEF s

LEMMA NowNext ==
    Now'.db = db' /\ Now'.file = file' /\ Now'.ip = ip' /\ Now'.pd = pd'
  BY Zenon DEF Now

(* A handler that came to its end. *)
LEMMA CommitServes ==
    ASSUME Serving, life = "up", NEW s, Sound(s, behind, misread), NEW asked \in Nat, Commit(s, asked),
           net' \subseteq Notices, told' \subseteq Pairs, excused' \subseteq Pairs,
           \A x \in told' \ excused' : Holds(s, x)
    PROVE  Serving'
<1>1. /\ db' = s.db /\ file' = s.file /\ ip' = s.ip /\ pd' = s.pd
      /\ work' = work + asked + (IF s.failed THEN 1 ELSE 0) /\ work' <= MaxWork
      /\ life' = "up" /\ starts' = starts /\ misread' = misread
      /\ behind' = ((behind \/ s.failed) /\ ~ JustSaved(s))
  BY Zenon DEF Commit
<1>2. Core(Now', misread')
  <2>1. Core(s, misread)
    BY Zenon DEF Sound
  <2> QED BY Zenon, <1>1, <2>1, NowNext, CoreSame
<1>3. ASSUME ~ behind', Swallowed(file'.log) = {} PROVE Read(file') = Printed(db')
  <2>1. CASE JustSaved(s)
    <3>1. s.file = Saved(s.db) /\ DbOk(s.db)
      BY Zenon, <2>1 DEF JustSaved, Saved, Sound, Ready
    <3> QED BY Zenon, <1>1, <3>1, SavedReads
  <2>2. CASE ~ behind /\ ~ s.failed
    BY Zenon, <1>1, <1>3, <2>2 DEF Sound, Follows
  <2>3. JustSaved(s) \/ (~ behind /\ ~ s.failed)
    BY Zenon, <1>1, <1>3
  <2> QED BY Zenon, <2>1, <2>2, <2>3
<1>4. ASSUME ~ misread', ~ behind' PROVE OneFile(file')
  <2>1. OneLease(s.db)
    BY Zenon, <1>1, <1>4, OneDb DEF Sound, Core
  <2>2. OneLease(Printed(db'))
    BY Zenon, <1>1, <2>1, OnePrinted
  <2> QED BY Zenon, <1>3, <1>4, <2>2 DEF OneFile
<1>5. \A x \in told' \ excused' : OnFile(file', x) /\ x[2] \in DOMAIN db' /\ db'[x[2]] = Lease(x[1])
  BY Zenon, <1>1 DEF Holds
<1>6. work' \in 0 .. MaxWork /\ starts' \in 0 .. MaxStarts
  BY <1>1, BoundsAssumption DEF Serving
<1>7. behind' \in BOOLEAN /\ misread' \in BOOLEAN
  BY Zenon, <1>1 DEF Serving
<1> QED BY Zenon, <1>1, <1>2, <1>3, <1>4, <1>5, <1>6, <1>7 DEF Serving

LEMMA FreshTypes ==
           /\ FreshPool \in Ip6Pools /\ FreshPdPool \in PdPools
           /\ \A a \in Addrs : FreshPool.state[a] = "AVAILABLE" /\ FreshPool.duid[a] = None
           /\ \A p \in Prefixes : FreshPdPool.state[p] = "AVAILABLE" /\ FreshPdPool.duid[p] = None
<1>1. Cardinality(Addrs) \in Nat /\ Cardinality(Prefixes) \in Nat
  BY Zenon, FiniteAssumption, FS_CardinalityType
<1> QED BY Zenon, <1>1 DEF FreshPool, FreshPdPool, Ip6Pools, PdPools, Ip6States

(* The memory of a server that does not run. *)
LEMMA EmptyCore ==
    ASSUME NEW s, NEW misled, s.db = NoDatabase, s.ip = FreshPool, s.pd = FreshPdPool, FileOk(s.file)
    PROVE  Core(s, misled)
<1>1. DOMAIN s.db = {} /\ s.db = [k \in {} |-> None]
  BY Zenon DEF NoDatabase
<1>2. DbOk(s.db) /\ Taken(s)
  BY Zenon, <1>1 DEF DbOk, Taken
<1>3. \A k \in Keys : St(s, k) = "AVAILABLE"
  BY Zenon, FreshTypes DEF St, Keys
<1>4. Agrees(s)
  BY Zenon, <1>1, <1>3 DEF Agrees, Active, Keys
<1>5. Single(s)
  BY Zenon, <1>3 DEF Single, Owns
<1> QED BY Zenon, <1>2, <1>4, <1>5, FreshTypes DEF Core

(* The server is gone, and the file is what it is. *)
LEMMA DownServes ==
    ASSUME Serving, life' = "down", LoseMemory, FileOk(file'),
           work' \in 0 .. MaxWork, UNCHANGED <<starts, misread, net, told>>, behind' \in BOOLEAN,
           excused' \subseteq Pairs,
           ~ misread /\ ~ behind' => OneFile(file'),
           \A x \in told \ excused' : OnFile(file', x)
    PROVE  Serving'
<1>1. db' = NoDatabase /\ ip' = FreshPool /\ pd' = FreshPdPool
  BY Zenon DEF LoseMemory
<1>2. Core(Now', misread')
  BY Zenon, <1>1, NowNext, EmptyCore
<1> QED BY Zenon, <1>2 DEF Serving

LEMMA CrashServes ==
    ASSUME Serving, life = "up", NEW s, Sound(s, behind, misread), NEW asked \in Nat, CrashIn(s, asked),
           work + asked <= MaxWork, excused' \subseteq Pairs,
           \A x \in told \ excused' : SeenHolds(s, x)
    PROVE  Serving'
<1>1. /\ file' \in s.seen /\ life' = "down" /\ LoseMemory /\ work' = work + asked
      /\ UNCHANGED <<starts, misread, net, told>> /\ behind' = behind
  BY Zenon DEF CrashIn
<1>2. FileOk(file') /\ (~ misread /\ ~ behind' => OneFile(file'))
  BY Zenon, <1>1 DEF Sound, Ready
<1>3. \A x \in told \ excused' : OnFile(file', x)
  BY Zenon, <1>1 DEF SeenHolds
<1>4. work' \in 0 .. MaxWork /\ behind' \in BOOLEAN
  BY <1>1, BoundsAssumption DEF Serving
<1> QED BY Zenon, <1>1, <1>2, <1>3, <1>4, DownServes

-----------------------------------------------------------------------------
(* process_packet *)

AnswerKept(q, na, r) ==
    /\ Sound(r.s, behind, misread)
    /\ \A x \in told \ excused : x \in Overridden(q, na.got) \/ (Holds(r.s, x) /\ SeenHolds(r.s, x))
    /\ \A x \in dhcpv6_append_ia_na(q, na.got) \union dhcpv6_append_ia_pd(q, r.got) :
         x \in Pairs /\ (r.s.failed \/ x[2] \notin DOMAIN r.s.db \/ Holds(r.s, x))

LEMMA AnswerKeeps ==
    ASSUME Serving, life = "up", NEW q \in Questions, NEW alive, NEW disk
    PROVE  LET na == AnswerNa(q, alive, disk)
               r == AnswerPd(q, na.s)
           IN  AnswerKept(q, na, r)
<1> DEFINE s == State(disk)
           na == AnswerNa(q, alive, disk)
           r == AnswerPd(q, na.s)
           d == q.duid
<1>1. Sound(s, behind, misread) /\ \A x \in told \ excused : Holds(s, x) /\ SeenHolds(s, x)
  BY Zenon, StateSound
<1>2. d \in Duids /\ told \subseteq Pairs /\ None \notin Addrs /\ None \notin Prefixes /\ Addrs \cap Prefixes = {}
  BY Zenon, KeysAssumption, NoneAssumption DEF Questions, Serving
<1>3. /\ q.na => na = ip6_pool_allocate(s, d, q.ip, alive)
      /\ ~ q.na => na = Refused(s)
  BY Zenon DEF AnswerNa
<1> HIDE DEF s, na
<1>4. /\ q.pd => r = pd_pool_allocate(na.s, d)
      /\ ~ q.pd => r = Refused(na.s)
  BY Zenon DEF AnswerPd
<1> HIDE DEF r, d
<1>5. /\ Sound(na.s, behind, misread)
      /\ na.got \in Addrs \union {None}
      /\ \A x \in Pairs : (q.na /\ Overruled(x, d, na.got)) \/ Carries(s, na.s, x)
      /\ na.got # None /\ ~ na.s.failed /\ na.got \in DOMAIN na.s.db => Holds(na.s, <<d, na.got>>)
  <2>1. CASE q.na
    <3>1. AllocateKept(s, na, d, behind, misread)
      BY Zenon, <1>1, <1>2, <1>3, <2>1, AllocateKeeps
    <3> QED BY Zenon, <2>1, <3>1 DEF AllocateKept
  <2>2. CASE ~ q.na
    <3>1. na.s = s /\ na.got = None
      BY Zenon, <1>3, <2>2, GivenFacts
    <3> QED BY Zenon, <1>1, <3>1 DEF Carries
  <2> QED BY Zenon, <2>1, <2>2
<1>6. /\ Sound(r.s, behind, misread)
      /\ na.s.failed => r.s.failed
      /\ r.got \in Prefixes \union {None}
      /\ DOMAIN r.s.db \cap Addrs \subseteq DOMAIN na.s.db
      /\ \A x \in Pairs : Carries(na.s, r.s, x)
      /\ r.got # None /\ ~ r.s.failed /\ r.got \in DOMAIN r.s.db => Holds(r.s, <<d, r.got>>)
  <2>1. CASE q.pd
    <3>1. PdAllocateKept(na.s, r, d, behind, misread)
      BY Zenon, <1>2, <1>4, <1>5, <2>1, PdAllocateKeeps
    <3> QED BY Zenon, <3>1 DEF PdAllocateKept
  <2>2. CASE ~ q.pd
    <3>1. r.s = na.s /\ r.got = None
      BY <1>4, <2>2, GivenFacts
    <3> QED BY Zenon, <1>5, <3>1 DEF Carries
  <2> QED BY Zenon, <2>1, <2>2
<1>7. ASSUME NEW x \in told \ excused, x \notin Overridden(q, na.got)
      PROVE  Holds(r.s, x) /\ SeenHolds(r.s, x)
  <2>1. x \in Pairs /\ Holds(s, x) /\ SeenHolds(s, x)
    BY Zenon, <1>1, <1>2
  <2>2. ~(q.na /\ Overruled(x, d, na.got))
    BY Zenon, <1>7 DEF Overruled, Overridden, d
  <2>3. Holds(na.s, x) /\ SeenHolds(na.s, x)
    BY Zenon, <1>5, <2>1, <2>2 DEF Carries
  <2> QED BY Zenon, <1>6, <2>1, <2>3 DEF Carries
<1>8. ASSUME na.got # None
      PROVE  <<d, na.got>> \in Pairs /\ (r.s.failed \/ na.got \notin DOMAIN r.s.db \/ Holds(r.s, <<d, na.got>>))
  <2> DEFINE x == <<d, na.got>>
  <2>1. x \in Pairs /\ na.got \in Addrs
    BY Zenon, <1>2, <1>5, <1>8 DEF Pairs, Keys
  <2>2. ASSUME ~ r.s.failed, na.got \in DOMAIN r.s.db PROVE Holds(r.s, x)
    <3>1. na.got \in DOMAIN na.s.db /\ ~ na.s.failed
      BY Zenon, <1>6, <2>1, <2>2
    <3>2. Holds(na.s, x)
      BY Zenon, <1>5, <1>8, <3>1
    <3> HIDE DEF x
    <3> QED BY Zenon, <1>6, <2>1, <3>2 DEF Carries
  <2> QED BY Zenon, <2>1, <2>2
<1>9. ASSUME r.got # None
      PROVE  <<d, r.got>> \in Pairs /\ (r.s.failed \/ r.got \notin DOMAIN r.s.db \/ Holds(r.s, <<d, r.got>>))
  BY Zenon, <1>2, <1>6, <1>9 DEF Pairs, Keys
<1>10. ASSUME NEW x \in dhcpv6_append_ia_na(q, na.got) \union dhcpv6_append_ia_pd(q, r.got)
       PROVE  x \in Pairs /\ (r.s.failed \/ x[2] \notin DOMAIN r.s.db \/ Holds(r.s, x))
  <2>1. (na.got # None /\ x = <<d, na.got>>) \/ (r.got # None /\ x = <<d, r.got>>)
    BY Zenon DEF dhcpv6_append_ia_na, dhcpv6_append_ia_pd, d
  <2> QED BY <1>8, <1>9, <2>1
<1>11. AnswerKept(q, na, r)
  BY Zenon, <1>6, <1>7, <1>10 DEF AnswerKept
<1> QED BY Zenon, <1>11 DEF r, na

LEMMA AskedTypes ==
    ASSUME NEW q
    PROVE  Asked(q) \in Nat
  BY Zenon DEF Asked

LEMMA ProcessServes ==
    ASSUME Serving, NEW q \in Questions, NEW alive, NEW disk, Process(q, alive, disk)
    PROVE  Serving'
<1> DEFINE na == AnswerNa(q, alive, disk)
           r == AnswerPd(q, na.s)
           new == dhcpv6_append_ia_na(q, na.got) \union dhcpv6_append_ia_pd(q, r.got)
           hollow == {x \in new : r.s.failed \/ x[2] \notin DOMAIN r.s.db}
           over == Overridden(q, na.got)
<1>1. /\ life = "up" /\ Commit(r.s, Asked(q)) /\ net' = net
      /\ told' \in {told, told \union new}
      /\ excused' = (((excused \ new) \union hollow) \cap told') \union over
  BY Zenon DEF Process, Asks
<1>2. AnswerKept(q, na, r)
  BY Zenon, <1>1, AnswerKeeps
<1> HIDE DEF na, r
<1>3. /\ \A x \in new : x \in Pairs /\ (x \in hollow \/ Holds(r.s, x))
      /\ \A x \in told \ excused : x \in over \/ Holds(r.s, x)
      /\ Sound(r.s, behind, misread)
  BY Zenon, <1>2 DEF AnswerKept
<1>4. over \subseteq told
  BY Zenon DEF Overridden
<1> HIDE DEF new, hollow, over
<1>5. told \subseteq Pairs /\ net \subseteq Notices
  BY Zenon DEF Serving
<1>6. told' \subseteq Pairs /\ excused' \subseteq Pairs
  BY Zenon, <1>1, <1>3, <1>4, <1>5
<1>7. \A x \in told' \ excused' : Holds(r.s, x)
  BY Zenon, <1>1, <1>3
<1> QED BY Zenon, <1>1, <1>3, <1>5, <1>6, <1>7, AskedTypes, CommitServes

LEMMA ProcessCrashServes ==
    ASSUME Serving, NEW q \in Questions, NEW alive, ProcessCrash(q, alive)
    PROVE  Serving'
<1>0. \A disk : AnswerKept(q, AnswerNa(q, alive, disk), AnswerPd(q, AnswerNa(q, alive, disk).s))
  BY Zenon, AnswerKeeps DEF ProcessCrash, Asks
<1> DEFINE na == AnswerNa(q, alive, TRUE)
           r == AnswerPd(q, na.s)
           over == Overridden(q, na.got)
<1>1. /\ life = "up" /\ CrashIn(r.s, Asked(q)) /\ work + Asked(q) <= MaxWork
      /\ excused' = excused \union over
  BY Zenon DEF ProcessCrash, Asks
<1>2. AnswerKept(q, na, r)
  BY Zenon, <1>0
<1> HIDE DEF na, r
<1>3. (\A x \in told \ excused : x \in over \/ SeenHolds(r.s, x)) /\ Sound(r.s, behind, misread)
  BY Zenon, <1>2 DEF AnswerKept
<1>4. over \subseteq told /\ told \subseteq Pairs /\ excused \subseteq Pairs
  BY Zenon DEF Overridden, Serving
<1> HIDE DEF over
<1>5. excused' \subseteq Pairs /\ \A x \in told \ excused' : SeenHolds(r.s, x)
  BY Zenon, <1>1, <1>3, <1>4
<1> QED BY Zenon, <1>1, <1>3, <1>5, AskedTypes, CrashServes

LEMMA NoticedKeeps ==
    ASSUME Serving, life = "up", NEW m \in Notices, NEW disk
    PROVE  LET t == Noticed(m, disk)
           IN  /\ Sound(t, behind, misread)
               /\ \A x \in told \ excused : x[2] # m.key => Holds(t, x) /\ SeenHolds(t, x)
<1> DEFINE s == State(disk)
           k == m.key
           t == Noticed(m, disk)
<1>1. Sound(s, behind, misread) /\ Ready(s) /\ \A x \in told \ excused : Holds(s, x) /\ SeenHolds(s, x)
  BY Zenon, StateSound DEF Sound
<1>2. /\ k \in Prefixes \/ k \in Addrs
      /\ m.type \in {"RELEASE", "DECLINE"} /\ Addrs \cap Prefixes = {}
  BY Zenon, KeysAssumption DEF Notices, Keys
<1>3. t = CASE k \in Prefixes /\ m.type = "RELEASE" -> pd_pool_release(s, k)
            [] k \in Prefixes /\ m.type = "DECLINE" -> s
            [] k \in Addrs /\ DOMAIN db = {} -> s
            [] k \in Addrs /\ DOMAIN db # {} ->
                IF m.type = "RELEASE" THEN lease_v6_release_ip(s, k) ELSE ip6_pool_mark_conflict(s, {k})
  BY Zenon DEF Noticed
<1> HIDE DEF s, t, k
<1>4. \/ t = s
      \/ k \in Prefixes /\ t = pd_pool_release(s, k)
      \/ t = lease_v6_release_ip(s, k)
      \/ k \in Addrs /\ t = ip6_pool_mark_conflict(s, {k})
  BY Zenon, <1>2, <1>3
<1>5. \E u : \E K \in SUBSET {k} : Ends(s, u, K) /\ Ends(u, t, {})
  <2>1. CASE k \in Prefixes /\ t = pd_pool_release(s, k)
    BY Zenon, <1>1, <2>1, PdReleaseEnds
  <2>2. ASSUME Ends(s, t, {k}) PROVE \E u : \E K \in SUBSET {k} : Ends(s, u, K) /\ Ends(u, t, {})
    <3>1. Ends(t, t, {})
      BY Zenon, <2>2, NothingEnds DEF Ends
    <3> QED BY Zenon, <2>2, <3>1
  <2>3. CASE t = s
    BY Zenon, <1>1, <2>2, <2>3, NothingEnds
  <2>4. CASE t = lease_v6_release_ip(s, k)
    BY Zenon, <1>1, <2>2, <2>4, ReleaseEnds
  <2>5. CASE k \in Addrs /\ t = ip6_pool_mark_conflict(s, {k})
    <3>1. {k} \in SUBSET Addrs
      BY Zenon, <2>5
    <3>2. Ends(s, ip6_pool_mark_conflict(s, {k}), {k})
      BY Zenon, <1>1, <3>1, ConflictEnds
    <3> QED BY Zenon, <2>2, <2>5, <3>2
  <2> QED BY Zenon, <1>4, <2>1, <2>3, <2>4, <2>5
<1>6. PICK u : \E K \in SUBSET {k} : Ends(s, u, K) /\ Ends(u, t, {})
  BY Zenon, <1>5
<1>7. PICK K \in SUBSET {k} : Ends(s, u, K) /\ Ends(u, t, {})
  BY Zenon, <1>6
<1>8. Sound(u, behind, misread)
  BY Zenon, <1>1, <1>7, EndsSound
<1>9. Sound(t, behind, misread)
  BY Zenon, <1>7, <1>8, EndsSound
<1>10. ASSUME NEW x \in told \ excused, x[2] # k PROVE Holds(t, x) /\ SeenHolds(t, x)
  <2>1. Holds(u, x) /\ SeenHolds(u, x)
    BY <1>1, <1>7, <1>10, EndsHolds
  <2> QED BY <1>7, <2>1, EndsHolds
<1> QED BY Zenon, <1>9, <1>10 DEF t, k

LEMMA NoticeServes ==
    ASSUME Serving, NEW m \in Notices, NEW disk, Notice(m, disk)
    PROVE  Serving'
<1> DEFINE t == Noticed(m, disk)
<1>1. /\ life = "up" /\ Commit(t, 0) /\ net' = net /\ told' = told
      /\ excused' = excused \union {x \in told : x[2] = m.key}
  BY Zenon DEF Notice
<1>2. /\ Sound(t, behind, misread)
      /\ \A x \in told \ excused : x[2] # m.key => Holds(t, x) /\ SeenHolds(t, x)
  BY Zenon, <1>1, NoticedKeeps
<1> HIDE DEF t
<1>3. told' \subseteq Pairs /\ excused' \subseteq Pairs /\ net' \subseteq Notices
  BY Zenon, <1>1 DEF Serving
<1>4. \A x \in told' \ excused' : Holds(t, x)
  BY Zenon, <1>1, <1>2
<1> QED BY Zenon, <1>1, <1>2, <1>3, <1>4, CommitServes

LEMMA NoticeCrashServes ==
    ASSUME Serving, NEW m \in Notices, NoticeCrash(m)
    PROVE  Serving'
<1>0. \A disk : /\ Sound(Noticed(m, disk), behind, misread)
                /\ \A x \in told \ excused : x[2] # m.key => SeenHolds(Noticed(m, disk), x)
  BY Zenon, NoticedKeeps DEF NoticeCrash
<1> DEFINE t == Noticed(m, TRUE)
<1>1. /\ life = "up" /\ CrashIn(t, 0)
      /\ excused' = excused \union {x \in told : x[2] = m.key}
  BY Zenon DEF NoticeCrash
<1>2. Sound(t, behind, misread) /\ \A x \in told \ excused : x[2] # m.key => SeenHolds(t, x)
  BY Zenon, <1>0
<1> HIDE DEF t
<1>3. excused' \subseteq Pairs /\ \A x \in told \ excused' : SeenHolds(t, x)
  BY Zenon, <1>1, <1>2 DEF Serving
<1>4. work + 0 <= MaxWork
  BY BoundsAssumption DEF Serving
<1> QED BY Zenon, <1>1, <1>2, <1>3, <1>4, CrashServes

-----------------------------------------------------------------------------
(* cleanup_thread and the stop *)

Upheld(t) == /\ Sound(t, behind, misread)
             /\ \A x \in told \ excused : Holds(t, x) /\ SeenHolds(t, x)

LEMMA CleanedKeeps ==
    ASSUME Serving, life = "up", NEW disk
    PROVE  /\ Upheld(State(disk)) /\ State(disk).disk = disk
           /\ Upheld(Expired(disk)) /\ Expired(disk).disk = disk
           /\ Upheld(Removed(disk)) /\ Removed(disk).disk = disk
           /\ Upheld(Cleaned(disk))
<1> DEFINE s == State(disk)
           e == Expired(disk)
           v == Removed(disk)
           c == Cleaned(disk)
<1>1. Upheld(s) /\ s.disk = disk /\ s.db = db
  BY Zenon, StateSound DEF Upheld, State
<1>2. e = lease_v6_mark_expired_older(s) /\ (v = lease_v6_cleanup(e) \/ v = e)
      /\ c = lease_v6_db_save([v EXCEPT !.ip = ip6_pool_sync_with_leases(@, v.db)])
  BY Zenon DEF Expired, Removed, Cleaned
<1> HIDE DEF s, e, v, c
<1>3. Ends(s, e, Overdue(db))
  BY Zenon, <1>1, <1>2, ExpireEnds DEF Upheld, Sound
<1>4. ASSUME NEW x \in told \ excused PROVE x[2] \notin Overdue(db)
  <2>1. db[x[2]] = Lease(x[1])
    BY Zenon DEF Serving
  <2>2. ~ Lease(x[1]).over
    BY Zenon DEF Lease
  <2> QED BY Zenon, <2>1, <2>2 DEF Overdue
<1>5. Upheld(e) /\ e.disk = disk
  <2>1. Sound(e, behind, misread) /\ e.disk = disk
    BY Zenon, <1>1, <1>3, EndsSound DEF Upheld, Ends
  <2>2. \A x \in told \ excused : Holds(e, x) /\ SeenHolds(e, x)
    BY Zenon, <1>1, <1>3, <1>4, EndsHolds DEF Upheld
  <2> QED BY Zenon, <2>1, <2>2 DEF Upheld
<1>6. ASSUME NEW a, NEW b, Upheld(a), Ends(a, b, {}) PROVE Upheld(b) /\ b.disk = a.disk
  <2>1. Sound(b, behind, misread) /\ b.disk = a.disk
    BY Zenon, <1>6, EndsSound DEF Upheld, Ends
  <2>2. \A x \in told \ excused : Holds(b, x) /\ SeenHolds(b, x)
    BY <1>6, EndsHolds DEF Upheld
  <2> QED BY Zenon, <2>1, <2>2 DEF Upheld
<1>7. Ends(e, v, {})
  BY Zenon, <1>2, <1>5, RemoveEnds, NothingEnds DEF Upheld, Sound
<1>8. Upheld(v) /\ v.disk = disk
  BY Zenon, <1>5, <1>6, <1>7
<1>9. Ends(v, c, {})
  BY Zenon, <1>2, <1>8, SyncEnds DEF Upheld, Sound
<1>10. Upheld(c)
  BY Zenon, <1>6, <1>8, <1>9
<1> QED BY Zenon, <1>1, <1>5, <1>8, <1>10 DEF s, e, v, c

LEMMA CleanupServes ==
    ASSUME Serving, NEW disk, Cleanup(disk)
    PROVE  Serving'
<1> DEFINE t == Cleaned(disk)
<1>1. life = "up" /\ Commit(t, 0) /\ net' = net /\ told' = told /\ excused' = excused
  BY Zenon DEF Cleanup
<1>2. Upheld(t)
  BY Zenon, <1>1, CleanedKeeps
<1> HIDE DEF t
<1>3. told' \subseteq Pairs /\ excused' \subseteq Pairs /\ net' \subseteq Notices
  BY Zenon, <1>1 DEF Serving
<1>4. Sound(t, behind, misread) /\ \A x \in told' \ excused' : Holds(t, x)
  BY Zenon, <1>1, <1>2 DEF Upheld
<1> QED BY Zenon, <1>1, <1>3, <1>4, CommitServes

LEMMA CleanupCrashServes ==
    ASSUME Serving, CleanupCrash
    PROVE  Serving'
<1>0. \A disk : Upheld(Cleaned(disk))
  BY Zenon, CleanedKeeps DEF CleanupCrash
<1> DEFINE t == Cleaned(TRUE)
<1>1. life = "up" /\ CrashIn(t, 0) /\ excused' = excused
  BY Zenon DEF CleanupCrash
<1>2. Upheld(t)
  BY Zenon, <1>0
<1> HIDE DEF t
<1>3. Sound(t, behind, misread) /\ (\A x \in told \ excused' : SeenHolds(t, x)) /\ excused' \subseteq Pairs
  BY Zenon, <1>1, <1>2 DEF Upheld, Serving
<1>4. work + 0 <= MaxWork
  BY BoundsAssumption DEF Serving
<1> QED BY Zenon, <1>1, <1>3, <1>4, CrashServes

LEMMA StopServes ==
    ASSUME Serving, Stop
    PROVE  Serving'
<1>1. /\ life = "up" /\ life' = "down" /\ LoseMemory /\ behind' = FALSE
      /\ UNCHANGED <<starts, misread, net, told>> /\ work' = work /\ excused' = excused
  BY Zenon DEF Stop
<1>2. \A disk : \A s \in {State(disk), Expired(disk), Removed(disk)} : Upheld(s) /\ s.disk = disk
  BY Zenon, <1>1, CleanedKeeps
<1>3. PICK s : Upheld(s) /\ s.disk = TRUE /\ file' = lease_v6_db_save(s).file
  <2>1. PICK s \in {State(TRUE), Expired(TRUE), Removed(TRUE)} : file' = lease_v6_db_save(s).file
    BY Zenon DEF Stop
  <2> QED BY Zenon, <1>2, <2>1
<1>4. Ready(s) /\ DbOk(s.db) /\ Core(s, misread)
  BY Zenon, <1>3 DEF Upheld, Sound, Ready
<1>5. file' = Saved(s.db)
  BY Zenon, <1>3, <1>4 DEF lease_v6_db_save, Saved, Ready, Well
<1>6. FileOk(file')
  BY Zenon, <1>4, <1>5, SavedReads
<1>7. ~ misread => OneFile(file')
  BY Zenon, <1>4, <1>5, OneDb, OneSaved DEF Core
<1>8. \A x \in told \ excused' : OnFile(file', x)
  BY Zenon, <1>1, <1>3, <1>4, <1>5, SavedHolds DEF Upheld, Holds
<1>9. work' \in 0 .. MaxWork /\ excused' \subseteq Pairs
  BY Zenon, <1>1 DEF Serving
<1> QED BY Zenon, <1>1, <1>6, <1>7, <1>8, <1>9, DownServes

LEMMA PlainCrashServes ==
    ASSUME Serving, Crash
    PROVE  Serving'
<1>1. /\ life = "up" /\ life' = "down" /\ LoseMemory /\ behind' = behind /\ file' = file
      /\ UNCHANGED <<starts, misread, net, told>> /\ work' = work /\ excused' = excused
  BY Zenon DEF Crash
<1>2. Now.file = file /\ FileOk(Now.file)
  BY Zenon DEF Now, Serving, Core
<1>3. /\ FileOk(file') /\ work' \in 0 .. MaxWork /\ behind' \in BOOLEAN /\ excused' \subseteq Pairs
      /\ ~ misread /\ ~ behind' => OneFile(file')
      /\ \A x \in told \ excused' : OnFile(file', x)
  BY Zenon, <1>1, <1>2 DEF Serving
<1> QED BY Zenon, <1>1, <1>3, DownServes

-----------------------------------------------------------------------------
(* A start *)

LEMMA PoolInitOwners ==
    ASSUME NEW d, DbOk(d)
    PROVE  LET q == ip6_pool_init(d)
           IN  /\ q \in Ip6Pools
               /\ \A a \in HostAddrs : q.state[a] = "RESERVED"
               /\ \A a \in Addrs \ HostAddrs :
                    IF Active(d, a) THEN q.state[a] = "ALLOCATED" /\ q.duid[a] = Synced(d[a].duid)
                                    ELSE q.state[a] \notin {"ALLOCATED", "RESERVED"}
<1> DEFINE p == ip6_pool_sync_with_leases(FreshPool, d)
           new == [a \in HostAddrs |-> "RESERVED"]
           owner == [a \in HostAddrs |-> Stored(HostOf(a))]
           q == ip6_pool_init(d)
<1>1. q = MoveAll(p, HostAddrs, new, owner)
  BY Zenon DEF ip6_pool_init, ReserveHosts
<1>2. /\ p \in Ip6Pools
      /\ \A a \in Addrs \cap DOMAIN d :
           IF d[a].state = "ACTIVE" THEN p.state[a] = "ALLOCATED" /\ p.duid[a] = Synced(d[a].duid)
                                    ELSE p.state[a] \notin {"ALLOCATED", "RESERVED"}
      /\ \A a \in Addrs \ DOMAIN d : p.state[a] = "AVAILABLE"
  BY FreshTypes, SyncedPool
<1>3. HostAddrs \in SUBSET Addrs
  BY Zenon DEF HostAddrs
<1>4. ASSUME NEW a \in HostAddrs PROVE Stored(HostOf(a)) \in Duids \union {None, Cut}
  <2>1. HostOf(a) \in DOMAIN Hosts
    BY Zenon DEF HostAddrs, HostOf
  <2>2. HostOf(a) \in Duids
    BY Zenon, <2>1, HostsAssumption
  <2> QED BY Zenon, <2>2, OwnerTypes
<1>5. new \in [HostAddrs -> Ip6States] /\ owner \in [HostAddrs -> Duids \union {None, Cut}]
      /\ \A a \in HostAddrs : new[a] = "RESERVED"
  BY Zenon, <1>4 DEF Ip6States
<1> HIDE DEF p, new, owner, q
<1>6. /\ MoveAll(p, HostAddrs, new, owner) \in Ip6Pools
      /\ MovedTo(MoveAll(p, HostAddrs, new, owner), p, Addrs, HostAddrs, new, owner)
  <2>1. p \in Ip6Pools
    BY Zenon, <1>2
  <2>2. new \in [HostAddrs -> Ip6States] /\ owner \in [HostAddrs -> Duids \union {None, Cut}]
    BY Zenon, <1>5
  <2> QED BY Zenon, <1>3, <2>1, <2>2, MoveTypes
<1>7. /\ q \in Ip6Pools
      /\ \A a \in HostAddrs : q.state[a] = "RESERVED"
      /\ \A a \in Addrs \ HostAddrs : q.state[a] = p.state[a] /\ q.duid[a] = p.duid[a]
  BY Zenon, <1>1, <1>5, <1>6 DEF MovedTo
<1>8. \A a \in Addrs \ HostAddrs :
          IF Active(d, a) THEN q.state[a] = "ALLOCATED" /\ q.duid[a] = Synced(d[a].duid)
                          ELSE q.state[a] \notin {"ALLOCATED", "RESERVED"}
  BY Zenon, <1>2, <1>7 DEF Active
<1> QED BY Zenon, <1>7, <1>8 DEF q

LEMMA PdInitOwners ==
    ASSUME NEW d, DbOk(d)
    PROVE  LET q == pd_pool_init(d)
           IN  /\ q \in PdPools
               /\ \A p \in Prefixes :
                    IF Active(d, p) THEN q.state[p] = "ALLOCATED" /\ q.duid[p] = Synced(d[p].duid)
                                    ELSE q.state[p] # "ALLOCATED"
<1> DEFINE A == DOMAIN d \cap Prefixes
           new == [p \in A |-> ip6_state_from_lease_state(d[p].state)]
           owner == [p \in A |-> Synced(d[p].duid)]
           q == pd_pool_init(d)
<1>1. q = PdMoveAll(FreshPdPool, A, new, owner)
  BY Zenon DEF pd_pool_init
<1>2. \A p \in A : d[p].state \in Kept /\ d[p].duid \in Duids
  BY Zenon DEF DbOk, KeptLeases
<1>3. \A p \in A : /\ new[p] \in Ip6States
                   /\ d[p].state = "ACTIVE" => new[p] = "ALLOCATED"
                   /\ d[p].state # "ACTIVE" => new[p] # "ALLOCATED"
  BY Zenon, <1>2 DEF ip6_state_from_lease_state, Kept, Ip6States
<1>4. \A p \in A : owner[p] \in Duids \union {None, Cut} /\ owner[p] = Synced(d[p].duid)
  BY Zenon, <1>2, OwnerTypes
<1>5. A \in SUBSET Prefixes /\ new = [p \in A |-> new[p]] /\ owner = [p \in A |-> owner[p]]
  BY Zenon
<1>6. \A p \in Prefixes : p \in A <=> p \in DOMAIN d
  BY Zenon
<1> HIDE DEF A, new, owner, q
<1>7. new \in [A -> Ip6States] /\ owner \in [A -> Duids \union {None, Cut}]
  BY Zenon, <1>3, <1>4, <1>5
<1>8. /\ PdMoveAll(FreshPdPool, A, new, owner) \in PdPools
      /\ MovedTo(PdMoveAll(FreshPdPool, A, new, owner), FreshPdPool, Prefixes, A, new, owner)
  <2>1. FreshPdPool \in PdPools
    BY Zenon, FreshTypes
  <2>2. A \in SUBSET Prefixes
    BY Zenon, <1>5
  <2> QED BY Zenon, <1>7, <2>1, <2>2, PdMoveTypes
<1>9. /\ q \in PdPools
      /\ \A p \in A : q.state[p] = new[p] /\ q.duid[p] = owner[p]
      /\ \A p \in Prefixes \ A : q.state[p] = "AVAILABLE"
  BY Zenon, <1>1, <1>8, FreshTypes DEF MovedTo
<1>10. \A p \in Prefixes :
          IF Active(d, p) THEN q.state[p] = "ALLOCATED" /\ q.duid[p] = Synced(d[p].duid)
                          ELSE q.state[p] # "ALLOCATED"
  BY Zenon, <1>3, <1>4, <1>6, <1>9 DEF Active
<1> QED BY Zenon, <1>9, <1>10 DEF q

(* What lease_v6_db_load makes of the file. *)
LEMMA Loaded ==
    ASSUME NEW f, FileOk(f), NEW day \in Days(f)
    PROVE  LET d == lease_v6_db_load(f, day)
           IN  /\ DbOk(d) /\ Printed(d) = Read(f) /\ DOMAIN d = ReadKeys(f)
               /\ \A k \in ReadKeys(f) : d[k].duid = ReadLease(f, k).duid /\ d[k].state = ReadLease(f, k).state
               /\ \A k \in ReadKeys(f) : ReadLease(f, k).state = "ACTIVE" =>
                    k \in DOMAIN day /\ (day[k] > 0 \/ ~ d[k].over)
<1> DEFINE d == lease_v6_db_load(f, day)
           L(k) == [duid |-> ReadLease(f, k).duid, state |-> ReadLease(f, k).state,
                    over |-> k \in DOMAIN day => parse_lease_time_any(format_lease_time(day[k], FALSE))]
<1>1. d = [k \in ReadKeys(f) |-> L(k)]
  BY Zenon DEF lease_v6_db_load
<1>2. /\ ReadKeys(f) \subseteq Keys
      /\ \A k \in ReadKeys(f) : ReadLease(f, k) \in Lines
  BY Zenon, ReadTypes
<1>3. \A k : L(k).duid = ReadLease(f, k).duid /\ L(k).state = ReadLease(f, k).state
  BY Zenon
<1>4. \A k \in ReadKeys(f) : L(k) \in KeptLeases
  BY Zenon, <1>2 DEF Lines, KeptLeases
<1>5. DOMAIN day = {k \in ReadKeys(f) : ReadLease(f, k).state = "ACTIVE"}
  BY Zenon DEF Days
<1>6. ASSUME NEW k \in DOMAIN day PROVE day[k] > 0 \/ ~ L(k).over
  BY Zenon DEF parse_lease_time_any, format_lease_time
<1> HIDE DEF L, d
<1>7. DbOk(d) /\ DOMAIN d = ReadKeys(f) /\ \A k \in ReadKeys(f) : d[k] = L(k)
  BY Zenon, <1>1, <1>2, <1>4 DEF DbOk
<1>8. Printed(d) = Read(f)
  <2>1. \A k \in ReadKeys(f) : [duid |-> d[k].duid, state |-> d[k].state] = ReadLease(f, k)
    BY Zenon, <1>2, <1>3, <1>7 DEF Lines
  <2> QED BY Zenon, <1>7, <2>1 DEF Printed, Read
<1> QED BY Zenon, <1>3, <1>5, <1>6, <1>7, <1>8 DEF d

(* The pools built from a database d agree with it. *)
LEMMA InitCore ==
    ASSUME NEW s, NEW misled, DbOk(s.db), FileOk(s.file),
           s.ip = ip6_pool_init(s.db), s.pd = pd_pool_init(s.db),
           ~ misled => OneLease(s.db)
    PROVE  Core(s, misled)
<1> DEFINE d == s.db
<1>1. /\ s.ip \in Ip6Pools
      /\ \A a \in HostAddrs : s.ip.state[a] = "RESERVED"
      /\ \A a \in Addrs \ HostAddrs :
           IF Active(d, a) THEN s.ip.state[a] = "ALLOCATED" /\ s.ip.duid[a] = Synced(d[a].duid)
                           ELSE s.ip.state[a] \notin {"ALLOCATED", "RESERVED"}
  BY Zenon, PoolInitOwners
<1>2. /\ s.pd \in PdPools
      /\ \A p \in Prefixes :
           IF Active(d, p) THEN s.pd.state[p] = "ALLOCATED" /\ s.pd.duid[p] = Synced(d[p].duid)
                           ELSE s.pd.state[p] # "ALLOCATED"
  BY Zenon, PdInitOwners
<1>3. Addrs \cap Prefixes = {} /\ HostAddrs \subseteq Addrs
  BY Zenon, KeysAssumption DEF HostAddrs
<1>4. \A k \in DOMAIN d : k \in Keys /\ d[k].duid \in Duids
  BY Zenon DEF DbOk, KeptLeases
<1>5. Taken(s)
  BY Zenon, <1>1, <1>2, <1>3, <1>4 DEF Taken, Busy, Active, Keys
<1>6. ASSUME NEW k \in Keys, St(s, k) = "ALLOCATED"
      PROVE  Active(d, k) /\ Ow(s, k) = Synced(d[k].duid) /\ d[k].duid \in Duids
  <2>1. CASE k \in Addrs
    <3>1. k \notin HostAddrs
      BY Zenon, <1>1, <1>6, <2>1 DEF St
    <3>2. Active(d, k) /\ Ow(s, k) = Synced(d[k].duid)
      BY Zenon, <1>1, <1>6, <2>1, <3>1 DEF St, Ow
    <3> QED BY Zenon, <1>4, <3>2 DEF Active
  <2>2. CASE k \notin Addrs
    <3>1. Active(d, k) /\ Ow(s, k) = Synced(d[k].duid)
      BY Zenon, <1>2, <1>6, <2>2 DEF St, Ow, Keys
    <3> QED BY Zenon, <1>4, <3>1 DEF Active
  <2> QED BY Zenon, <2>1, <2>2
<1>7. Agrees(s)
  <2>1. ASSUME NEW k \in Keys, St(s, k) = "ALLOCATED" PROVE Names(Ow(s, k), d[k].duid)
    BY Zenon, <1>6, <2>1, OwnerTypes
  <2>2. \A a \in Addrs : St(s, a) = "RESERVED" => a \in HostAddrs
    BY Zenon, <1>1 DEF St
  <2> QED BY Zenon, <2>1, <2>2 DEF Agrees
<1>8. ASSUME ~ misled PROVE Single(s)
  <2>1. ASSUME NEW c \in Duids \ LongDuids, NEW k \in Keys, Owns(s, c, k)
        PROVE  k \in DOMAIN d /\ d[k].state = "ACTIVE" /\ d[k].duid = c
    <3>1. Active(d, k) /\ c = Synced(d[k].duid) /\ d[k].duid \in Duids
      BY Zenon, <1>6, <2>1 DEF Owns
    <3> QED BY Zenon, <3>1, DuidsAssumption DEF Active, Synced
  <2>2. OneLease(d)
    BY Zenon, <1>8
  <2> HIDE DEF d
  <2> QED BY <2>1, <2>2 DEF Single, OneLease
<1> QED BY Zenon, <1>1, <1>2, <1>5, <1>7, <1>8 DEF Core

LEMMA StartServes ==
    ASSUME Serving, NEW day \in Days(file), Start(day)
    PROVE  Serving'
<1> DEFINE d == lease_v6_db_load(file, day)
           lost == {x \in told : x[2] \in Swallowed(file.log) \/ (x[2] \in DOMAIN day /\ day[x[2]] > 0)}
<1>1. /\ starts < MaxStarts /\ starts' = starts + 1 /\ life' = "up"
      /\ db' = d /\ ip' = ip6_pool_init(d) /\ pd' = pd_pool_init(d) /\ file' = file
      /\ excused' = excused \union lost
      /\ misread' = (misread \/ behind \/ Swallowed(file.log) # {}) /\ behind' = FALSE
      /\ work' = work /\ net' = net /\ told' = told
  BY Zenon DEF Start
<1>2. FileOk(file)
  BY Zenon DEF Serving, Core, Now
<1>3. /\ DbOk(d) /\ Printed(d) = Read(file) /\ DOMAIN d = ReadKeys(file)
      /\ \A k \in ReadKeys(file) : d[k].duid = ReadLease(file, k).duid /\ d[k].state = ReadLease(file, k).state
      /\ \A k \in ReadKeys(file) : ReadLease(file, k).state = "ACTIVE" =>
           k \in DOMAIN day /\ (day[k] > 0 \/ ~ d[k].over)
  BY Zenon, <1>2, Loaded
<1> HIDE DEF d
<1>4. ASSUME ~ misread' PROVE OneLease(d) /\ OneFile(file)
  <2>1. ~ misread /\ ~ behind /\ Swallowed(file.log) = {}
    BY Zenon, <1>1, <1>4
  <2>2. OneFile(file)
    BY Zenon, <2>1 DEF Serving
  <2>3. OneLease(Printed(d))
    BY Zenon, <1>3, <2>1, <2>2 DEF OneFile
  <2>4. DOMAIN Printed(d) = DOMAIN d /\ \A k \in DOMAIN d : Printed(d)[k].duid = d[k].duid /\ Printed(d)[k].state = d[k].state
    BY Zenon DEF Printed
  <2> QED BY Zenon, <2>2, <2>3, <2>4 DEF OneLease
<1>5. Core(Now', misread')
  BY Zenon, <1>1, <1>2, <1>3, <1>4, NowNext, InitCore
<1>6. ASSUME NEW x \in told' \ excused'
      PROVE  OnFile(file', x) /\ x[2] \in DOMAIN db' /\ db'[x[2]] = Lease(x[1])
  <2>1. x \in told \ excused /\ x \notin lost
    BY Zenon, <1>1, <1>6
  <2>2. OnFile(file, x) /\ x[2] \notin Swallowed(file.log) /\ ~(x[2] \in DOMAIN day /\ day[x[2]] > 0)
    BY Zenon, <2>1 DEF Serving
  <2>3. x[2] \in ReadKeys(file) /\ ReadLease(file, x[2]) = Line(x[1])
    BY Zenon, <2>2 DEF OnFile, Reads
  <2>4. Line(x[1]).duid = x[1] /\ Line(x[1]).state = "ACTIVE"
    BY Zenon DEF Line
  <2>5. d[x[2]].duid = x[1] /\ d[x[2]].state = "ACTIVE" /\ ~ d[x[2]].over
    BY Zenon, <1>3, <2>2, <2>3, <2>4
  <2>6. d[x[2]] \in KeptLeases
    BY Zenon, <1>3, <2>3 DEF DbOk
  <2>7. d[x[2]] = Lease(x[1])
    BY Zenon, <2>5, <2>6 DEF KeptLeases, Lease
  <2> QED BY Zenon, <1>1, <1>3, <2>2, <2>3, <2>7
<1>7. /\ starts' \in 0 .. MaxStarts /\ work' \in 0 .. MaxWork
      /\ net' \subseteq Notices /\ told' \subseteq Pairs /\ excused' \subseteq Pairs
  BY <1>1, BoundsAssumption DEF Serving
<1>8. behind' \in BOOLEAN /\ misread' \in BOOLEAN
  BY Zenon, <1>1
<1>9. Read(file') = Printed(db')
  BY Zenon, <1>1, <1>3
<1> QED BY Zenon, <1>1, <1>4, <1>5, <1>6, <1>7, <1>8, <1>9 DEF Serving

LEMMA HangServes ==
    ASSUME Serving, StartHangs
    PROVE  Serving'
<1>1. /\ life' = "hung" /\ starts < MaxStarts /\ starts' = starts + 1
      /\ UNCHANGED <<work, db, file, ip, pd, net, told, excused, behind, misread>>
  BY Zenon DEF StartHangs
<1>2. Now' = Now
  BY Zenon, <1>1 DEF Now
<1>3. starts' \in 0 .. MaxStarts
  BY <1>1, BoundsAssumption DEF Serving
<1> QED BY Zenon, <1>1, <1>2, <1>3 DEF Serving

-----------------------------------------------------------------------------
(* Clients and time *)

LEMMA LeavesServes ==
    ASSUME Serving, NEW c, NEW k, NEW type \in {"RELEASE", "DECLINE"}, Leaves(c, k, type)
    PROVE  Serving'
<1>1. /\ <<c, k>> \in told /\ net' = net \union {[type |-> type, duid |-> c, key |-> k]}
      /\ told' = told \ {<<c, k>>} /\ excused' = excused \ {<<c, k>>}
      /\ UNCHANGED <<life, starts, work, db, file, ip, pd, behind, misread>>
  BY Zenon DEF Leaves
<1>2. Now' = Now
  BY Zenon, <1>1 DEF Now
<1>3. net' \subseteq Notices
  <2>1. c \in Duids /\ k \in Keys
    BY Zenon, <1>1 DEF Serving, Pairs
  <2> QED BY <1>1, <2>1 DEF Serving, Notices
<1>4. told' \ excused' \subseteq told \ excused /\ told' \subseteq Pairs /\ excused' \subseteq Pairs
  BY Zenon, <1>1 DEF Serving
<1> QED BY Zenon, <1>1, <1>2, <1>3, <1>4 DEF Serving

LEMMA RunsOutServes ==
    ASSUME Serving, NEW c, NEW k, RunsOut(c, k)
    PROVE  Serving'
<1> DEFINE d == WithLease(db, k, Over(db[k], "ACTIVE"))
<1>1. /\ db' = IF Running(c, k) THEN d ELSE db
      /\ told' = told \ {<<c, k>>} /\ excused' = excused \ {<<c, k>>}
      /\ UNCHANGED <<life, starts, work, file, ip, pd, net, behind, misread>>
  BY Zenon DEF RunsOut
<1>2. told' \ excused' \subseteq told \ excused /\ <<c, k>> \notin told'
      /\ told' \subseteq Pairs /\ excused' \subseteq Pairs
  BY Zenon, <1>1 DEF Serving
<1>3. CASE ~ Running(c, k)
  <2>1. Now' = Now
    BY Zenon, <1>1, <1>3 DEF Now
  <2> QED BY Zenon, <1>1, <1>2, <1>3, <2>1 DEF Serving
<1>4. CASE Running(c, k)
  <2>1. k \in DOMAIN db /\ db[k].duid = c /\ db[k].state = "ACTIVE"
    BY Zenon, <1>4 DEF Running
  <2>2. Core(Now, misread) /\ Now.db = db /\ Now.file = file /\ Now.ip = ip /\ Now.pd = pd
    BY Zenon DEF Serving, Now
  <2>3. DOMAIN db \subseteq Keys /\ \A j \in DOMAIN db : db[j] \in KeptLeases
    BY Zenon, <2>2 DEF Core, DbOk
  <2>4. DOMAIN d = DOMAIN db /\ d[k] = Over(db[k], "ACTIVE") /\ \A j \in DOMAIN db \ {k} : d[j] = db[j]
    BY Zenon, <2>1 DEF WithLease
  <2>5. d = [j \in DOMAIN d |-> d[j]]
    BY Zenon DEF WithLease
  <2>6. Over(db[k], "ACTIVE") \in KeptLeases /\ Over(db[k], "ACTIVE").duid = c /\ Over(db[k], "ACTIVE").state = "ACTIVE"
    BY Zenon, <2>1, <2>3 DEF Over, KeptLeases, Kept
  <2> HIDE DEF d
  <2>7. DbOk(d)
    BY Zenon, <2>3, <2>4, <2>5, <2>6 DEF DbOk
  <2>8. \A j \in DOMAIN db : d[j].duid = db[j].duid /\ d[j].state = db[j].state
    BY Zenon, <2>1, <2>4, <2>6
  <2>9. Printed(d) = Printed(db)
    BY Zenon, <2>4, <2>8 DEF Printed
  <2>10. db' = d
    BY Zenon, <1>1, <1>4
  <2>11. Core(Now', misread')
    <3> DEFINE t == Now'
               s == Now
    <3>1. t.db = d /\ t.file = s.file /\ t.ip = s.ip /\ t.pd = s.pd /\ s.db = db /\ Core(s, misread)
      BY Zenon, <1>1, <2>2, <2>10, NowNext
    <3> HIDE DEF t, s
    <3>2. \A j : St(t, j) = St(s, j) /\ Ow(t, j) = Ow(s, j) /\ (Busy(t, j) <=> Busy(s, j))
      BY Zenon, <3>1 DEF St, Ow, Busy
    <3>3. \A j, e : Owns(t, e, j) <=> Owns(s, e, j)
      BY Zenon, <3>2 DEF Owns
    <3>4. Taken(t)
      BY Zenon, <2>4, <2>8, <3>1, <3>2 DEF Core, Taken
    <3>5. \A j : Active(t.db, j) => Active(s.db, j) /\ t.db[j].duid = s.db[j].duid
      BY Zenon, <2>4, <2>8, <3>1 DEF Active
    <3>6. Agrees(t)
      BY Zenon, <3>1, <3>2, <3>5 DEF Core, Agrees
    <3>7. ~ misread => Single(t)
      BY Zenon, <3>1, <3>3 DEF Core, Single
    <3>8. Core(t, misread)
      BY Zenon, <2>7, <3>1, <3>4, <3>6, <3>7 DEF Core
    <3> QED BY Zenon, <1>1, <3>8 DEF t
  <2>12. ASSUME NEW x \in told' \ excused', life = "up" PROVE x[2] \in DOMAIN db' /\ db'[x[2]] = Lease(x[1])
    <3>1. x[2] \in DOMAIN db /\ db[x[2]] = Lease(x[1]) /\ x \in Pairs
      BY Zenon, <1>2, <2>12 DEF Serving
    <3>2. Lease(x[1]).duid = x[1] /\ x = <<x[1], x[2]>>
      BY <3>1 DEF Lease, Pairs
    <3>3. x[2] # k
      BY Zenon, <1>2, <2>1, <3>1, <3>2
    <3> QED BY Zenon, <2>4, <2>10, <3>1, <3>3
  <2> QED BY Zenon, <1>1, <1>2, <2>9, <2>10, <2>11, <2>12 DEF Serving
<1> QED BY Zenon, <1>3, <1>4

-----------------------------------------------------------------------------
LEMMA ServingInit == Init => Serving
<1> SUFFICES ASSUME Init PROVE Serving
  BY Zenon
<1>1. /\ life = "down" /\ starts = 0 /\ work = 0 /\ db = NoDatabase /\ file = EmptyFile
      /\ ip = FreshPool /\ pd = FreshPdPool /\ net = {} /\ told = {} /\ excused = {}
      /\ behind = FALSE /\ misread = FALSE
  BY Zenon DEF Init
<1>2. EmptyFile = Saved(NoDatabase) /\ DbOk(NoDatabase) /\ DOMAIN NoDatabase = {}
  BY Zenon DEF EmptyFile, Saved, NoDatabase, Printed, DbOk
<1>3. FileOk(file) /\ OneFile(file)
  <2>1. OneLease(NoDatabase)
    BY Zenon, <1>2 DEF OneLease
  <2> QED BY Zenon, <1>1, <1>2, <2>1, SavedReads, OneSaved
<1>4. Now.db = db /\ Now.file = file /\ Now.ip = ip /\ Now.pd = pd
  BY Zenon DEF Now
<1>5. Core(Now, misread)
  BY Zenon, <1>1, <1>3, <1>4, EmptyCore
<1>6. behind \in BOOLEAN /\ misread \in BOOLEAN
  BY Zenon, <1>1
<1>7. starts \in 0 .. MaxStarts /\ work \in 0 .. MaxWork
  BY <1>1, BoundsAssumption
<1>8. life # "up" /\ told \ excused = {} /\ life \in {"down", "up", "hung"}
  BY Zenon, <1>1
<1>9. net \subseteq Notices /\ told \subseteq Pairs /\ excused \subseteq Pairs
  BY Zenon, <1>1
<1> QED BY Zenon, <1>3, <1>5, <1>6, <1>7, <1>8, <1>9 DEF Serving

LEMMA ServingStep == Serving /\ [Next]_vars => Serving'
<1> SUFFICES ASSUME Serving, [Next]_vars PROVE Serving'
  BY Zenon
<1>1. ASSUME NEW day \in Days(file), Start(day) PROVE Serving'
  BY Zenon, <1>1, StartServes
<1>2. CASE StartHangs
  BY Zenon, <1>2, HangServes
<1>3. CASE Crash
  BY Zenon, <1>3, PlainCrashServes
<1>4. ASSUME NEW q \in Questions, NEW alive, NEW disk, Process(q, alive, disk) PROVE Serving'
  BY Zenon, <1>4, ProcessServes
<1>5. ASSUME NEW q \in Questions, NEW alive, ProcessCrash(q, alive) PROVE Serving'
  BY Zenon, <1>5, ProcessCrashServes
<1>6. ASSUME NEW m \in Notices, NEW disk, Notice(m, disk) PROVE Serving'
  BY Zenon, <1>6, NoticeServes
<1>7. ASSUME NEW m \in Notices, NoticeCrash(m) PROVE Serving'
  BY Zenon, <1>7, NoticeCrashServes
<1>8. ASSUME NEW disk, Cleanup(disk) PROVE Serving'
  BY Zenon, <1>8, CleanupServes
<1>9. CASE CleanupCrash
  BY Zenon, <1>9, CleanupCrashServes
<1>10. CASE Stop
  BY Zenon, <1>10, StopServes
<1>11. ASSUME NEW c, NEW k, NEW type \in {"RELEASE", "DECLINE"}, Leaves(c, k, type) PROVE Serving'
  BY Zenon, <1>11, LeavesServes
<1>12. ASSUME NEW c, NEW k, RunsOut(c, k) PROVE Serving'
  BY Zenon, <1>12, RunsOutServes
<1>13. CASE UNCHANGED vars
  <2>1. UNCHANGED <<life, starts, work, db, file, ip, pd, net, told, excused, behind, misread>>
    BY Zenon, <1>13 DEF vars
  <2>2. Now' = Now
    BY Zenon, <2>1 DEF Now
  <2> QED BY Zenon, <2>1, <2>2 DEF Serving
<1> QED
  BY Zenon, <1>1, <1>2, <1>3, <1>4, <1>5, <1>6, <1>7, <1>8, <1>9, <1>10, <1>11, <1>12, <1>13 DEF Next

LEMMA Served == Spec => []Serving
  BY ServingInit, ServingStep, PTL DEF Spec

(* The server's data keep their types (leases6.c, ip6_pool.c, pd_pool.c): the database,
   the blocks of the file and the entries of both pools, through every handler, crash
   and start. *)
THEOREM Types6 == Spec => []TypeOK
<1>1. ASSUME Serving PROVE TypeOK
  <2>1. DbOk(db) /\ FileOk(file) /\ ip \in Ip6Pools /\ pd \in PdPools
    BY Zenon, <1>1 DEF Serving, Core, Now
  <2>2. IsDatabase(db)
    <3>1. KeptLeases \subseteq Leases
      BY Zenon DEF KeptLeases, Leases, Kept, LeaseStates
    <3> QED BY Zenon, <2>1, <3>1 DEF DbOk, IsDatabase
  <2>3. file.log \in Seq(Blocks)
    <3>1. KeptBlocks \subseteq Blocks
      BY Zenon DEF KeptBlocks, Blocks, Kept, LeaseStates
    <3> QED BY <2>1, <3>1 DEF FileOk
  <2> QED BY Zenon, <1>1, <2>1, <2>2, <2>3 DEF TypeOK, Serving
<1> QED BY <1>1, Served, PTL

(* What lease_v6_db_load would read is what ctx.db has, whatever mixture of
   lease_v6_db_append and lease_v6_db_save wrote the file, unless a write failed
   since the last save or a block is torn. *)
THEOREM FileFollows6 == Spec => []FileFollowsDb
<1>1. Serving => FileFollowsDb
  BY Zenon, IntactReads DEF Serving, FileFollowsDb
<1> QED BY <1>1, Served, PTL

(* What a REPLY gave to a client stays its own until it gives it up or its time is
   over: ip6_pool_allocate and pd_pool_allocate give it to no one else, cleanup_thread
   leaves the lease alone, and a server that was stopped or crashed, in the middle of
   whatever handler, reads it back from the file.  Excepted are the pairs in excused. *)
THEOREM HeldLeased6 == Spec => []HeldIsLeased6
<1>1. ASSUME Serving PROVE HeldIsLeased6
  <2>1. SUFFICES ASSUME life = "up", NEW x \in told \ excused
                 PROVE  /\ x[2] \in DOMAIN db /\ db[x[2]].duid = x[1] /\ db[x[2]].state = "ACTIVE"
                        /\ InUse(x[2])
    BY Zenon DEF HeldIsLeased6
  <2>2. x[2] \in DOMAIN db /\ db[x[2]] = Lease(x[1])
    BY Zenon, <1>1, <2>1 DEF Serving
  <2>3. db[x[2]].duid = x[1] /\ db[x[2]].state = "ACTIVE"
    BY <2>2 DEF Lease
  <2>4. Taken(Now) /\ Now.db = db /\ Now.ip = ip /\ Now.pd = pd
    BY Zenon, <1>1 DEF Serving, Core, Now
  <2>5. InUse(x[2])
    BY Zenon, <2>2, <2>3, <2>4 DEF Taken, Busy, InUse
  <2> QED BY Zenon, <2>2, <2>3, <2>5
<1> QED BY <1>1, Served, PTL

(* A set of which any two members are equal. *)
LEMMA AtMostOne ==
    ASSUME NEW S, \A j, k \in S : j = k
    PROVE  Cardinality(S) <= 1
<1>1. CASE S = {}
  BY <1>1, FS_EmptySet
<1>2. ASSUME NEW j \in S PROVE Cardinality(S) = 1
  <2>1. S = {j}
    BY Zenon
  <2> QED BY Zenon, <2>1, FS_Singleton
<1>3. CASE S # {}
  BY <1>2, <1>3
<1> QED BY Zenon, <1>1, <1>3

(* ip6_pool_allocate and pd_pool_allocate find the entry that a client has before they
   take another: no client has two addresses or two prefixes, also after restarts.
   Excepted are long DUIDs, the fixed addresses, and a file that was behind or torn. *)
THEOREM OneEach6 == Spec => []OnePerClient
<1>1. ASSUME Serving PROVE OnePerClient
  <2>1. SUFFICES ASSUME ~ misread, NEW d \in Duids \ LongDuids
                 PROVE  /\ Cardinality(Owned(ip, d) \ HostAddrs) <= 1
                        /\ Cardinality(PdOwned(pd, d)) <= 1
    BY Zenon DEF OnePerClient
  <2>2. Single(Now) /\ Now.ip = ip /\ Now.pd = pd
    BY Zenon, <1>1, <2>1 DEF Serving, Core, Now
  <2>3. Addrs \cap Prefixes = {} /\ HostAddrs \subseteq Addrs
    BY Zenon, KeysAssumption DEF HostAddrs
  <2>4. \A j, k \in Owned(ip, d) \ HostAddrs : j = k
    BY Zenon, <2>2 DEF Single, SameKind, Owns, Owned, St, Ow, Keys
  <2>5. \A j, k \in PdOwned(pd, d) : j = k
    BY Zenon, <2>2, <2>3 DEF Single, SameKind, Owns, PdOwned, St, Ow, Keys
  <2> QED BY Zenon, <2>4, <2>5, AtMostOne
<1> QED BY <1>1, Served, PTL
=============================================================================
