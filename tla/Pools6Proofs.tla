----------------------------- MODULE Pools6Proofs -----------------------------
(***************************************************************************)
(* Proofs about the functions of the DHCPv6 lease database and pools:      *)
(* what each does to the state that a handler of the server passes on, for *)
(* any range of addresses and prefixes, any clients, static hosts and size *)
(* of the database.                                                        *)
(***************************************************************************)
EXTENDS PdPoolOps, Integers, FiniteSetTheorems, WellFoundedInduction, TLAPS

(* The state that the handlers pass on. *)
Well(s) ==
    /\ DOMAIN s = {"db", "file", "ip", "pd", "seen", "disk", "failed"}
    /\ s = [f \in DOMAIN s |-> s[f]]

LEMMA DbFacts ==
    ASSUME NEW s, Well(s), NEW new
    PROVE  LET t == [s EXCEPT !.db = new]
           IN  /\ Well(t) /\ t.db = new /\ t.ip = s.ip /\ t.pd = s.pd
               /\ t.file = s.file /\ t.seen = s.seen /\ t.disk = s.disk /\ t.failed = s.failed
  BY DEF Well

LEMMA IpFacts ==
    ASSUME NEW s, Well(s), NEW new
    PROVE  LET t == [s EXCEPT !.ip = new]
           IN  /\ Well(t) /\ t.db = s.db /\ t.ip = new /\ t.pd = s.pd
               /\ t.file = s.file /\ t.seen = s.seen /\ t.disk = s.disk /\ t.failed = s.failed
  BY DEF Well

LEMMA PdFacts ==
    ASSUME NEW s, Well(s), NEW new
    PROVE  LET t == [s EXCEPT !.pd = new]
           IN  /\ Well(t) /\ t.db = s.db /\ t.ip = s.ip /\ t.pd = new
               /\ t.file = s.file /\ t.seen = s.seen /\ t.disk = s.disk /\ t.failed = s.failed
  BY DEF Well

Busy(s, k) == IF k \in Addrs THEN s.ip.state[k] \in {"ALLOCATED", "RESERVED"}
                             ELSE s.pd.state[k] = "ALLOCATED"

Taken(s) == \A k \in DOMAIN s.db : s.db[k].state = "ACTIVE" => Busy(s, k)

LEMMA OverFacts ==
    ASSUME NEW lease, NEW new
    PROVE  Over(lease, new).state = new
  BY DEF Over

LEMMA GivenFacts ==
    ASSUME NEW s, NEW a
    PROVE  Given(s, a).s = s /\ Refused(s).s = s /\ Given(s, a).got = a /\ Refused(s).got = None
  BY DEF Given, Refused

(* A non-empty set of addresses has a first one. *)
LEMMA FirstOf ==
    ASSUME NEW A \in SUBSET Nat, A # {}
    PROVE  Min(A) \in A /\ \A y \in A : Min(A) <= y
<1> DEFINE R == OpToRel(<, Nat)
<1>1. PICK x \in A : \A y \in A : ~ (<<y, x>> \in R)
  <2>1. IsWellFoundedOn(R, Nat)
    BY Zenon, NatLessThanWellFounded
  <2> HIDE DEF R
  <2> QED BY Zenon, <2>1, WFMin
<1>2. ASSUME NEW y \in A PROVE x <= y
  <2>1. ~ (y < x)
    BY Zenon, <1>1 DEF OpToRel
  <2> QED BY <2>1
<1> QED BY Zenon, <1>2 DEF Min

-----------------------------------------------------------------------------
(* What lease_v6_db_load reads in a file to which a block was appended *)

(* A non-empty set of positions has a last one. *)
LEMMA LastOf ==
    ASSUME NEW n \in Nat, NEW A \in SUBSET (1 .. n), A # {}
    PROVE  Max(A) \in A /\ \A y \in A : y <= Max(A)
<1> DEFINE B == {m \in Nat : \E y \in A : m = n - y}
<1>1. B \in SUBSET Nat /\ B # {}
  <2>1. PICK y \in A : TRUE
    BY Zenon
  <2>2. n - y \in Nat
    BY <2>1
  <2> QED BY Zenon, <2>2
<1> DEFINE m == Min(B)
<1>2. m \in B /\ \A z \in B : m <= z
  BY Zenon, <1>1, FirstOf
<1> HIDE DEF m
<1>3. PICK x \in A : m = n - x
  BY <1>2
<1>4. ASSUME NEW y \in A PROVE x >= y
  <2>1. n - y \in B
    OBVIOUS
  <2> HIDE DEF B
  <2>2. m <= n - y
    BY <1>2, <2>1
  <2> QED BY <1>3, <2>2
<1>5. Max(A) \in A /\ \A y \in A : Max(A) >= y
  BY Zenon, <1>4 DEF Max
<1> QED BY <1>5

Extends(log, new, b) ==
    /\ Len(log) \in Nat /\ DOMAIN log = 1 .. Len(log)
    /\ Len(new) = Len(log) + 1 /\ DOMAIN new = 1 .. Len(new)
    /\ \A i \in DOMAIN log : new[i] = log[i]
    /\ new[Len(new)] = b

LEMMA AppendExtends ==
    ASSUME NEW S, NEW log \in Seq(S), NEW b \in S
    PROVE  Append(log, b) \in Seq(S) /\ Extends(log, Append(log, b), b)
  BY DEF Extends

(* The last block of the log is torn, and what is appended becomes a part of it. *)
Open(log) == Len(log) # 0 /\ log[Len(log)].torn # "no"

LEMMA StartsGrow ==
    ASSUME NEW log, NEW new, NEW b, Extends(log, new, b)
    PROVE  /\ Starts(log) \subseteq 1 .. Len(log)
           /\ \A i \in 1 .. Len(log) : i \in Starts(new) <=> i \in Starts(log)
           /\ Len(new) \in Starts(new) <=> ~ Open(log)
<1>1. /\ Len(log) \in Nat /\ DOMAIN log = 1 .. Len(log)
      /\ Len(new) = Len(log) + 1 /\ DOMAIN new = 1 .. Len(new)
      /\ \A i \in 1 .. Len(log) : new[i] = log[i]
  BY DEF Extends
<1>2. ASSUME NEW i \in 1 .. Len(log)
      PROVE  i \in Starts(new) <=> i \in Starts(log)
  <2>1. i # 1 => i - 1 \in 1 .. Len(log)
    BY <1>1
  <2>2. i # 1 => new[i - 1] = log[i - 1]
    BY <1>1, <2>1
  <2> QED BY <1>1, <2>2 DEF Starts
<1>3. Len(new) \in Starts(new) <=> ~ Open(log)
  <2>1. CASE Len(log) = 0
    BY <1>1, <2>1 DEF Starts, Open
  <2>2. CASE Len(log) # 0
    <3>1. Len(new) # 1 /\ Len(new) - 1 = Len(log) /\ Len(log) \in 1 .. Len(log)
      BY <1>1, <2>2
    <3>2. new[Len(new) - 1] = log[Len(log)]
      BY <1>1, <3>1
    <3> QED BY <1>1, <2>2, <3>1, <3>2 DEF Starts, Open
  <2> QED BY <2>1, <2>2
<1> QED BY <1>1, <1>2, <1>3 DEF Starts

LEMMA ClosedGrow ==
    ASSUME NEW log, NEW new, NEW b, Extends(log, new, b), NEW i \in 1 .. Len(log)
    PROVE  /\ Closed(new, i) = Closed(log, i) \union (IF b.torn = "no" THEN {Len(new)} ELSE {})
           /\ Closed(log, i) \subseteq i .. Len(log)
           /\ Closed(log, i) # {} =>
                /\ Closed(new, i) # {}
                /\ Min(Closed(new, i)) = Min(Closed(log, i))
                /\ Min(Closed(log, i)) \in i .. Len(log)
<1>1. /\ Len(log) \in Nat /\ Len(new) = Len(log) + 1
      /\ \A j \in 1 .. Len(log) : new[j] = log[j]
      /\ new[Len(new)] = b
  BY DEF Extends
<1>2. Closed(new, i) = Closed(log, i) \union (IF b.torn = "no" THEN {Len(new)} ELSE {})
  <2>1. \A j \in i .. Len(log) : j \in 1 .. Len(log)
    BY <1>1
  <2>2. ASSUME NEW j PROVE j \in i .. Len(new) <=> j \in i .. Len(log) \/ j = Len(new)
    BY <1>1
  <2> QED BY <1>1, <2>1, <2>2 DEF Closed
<1>3. Closed(log, i) \subseteq i .. Len(log)
  BY DEF Closed
<1>4. ASSUME Closed(log, i) # {}
      PROVE  Min(Closed(new, i)) = Min(Closed(log, i)) /\ Min(Closed(log, i)) \in i .. Len(log)
  <2> DEFINE C == Closed(log, i)
             D == Closed(new, i)
  <2>1. C \in SUBSET Nat /\ D \in SUBSET Nat /\ C # {} /\ D # {}
    BY <1>1, <1>2, <1>3, <1>4
  <2>2. D = C \/ D = C \union {Len(new)}
    BY <1>2
  <2>3. C \subseteq i .. Len(log)
    BY <1>3
  <2> HIDE DEF C, D
  <2>4. Min(C) \in C /\ (\A y \in C : Min(C) <= y) /\ Min(D) \in D /\ (\A y \in D : Min(D) <= y)
    BY <2>1, FirstOf
  <2>5. \A y \in C : y < Len(new)
    BY <1>1, <2>3
  <2> DEFINE c == Min(C)
             d == Min(D)
  <2>6. c \in C /\ d \in D /\ c \in Nat /\ d \in Nat /\ (\A y \in C : c <= y) /\ (\A y \in D : d <= y)
    BY Zenon, <2>1, <2>4
  <2> HIDE DEF c, d
  <2>7. c = d
    <3>1. d <= c /\ c < Len(new)
      BY <2>2, <2>5, <2>6
    <3>2. d \in C
      BY <1>1, <2>2, <2>6, <3>1
    <3> QED BY <2>6, <3>1, <3>2
  <2> QED BY <2>3, <2>6, <2>7 DEF c, d, C, D
<1> QED BY <1>2, <1>3, <1>4

LEMMA SwallowedIs ==
    ASSUME NEW log, NEW k
    PROVE  k \in Swallowed(log) <=>
             \E i \in Starts(log) : /\ log[i].torn # "no" /\ Closed(log, i) # {}
                                    /\ \E n \in i .. Min(Closed(log, i)) : log[n].key = k
<1> DEFINE torn == {x \in Starts(log) : log[x].torn # "no" /\ Closed(log, x) # {}}
<1>1. k \in Swallowed(log) <=> \E n \in UNION {i .. Min(Closed(log, i)) : i \in torn} : log[n].key = k
  BY DEF Swallowed
<1>2. (\E n \in UNION {i .. Min(Closed(log, i)) : i \in torn} : log[n].key = k)
        <=> \E i \in torn : \E n \in i .. Min(Closed(log, i)) : log[n].key = k
  OBVIOUS
<1> QED BY <1>1, <1>2

LEMMA SwallowedGrow ==
    ASSUME NEW log, NEW new, NEW b, Extends(log, new, b)
    PROVE  Swallowed(log) \subseteq Swallowed(new)
<1> SUFFICES ASSUME NEW k \in Swallowed(log) PROVE k \in Swallowed(new)
  OBVIOUS
<1>1. PICK i \in Starts(log) : /\ log[i].torn # "no" /\ Closed(log, i) # {}
                               /\ \E n \in i .. Min(Closed(log, i)) : log[n].key = k
  BY SwallowedIs
<1>2. PICK n \in i .. Min(Closed(log, i)) : log[n].key = k
  BY <1>1
<1>3. i \in 1 .. Len(log) /\ i \in Starts(new)
  BY StartsGrow
<1>4. /\ Closed(new, i) # {} /\ Min(Closed(new, i)) = Min(Closed(log, i))
      /\ Min(Closed(log, i)) \in i .. Len(log)
  BY <1>1, <1>3, ClosedGrow
<1>5. Len(log) \in Nat /\ \A j \in 1 .. Len(log) : new[j] = log[j]
  BY DEF Extends
<1>6. n \in 1 .. Len(log)
  BY <1>3, <1>4, <1>5
<1>7. new[i].torn # "no" /\ new[n].key = k
  BY <1>1, <1>2, <1>3, <1>5, <1>6
<1> QED BY <1>3, <1>4, <1>7, <1>2, SwallowedIs

(* The lease of k is read from the same block as before. *)
LEMMA SameRead ==
    ASSUME NEW f, NEW g, NEW b, Extends(f.log, g.log, b), g.base = f.base,
           NEW k, BlocksOf(g.log, k) = BlocksOf(f.log, k)
    PROVE  (k \in ReadKeys(g) <=> k \in ReadKeys(f)) /\ ReadLease(g, k) = ReadLease(f, k)
<1> DEFINE log == f.log
           new == g.log
           B == BlocksOf(log, k)
           m == Max(B)
<1>1. Len(log) \in Nat /\ \A j \in 1 .. Len(log) : new[j] = log[j]
  BY DEF Extends
<1>2. k \in ReadKeys(g) <=> k \in ReadKeys(f)
  BY DEF ReadKeys
<1>3. CASE B = {}
  BY <1>2, <1>3 DEF ReadLease
<1>4. CASE B # {}
  <2>1. B \in SUBSET (1 .. Len(log)) /\ \A i \in B : Closed(log, i) # {}
    BY StartsGrow DEF BlocksOf
  <2>2. m \in B
    <3> HIDE DEF B
    <3> QED BY Zenon, <1>1, <1>4, <2>1, LastOf
  <2> DEFINE c == Min(Closed(log, m))
  <2>3. Min(Closed(new, m)) = c /\ c \in m .. Len(log)
    BY <2>1, <2>2, ClosedGrow
  <2>4. ReadLease(f, k) = [duid |-> log[c].duid, state |-> log[c].state]
    BY <1>4 DEF ReadLease
  <2>5. ReadLease(g, k) = [duid |-> new[Min(Closed(new, m))].duid, state |-> new[Min(Closed(new, m))].state]
    BY <1>4 DEF ReadLease
  <2> HIDE DEF c, B, m
  <2>6. c \in 1 .. Len(log)
    BY <1>1, <2>1, <2>2, <2>3
  <2> QED BY <1>1, <1>2, <2>3, <2>4, <2>5, <2>6
<1> QED BY <1>3, <1>4

(* A torn block at the end is not read. *)
LEMMA TornAppend ==
    ASSUME NEW log, NEW new, NEW b, Extends(log, new, b), b.torn # "no", NEW k
    PROVE  BlocksOf(new, k) = BlocksOf(log, k)
<1>1. /\ Len(log) \in Nat /\ Len(new) = Len(log) + 1 /\ \A j \in 1 .. Len(log) : new[j] = log[j]
      /\ new[Len(new)] = b /\ DOMAIN new = 1 .. Len(new)
  BY DEF Extends
<1>2. Closed(new, Len(new)) = {}
  BY <1>1 DEF Closed
<1>3. \A i \in Starts(new) : i \in 1 .. Len(log) \/ i = Len(new)
  BY <1>1 DEF Starts
<1>4. Starts(log) \subseteq 1 .. Len(log)
  BY StartsGrow
<1>5. ASSUME NEW i \in 1 .. Len(log)
      PROVE  i \in BlocksOf(new, k) <=> i \in BlocksOf(log, k)
  <2>1. i \in Starts(new) <=> i \in Starts(log)
    BY StartsGrow
  <2>2. Closed(new, i) = Closed(log, i)
    BY ClosedGrow
  <2> QED BY <1>1, <2>1, <2>2 DEF BlocksOf
<1>6. BlocksOf(new, k) \subseteq 1 .. Len(log) /\ BlocksOf(log, k) \subseteq 1 .. Len(log)
  BY <1>2, <1>3, <1>4 DEF BlocksOf
<1> QED BY Zenon, <1>5, <1>6

(* A whole block behind a whole block is read, and nothing else changes. *)
LEMMA CleanAppend ==
    ASSUME NEW log, NEW new, NEW b, Extends(log, new, b), b.torn = "no", ~ Open(log), NEW k
    PROVE  /\ k # b.key => BlocksOf(new, k) = BlocksOf(log, k)
           /\ k = b.key => /\ BlocksOf(new, k) # {} /\ Max(BlocksOf(new, k)) = Len(new)
                           /\ Min(Closed(new, Len(new))) = Len(new)
<1>1. /\ Len(log) \in Nat /\ Len(new) = Len(log) + 1 /\ \A j \in 1 .. Len(log) : new[j] = log[j]
      /\ new[Len(new)] = b /\ DOMAIN new = 1 .. Len(new)
  BY DEF Extends
<1>2. Closed(new, Len(new)) = {Len(new)}
  BY <1>1 DEF Closed
<1>3. \A i \in Starts(new) : i \in 1 .. Len(log) \/ i = Len(new)
  BY <1>1 DEF Starts
<1>4. Starts(log) \subseteq 1 .. Len(log) /\ Len(new) \in Starts(new)
  BY StartsGrow
<1>5. ASSUME NEW i \in 1 .. Len(log)
      PROVE  i \in BlocksOf(new, k) <=> i \in BlocksOf(log, k)
  <2>1. i \in Starts(new) <=> i \in Starts(log)
    BY StartsGrow
  <2>2. Len(log) \in Closed(log, i)
    BY <1>1 DEF Closed, Open
  <2>3. Closed(new, i) # {} /\ Closed(log, i) # {}
    BY <2>2, ClosedGrow
  <2> QED BY <1>1, <2>1, <2>3 DEF BlocksOf
<1>6. BlocksOf(log, k) \subseteq 1 .. Len(log) /\ BlocksOf(new, k) \subseteq 1 .. Len(new)
  BY <1>1, <1>3, <1>4 DEF BlocksOf
<1>7. Len(new) \in BlocksOf(new, k) <=> k = b.key
  BY <1>1, <1>2, <1>4 DEF BlocksOf
<1>8. ASSUME k # b.key PROVE BlocksOf(new, k) = BlocksOf(log, k)
  <2>1. \A i \in BlocksOf(new, k) : i \in 1 .. Len(log)
    BY <1>3, <1>7, <1>8 DEF BlocksOf
  <2> QED BY <1>5, <1>6, <2>1
<1>9. ASSUME k = b.key PROVE BlocksOf(new, k) # {} /\ Max(BlocksOf(new, k)) = Len(new)
  <2> DEFINE B == BlocksOf(new, k)
  <2>1. Len(new) \in B /\ B \in SUBSET (1 .. Len(new)) /\ Len(new) \in Nat
    BY <1>1, <1>6, <1>7, <1>9
  <2> HIDE DEF B
  <2>2. Max(B) \in B /\ \A y \in B : y <= Max(B)
    BY Zenon, <2>1, LastOf
  <2>3. Max(B) \in 1 .. Len(new) /\ Len(new) <= Max(B)
    BY Zenon, <2>1, <2>2
  <2> QED BY <2>1, <2>3 DEF B
<1>10. Min({Len(new)}) = Len(new)
  <2>1. {Len(new)} \in SUBSET Nat
    BY <1>1
  <2> QED BY Zenon, <2>1, FirstOf
<1> QED BY <1>2, <1>8, <1>9, <1>10

(* A whole block behind a torn one ends it: what becomes readable is swallowed. *)
LEMMA OpenAppend ==
    ASSUME NEW log, NEW new, NEW b, Extends(log, new, b), b.torn = "no", Open(log)
    PROVE  /\ b.key \in Swallowed(new)
           /\ \A k : k \in Swallowed(new) \/ BlocksOf(new, k) = BlocksOf(log, k)
<1>1. /\ Len(log) \in Nat /\ Len(new) = Len(log) + 1 /\ \A j \in 1 .. Len(log) : new[j] = log[j]
      /\ new[Len(new)] = b /\ DOMAIN new = 1 .. Len(new) /\ DOMAIN log = 1 .. Len(log)
  BY DEF Extends
<1>2. /\ Starts(log) \subseteq 1 .. Len(log) /\ Len(new) \notin Starts(new)
      /\ \A i \in 1 .. Len(log) : i \in Starts(new) <=> i \in Starts(log)
  BY Zenon, StartsGrow
<1>3. Starts(new) \subseteq 1 .. Len(log)
  BY <1>1, <1>2 DEF Starts
<1>4. ASSUME NEW i \in Starts(log), Closed(log, i) = {}
      PROVE  log[i].key \in Swallowed(new) /\ b.key \in Swallowed(new)
  <2>1. i \in 1 .. Len(log) /\ i \in Starts(new)
    BY Zenon, <1>2
  <2>2. Closed(new, i) = {Len(new)}
    BY <1>4, <2>1, ClosedGrow
  <2>3. Min({Len(new)}) = Len(new)
    <3>1. {Len(new)} \in SUBSET Nat
      BY <1>1
    <3> QED BY Zenon, <3>1, FirstOf
  <2>4. log[i].torn # "no"
    BY <1>1, <1>4, <2>1 DEF Closed
  <2>5. i \in i .. Len(new) /\ Len(new) \in i .. Len(new)
    BY <1>1, <2>1
  <2>6. new[i] = log[i]
    BY Zenon, <1>1, <2>1
  <2>7. ASSUME NEW n \in i .. Len(new) PROVE new[n].key \in Swallowed(new)
    <3>1. n \in i .. Min(Closed(new, i)) /\ Closed(new, i) # {} /\ new[i].torn # "no"
      BY Zenon, <2>2, <2>3, <2>4, <2>6
    <3> QED BY Zenon, <2>1, <3>1, SwallowedIs
  <2> QED BY Zenon, <1>1, <2>5, <2>6, <2>7
<1>5. \E i \in Starts(log) : Closed(log, i) = {}
  <2> DEFINE m == Max(Starts(log))
  <2>1. 1 \in Starts(log)
    BY <1>1 DEF Starts, Open
  <2>2. m \in Starts(log) /\ \A y \in Starts(log) : y <= m
    BY Zenon, <1>1, <1>2, <2>1, LastOf
  <2> HIDE DEF m
  <2>3. ASSUME NEW j \in m .. Len(log), log[j].torn = "no" PROVE FALSE
    <3>1. m \in 1 .. Len(log)
      BY Zenon, <1>2, <2>2
    <3>2. j # Len(log)
      BY Zenon, <2>3 DEF Open
    <3>3. j + 1 \in 1 .. Len(log) /\ j + 1 - 1 = j /\ j + 1 > m
      <4>1. Len(log) \in Nat
        BY Zenon, <1>1
      <4> QED BY <2>3, <3>1, <3>2, <4>1
    <3>4. j + 1 \in Starts(log)
      BY <1>1, <2>3, <3>3 DEF Starts
    <3> QED BY <1>2, <2>2, <3>1, <3>3, <3>4
  <2>4. Closed(log, m) = {}
    BY Zenon, <2>3 DEF Closed
  <2> QED BY Zenon, <2>2, <2>4
<1>6. ASSUME NEW k, k \notin Swallowed(new) PROVE BlocksOf(new, k) = BlocksOf(log, k)
  <2>1. ASSUME NEW i \in Starts(log), log[i].key = k
        PROVE  Closed(log, i) # {} /\ Closed(new, i) # {}
    <3>1. Closed(log, i) # {}
      BY Zenon, <1>4, <1>6, <2>1
    <3> QED BY Zenon, <1>2, <3>1, ClosedGrow
  <2> QED BY Zenon, <1>1, <1>2, <1>3, <2>1 DEF BlocksOf
<1> QED BY Zenon, <1>4, <1>5, <1>6

-----------------------------------------------------------------------------
(* Files and databases *)

(* The states that the server gives a lease; the file has no others. *)
Kept == {"ACTIVE", "EXPIRED", "RELEASED", "ABANDONED"}

Lines == [duid : Duids, state : Kept]
KeptLeases == [duid : Duids, state : Kept, over : BOOLEAN]
KeptBlocks == [key : Keys, duid : Duids, state : Kept, torn : {"no", "head", "body"}]

DbOk(d) == DOMAIN d \subseteq Keys /\ d \in [DOMAIN d -> KeptLeases]

FileOk(f) ==
    /\ DOMAIN f.base \subseteq Keys /\ \A k \in DOMAIN f.base : f.base[k] \in Lines
    /\ f.log \in Seq(KeptBlocks)

Saved(d) == [base |-> Printed(d), log |-> <<>>]

Reads(f, k, line) == k \in ReadKeys(f) /\ ReadLease(f, k) = line

LEMMA ReadTypes ==
    ASSUME NEW f, FileOk(f)
    PROVE  /\ ReadKeys(f) \subseteq Keys
           /\ \A k \in ReadKeys(f) : ReadLease(f, k) \in Lines
<1> DEFINE log == f.log
<1>1. /\ DOMAIN f.base \subseteq Keys /\ \A k \in DOMAIN f.base : f.base[k] \in Lines
      /\ Len(log) \in Nat /\ DOMAIN log = 1 .. Len(log) /\ \A i \in 1 .. Len(log) : log[i] \in KeptBlocks
  BY DEF FileOk
<1>2. ReadKeys(f) \subseteq Keys
  BY Zenon, <1>1 DEF ReadKeys
<1>3. ASSUME NEW k \in ReadKeys(f) PROVE ReadLease(f, k) \in Lines
  <2> DEFINE B == BlocksOf(log, k)
  <2>1. CASE B = {}
    BY Zenon, <1>1, <2>1 DEF ReadLease, ReadKeys
  <2>2. CASE B # {}
    <3> DEFINE m == Max(B)
               c == Min(Closed(log, m))
    <3>1. B \in SUBSET (1 .. Len(log)) /\ \A i \in B : Closed(log, i) # {}
      BY Zenon, <1>1 DEF BlocksOf, Starts
    <3>2. m \in B
      <4> HIDE DEF B
      <4> QED BY Zenon, <1>1, <2>2, <3>1, LastOf
    <3>3. ReadLease(f, k) = [duid |-> log[c].duid, state |-> log[c].state]
      BY Zenon, <2>2 DEF ReadLease
    <3> HIDE DEF m, B
    <3>4. Closed(log, m) # {} /\ Closed(log, m) \in SUBSET Nat /\ Closed(log, m) \subseteq 1 .. Len(log)
      BY <1>1, <3>1, <3>2 DEF Closed
    <3>5. c \in Closed(log, m)
      BY Zenon, <3>4, FirstOf
    <3> HIDE DEF c
    <3>6. log[c] \in KeptBlocks
      BY Zenon, <1>1, <3>4, <3>5
    <3> QED BY <3>3, <3>6 DEF KeptBlocks, Lines
  <2> QED BY Zenon, <2>1, <2>2
<1> QED BY Zenon, <1>2, <1>3

LEMMA IntactReads ==
    ASSUME NEW log, Intact(log)
    PROVE  Swallowed(log) = {}
<1>1. \A i \in Starts(log) : log[i].torn = "no"
  BY Zenon DEF Starts, Intact
<1> QED BY Zenon, <1>1, SwallowedIs

(* A file that was just saved reads as the database. *)
LEMMA SavedReads ==
    ASSUME NEW d, DbOk(d)
    PROVE  /\ FileOk(Saved(d)) /\ Swallowed(Saved(d).log) = {}
           /\ ReadKeys(Saved(d)) = DOMAIN d
           /\ \A k \in DOMAIN d : ReadLease(Saved(d), k) = [duid |-> d[k].duid, state |-> d[k].state]
           /\ Read(Saved(d)) = Printed(d)
<1> DEFINE f == Saved(d)
<1>1. f.base = Printed(d) /\ f.log = <<>>
  BY Zenon DEF Saved
<1>2. /\ DOMAIN Printed(d) = DOMAIN d
      /\ \A k \in DOMAIN d : Printed(d)[k] = [duid |-> d[k].duid, state |-> d[k].state]
  BY Zenon DEF Printed
<1>3. \A k \in DOMAIN d : d[k].duid \in Duids /\ d[k].state \in Kept
  BY Zenon DEF DbOk, KeptLeases
<1>4. FileOk(f)
  BY <1>1, <1>2, <1>3 DEF FileOk, DbOk, Lines
<1>5. Starts(<<>>) = {}
  BY DEF Starts
<1>6. \A k : BlocksOf(f.log, k) = {}
  BY Zenon, <1>1, <1>5 DEF BlocksOf
<1>7. Swallowed(f.log) = {}
  BY Zenon, <1>1, <1>5, SwallowedIs
<1> HIDE DEF f
<1>8. ReadKeys(f) = DOMAIN d
  BY Zenon, <1>1, <1>2, <1>6 DEF ReadKeys
<1>9. \A k \in DOMAIN d : ReadLease(f, k) = [duid |-> d[k].duid, state |-> d[k].state]
  BY Zenon, <1>1, <1>2, <1>6 DEF ReadLease
<1>10. Read(f) = Printed(d)
  BY Zenon, <1>8, <1>9 DEF Read, Printed
<1> QED BY Zenon, <1>4, <1>7, <1>8, <1>9, <1>10 DEF f

(* The file with one more block. *)
Longer(f, k, line, torn) ==
    [base |-> f.base,
     log  |-> Append(f.log, [key |-> k, duid |-> line.duid, state |-> line.state, torn |-> torn])]

ReadsMore(f, g, k, line, torn) ==
    /\ FileOk(g)
    /\ Swallowed(f.log) \subseteq Swallowed(g.log)
    /\ \A j : j # k \/ torn # "no" =>
         \/ j \in Swallowed(g.log)
         \/ (j \in ReadKeys(g) <=> j \in ReadKeys(f)) /\ ReadLease(g, j) = ReadLease(f, j)
    /\ torn = "no" => k \in Swallowed(g.log) \/ Reads(g, k, line)

LEMMA LongerReads ==
    ASSUME NEW f, FileOk(f), NEW k \in Keys, NEW line \in Lines, NEW torn \in {"no", "head", "body"},
           NEW g, g = Longer(f, k, line, torn)
    PROVE  ReadsMore(f, g, k, line, torn)
<1> DEFINE b == [key |-> k, duid |-> line.duid, state |-> line.state, torn |-> torn]
           log == f.log
           new == g.log
<1>1. b \in KeptBlocks /\ b.key = k /\ b.torn = torn /\ b.duid = line.duid /\ b.state = line.state
  BY Zenon DEF KeptBlocks, Lines
<1>2. g.base = f.base /\ new = Append(log, b)
  BY Zenon DEF Longer
<1>3. line = [duid |-> line.duid, state |-> line.state]
  BY Zenon DEF Lines
<1> HIDE DEF b
<1>4. new \in Seq(KeptBlocks) /\ Extends(log, new, b)
  BY Zenon, <1>1, <1>2, AppendExtends DEF FileOk
<1>5. FileOk(g)
  BY Zenon, <1>2, <1>4 DEF FileOk
<1>6. Swallowed(log) \subseteq Swallowed(new)
  BY Zenon, <1>4, SwallowedGrow
<1>7. ASSUME NEW j, BlocksOf(new, j) = BlocksOf(log, j)
      PROVE  (j \in ReadKeys(g) <=> j \in ReadKeys(f)) /\ ReadLease(g, j) = ReadLease(f, j)
  BY Zenon, <1>2, <1>4, <1>7, SameRead
<1>8. ASSUME NEW j, j # k \/ torn # "no"
      PROVE  j \in Swallowed(new) \/ BlocksOf(new, j) = BlocksOf(log, j)
  BY <1>1, <1>4, <1>8, TornAppend, CleanAppend, OpenAppend
<1>9. ASSUME torn = "no" PROVE k \in Swallowed(new) \/ Reads(g, k, line)
  <2>1. CASE Open(log)
    BY Zenon, <1>1, <1>4, <1>9, <2>1, OpenAppend
  <2>2. CASE ~ Open(log)
    <3>1. /\ BlocksOf(new, k) # {} /\ Max(BlocksOf(new, k)) = Len(new)
          /\ Min(Closed(new, Len(new))) = Len(new)
      BY <1>1, <1>4, <1>9, <2>2, CleanAppend
    <3>2. new[Len(new)] = b
      BY Zenon, <1>4 DEF Extends
    <3>3. ReadLease(g, k) = [duid |-> b.duid, state |-> b.state]
      BY Zenon, <3>1, <3>2 DEF ReadLease
    <3>4. k \in ReadKeys(g)
      BY Zenon, <3>1 DEF ReadKeys
    <3> QED BY Zenon, <1>1, <1>3, <3>3, <3>4 DEF Reads
  <2> QED BY Zenon, <2>1, <2>2
<1> QED BY Zenon, <1>5, <1>6, <1>7, <1>8, <1>9 DEF ReadsMore

ReadsWhole(f, g, k, line, torn) ==
    /\ Swallowed(f.log) = {}
    /\ torn # "no" => Read(g) = Read(f)
    /\ torn = "no" => Read(g) = WithLease(Read(f), k, line)

(* When nothing is swallowed, the whole file reads as before but for the new block. *)
LEMMA LongerWhole ==
    ASSUME NEW f, FileOk(f), NEW k \in Keys, NEW line \in Lines, NEW torn \in {"no", "head", "body"},
           NEW g, g = Longer(f, k, line, torn), Swallowed(g.log) = {}
    PROVE  ReadsWhole(f, g, k, line, torn)
<1>0. ReadsMore(f, g, k, line, torn)
  BY Zenon, LongerReads
<1>1. /\ FileOk(g)
      /\ Swallowed(f.log) \subseteq Swallowed(g.log)
      /\ \A j : j # k \/ torn # "no" =>
           \/ j \in Swallowed(g.log)
           \/ (j \in ReadKeys(g) <=> j \in ReadKeys(f)) /\ ReadLease(g, j) = ReadLease(f, j)
      /\ torn = "no" => k \in Swallowed(g.log) \/ Reads(g, k, line)
  BY Zenon, <1>0 DEF ReadsMore
<1>2. ASSUME torn # "no" PROVE Read(g) = Read(f)
  <2>1. ReadKeys(g) = ReadKeys(f) /\ \A j \in ReadKeys(f) : ReadLease(g, j) = ReadLease(f, j)
    BY Zenon, <1>1, <1>2
  <2> QED BY Zenon, <2>1 DEF Read
<1>3. ASSUME torn = "no"
      PROVE  Read(g) = WithLease(Read(f), k, line)
  <2>1. /\ ReadKeys(g) = ReadKeys(f) \union {k} /\ ReadLease(g, k) = line
        /\ \A j \in ReadKeys(f) \ {k} : ReadLease(g, j) = ReadLease(f, j)
    BY Zenon, <1>1, <1>3 DEF Reads
  <2> QED BY Zenon, <2>1 DEF Read, WithLease
<1> QED BY Zenon, <1>1, <1>2, <1>3 DEF ReadsWhole

-----------------------------------------------------------------------------
(* The two kinds of steps that the handlers are made of: a lease is granted, or some
   leases end. *)

St(s, k) == IF k \in Addrs THEN s.ip.state[k] ELSE s.pd.state[k]
Ow(s, k) == IF k \in Addrs THEN s.ip.duid[k] ELSE s.pd.duid[k]

(* What an entry that belongs to d notes as its owner. *)
Names(o, d) == o = d \/ (d \in LongDuids /\ o \in {Cut, None})

Active(d, k) == k \in DOMAIN d /\ d[k].state = "ACTIVE"

Ready(s) ==
    /\ Well(s)
    /\ DbOk(s.db) /\ FileOk(s.file) /\ \A f \in s.seen : FileOk(f)
    /\ s.ip \in Ip6Pools /\ s.pd \in PdPools
    /\ s.disk => ~ s.failed

(* e is d after leases have ended, of keys in K if they were active. *)
Weaker(d, e, K) ==
    /\ DbOk(e) /\ DOMAIN e \subseteq DOMAIN d
    /\ \A k \in DOMAIN e : e[k] = d[k] \/ e[k].state # "ACTIVE"
    /\ \A k : Active(d, k) /\ k \notin K => k \in DOMAIN e /\ e[k] = d[k]

(* The file after a step that saves the database. *)
SavedTo(s, t, K) ==
    \/ /\ s.disk /\ t.file = Saved(t.db) /\ t.failed = s.failed
       /\ \A f \in t.seen : f \in s.seen \/ \E e : f = Saved(e) /\ Weaker(s.db, e, K)
    \/ ~ s.disk /\ t.failed /\ t.file = s.file /\ t.seen = s.seen

(* The entry of k is as it was, or out of use, or as the active lease has it. *)
EntryKept(s, t, k) ==
    \/ St(t, k) = St(s, k) /\ Ow(t, k) = Ow(s, k)
    \/ St(t, k) \notin {"ALLOCATED", "RESERVED"} /\ ~ Active(t.db, k)
    \/ St(t, k) = "ALLOCATED" /\ Active(t.db, k) /\ Names(Ow(t, k), t.db[k].duid)

Ends(s, t, K) ==
    /\ Ready(t) /\ t.disk = s.disk
    /\ Weaker(s.db, t.db, K)
    /\ \/ t.db = s.db /\ t.file = s.file /\ t.seen = s.seen /\ t.failed = s.failed
       \/ SavedTo(s, t, K)
    /\ \A k \in Keys : EntryKept(s, t, k)

AppendedTo(s, t, k, line) ==
    \/ /\ s.disk /\ t.file = Longer(s.file, k, line, "no") /\ t.failed = s.failed
       /\ \A f \in t.seen :
            f \in s.seen \/ \E torn \in {"no", "head", "body"} : f = Longer(s.file, k, line, torn)
    \/ ~ s.disk /\ t.failed /\ t.file = s.file /\ t.seen = s.seen

SameKind(j, k) == (j \in Addrs) <=> (k \in Addrs)

Owns(s, d, k) == k \in Keys /\ St(s, k) = "ALLOCATED" /\ Ow(s, k) = d

(* Why the server gives k to d: d has it, or it is the fixed address of d, or it is
   free and d has none. *)
Ground(s, k, d) ==
    \/ Owns(s, d, k)
    \/ k \in Addrs /\ d \in DOMAIN Hosts /\ Hosts[d] = k
    \/ St(s, k) = "AVAILABLE" /\ \A j \in Keys : SameKind(j, k) => ~ Owns(s, d, j)

Lease(d) == [duid |-> d, state |-> "ACTIVE", over |-> FALSE]
Line(d) == [duid |-> d, state |-> "ACTIVE"]

Grants(s, t, k, d) ==
    /\ k \in Keys /\ d \in Duids
    /\ Ready(t) /\ t.disk = s.disk
    /\ t.db = WithLease(s.db, k, Lease(d))
    /\ AppendedTo(s, t, k, Line(d))
    /\ St(t, k) = "ALLOCATED" /\ Names(Ow(t, k), d)
    /\ \A j \in Keys \ {k} : St(t, j) = St(s, j) /\ Ow(t, j) = Ow(s, j)
    /\ Ground(s, k, d)

LEMMA OwnerTypes ==
    ASSUME NEW d \in Duids
    PROVE  /\ Stored(d) \in Duids \union {None, Cut} /\ Synced(d) \in Duids \union {None, Cut}
           /\ Names(Stored(d), d) /\ Names(Synced(d), d)
  BY Zenon DEF Stored, Synced, Names

LEMMA RecountType ==
    ASSUME NEW n \in Nat, NEW x, NEW A, IsFiniteSet(A), NEW old, NEW new
    PROVE  Recount(n, x, A, old, new) \in Nat
<1> DEFINE gone == {a \in A : old[a] = x}
           came == {a \in A : new[a] = x}
<1>1. Recount(n, x, A, old, new)
        = (IF Cardinality(gone) > n THEN 0 ELSE n - Cardinality(gone)) + Cardinality(came)
  BY Zenon DEF Recount
<1>2. gone \subseteq A /\ came \subseteq A
  BY Zenon
<1> HIDE DEF gone, came
<1>3. Cardinality(gone) \in Nat /\ Cardinality(came) \in Nat
  BY Zenon, <1>2, FS_Subset, FS_CardinalityType
<1> QED BY <1>1, <1>3

(* Pool q is p with the entries of A set to new and duid, the others as they were. *)
MovedTo(q, p, S, A, new, duid) ==
    /\ \A a \in A : q.state[a] = new[a] /\ q.duid[a] = duid[a]
    /\ \A a \in S \ A : q.state[a] = p.state[a] /\ q.duid[a] = p.duid[a]

LEMMA MoveTypes ==
    ASSUME NEW p \in Ip6Pools, NEW A \in SUBSET Addrs, NEW new \in [A -> Ip6States],
           NEW duid \in [A -> Duids \union {None, Cut}]
    PROVE  /\ MoveAll(p, A, new, duid) \in Ip6Pools
           /\ MovedTo(MoveAll(p, A, new, duid), p, Addrs, A, new, duid)
<1>1. IsFiniteSet(A)
  BY Zenon, FS_Subset, FiniteAssumption
<1>2. /\ Recount(p.available, "AVAILABLE", A, p.state, new) \in Nat
      /\ Recount(p.allocated, "ALLOCATED", A, p.state, new) \in Nat
      /\ Recount(p.reserved, "RESERVED", A, p.state, new) \in Nat
  BY Zenon, <1>1, RecountType DEF Ip6Pools
<1> QED BY Zenon, <1>2 DEF MoveAll, MovedTo, Ip6Pools

LEMMA PdMoveTypes ==
    ASSUME NEW p \in PdPools, NEW A \in SUBSET Prefixes, NEW new \in [A -> Ip6States],
           NEW duid \in [A -> Duids \union {None, Cut}]
    PROVE  /\ PdMoveAll(p, A, new, duid) \in PdPools
           /\ MovedTo(PdMoveAll(p, A, new, duid), p, Prefixes, A, new, duid)
<1>1. IsFiniteSet(A)
  BY Zenon, FS_Subset, FiniteAssumption
<1>2. /\ Recount(p.available, "AVAILABLE", A, p.state, new) \in Nat
      /\ Recount(p.allocated, "ALLOCATED", A, p.state, new) \in Nat
  BY Zenon, <1>1, RecountType DEF PdPools
<1> QED BY Zenon, <1>2 DEF PdMoveAll, MovedTo, PdPools

LEMMA MoveOneTypes ==
    ASSUME NEW p \in Ip6Pools, NEW a \in Addrs, NEW new \in Ip6States,
           NEW d \in Duids \union {None, Cut}
    PROVE  LET q == Move(p, a, new, d)
           IN  /\ q \in Ip6Pools /\ q.state[a] = new /\ q.duid[a] = d
               /\ \A b \in Addrs \ {a} : q.state[b] = p.state[b] /\ q.duid[b] = p.duid[b]
<1> DEFINE f == [x \in {a} |-> new]
           g == [x \in {a} |-> d]
<1>1. Move(p, a, new, d) = MoveAll(p, {a}, f, g) /\ {a} \in SUBSET Addrs
  BY Zenon DEF Move
<1>2. f[a] = new /\ g[a] = d /\ f \in [{a} -> Ip6States] /\ g \in [{a} -> Duids \union {None, Cut}]
  BY Zenon
<1> HIDE DEF f, g
<1>3. MoveAll(p, {a}, f, g) \in Ip6Pools /\ MovedTo(MoveAll(p, {a}, f, g), p, Addrs, {a}, f, g)
  BY Zenon, <1>1, <1>2, MoveTypes
<1> QED BY Zenon, <1>1, <1>2, <1>3 DEF MovedTo

LEMMA PdMoveOneTypes ==
    ASSUME NEW p \in PdPools, NEW a \in Prefixes, NEW new \in Ip6States,
           NEW d \in Duids \union {None, Cut}
    PROVE  LET q == PdMove(p, a, new, d)
           IN  /\ q \in PdPools /\ q.state[a] = new /\ q.duid[a] = d
               /\ \A b \in Prefixes \ {a} : q.state[b] = p.state[b] /\ q.duid[b] = p.duid[b]
<1> DEFINE f == [x \in {a} |-> new]
           g == [x \in {a} |-> d]
<1>1. PdMove(p, a, new, d) = PdMoveAll(p, {a}, f, g) /\ {a} \in SUBSET Prefixes
  BY Zenon DEF PdMove
<1>2. f[a] = new /\ g[a] = d /\ f \in [{a} -> Ip6States] /\ g \in [{a} -> Duids \union {None, Cut}]
  BY Zenon
<1> HIDE DEF f, g
<1>3. PdMoveAll(p, {a}, f, g) \in PdPools /\ MovedTo(PdMoveAll(p, {a}, f, g), p, Prefixes, {a}, f, g)
  BY Zenon, <1>1, <1>2, PdMoveTypes
<1> QED BY Zenon, <1>1, <1>2, <1>3 DEF MovedTo

(* A database and pools that changed together, with the file as it was. *)
Touched(s, u, K) ==
    /\ Well(u) /\ u.file = s.file /\ u.seen = s.seen /\ u.disk = s.disk /\ u.failed = s.failed
    /\ u.ip \in Ip6Pools /\ u.pd \in PdPools
    /\ Weaker(s.db, u.db, K)
    /\ \A k \in Keys : EntryKept(s, u, k)

LEMMA TouchedStays ==
    ASSUME NEW s, NEW u, NEW K, Ready(s), Touched(s, u, K), u.db = s.db
    PROVE  Ends(s, u, K)
  BY Zenon DEF Ends, Touched, Ready

LEMMA TouchedSaves ==
    ASSUME NEW s, NEW u, NEW K, Ready(s), Touched(s, u, K)
    PROVE  LET t == lease_v6_db_save(u)
           IN  Ends(s, t, K) /\ SavedTo(s, t, K) /\ t.db = u.db /\ t.ip = u.ip /\ t.pd = u.pd
<1> DEFINE t == lease_v6_db_save(u)
           f == Saved(u.db)
<1>0. /\ Well(u) /\ u.file = s.file /\ u.seen = s.seen /\ u.disk = s.disk /\ u.failed = s.failed
      /\ u.ip \in Ip6Pools /\ u.pd \in PdPools /\ DbOk(u.db) /\ FileOk(s.file) /\ (\A g \in s.seen : FileOk(g))
      /\ s.disk => ~ s.failed
  BY Zenon DEF Touched, Weaker, Ready
<1>1. t = IF u.disk THEN [u EXCEPT !.file = f, !.seen = @ \union {f}] ELSE [u EXCEPT !.failed = TRUE]
  BY Zenon DEF lease_v6_db_save, Saved
<1>2. FileOk(f)
  BY Zenon, <1>0, SavedReads
<1> HIDE DEF t, f
<1>3. /\ Well(t) /\ t.db = u.db /\ t.ip = u.ip /\ t.pd = u.pd /\ t.disk = s.disk
      /\ \/ s.disk /\ t.file = f /\ t.seen = s.seen \union {f} /\ t.failed = s.failed
         \/ ~ s.disk /\ t.file = s.file /\ t.seen = s.seen /\ t.failed
  BY Zenon, <1>0, <1>1 DEF Well
<1>4. Ready(t)
  BY Zenon, <1>0, <1>2, <1>3 DEF Ready
<1>5. SavedTo(s, t, K)
  BY Zenon, <1>3 DEF SavedTo, Touched, f
<1>6. \A k \in Keys : EntryKept(s, t, k)
  BY <1>3 DEF Touched, EntryKept, St, Ow
<1>7. Ends(s, t, K)
  BY Zenon, <1>3, <1>4, <1>5, <1>6 DEF Ends, Touched
<1> QED BY Zenon, <1>3, <1>5, <1>7 DEF t

LEMMA WeakerSelf ==
    ASSUME NEW d, DbOk(d), NEW K
    PROVE  Weaker(d, d, K)
  BY Zenon DEF Weaker, Active

(* The leases of J end. *)
Marking(d, J, state) == [k \in DOMAIN d |-> IF k \in J THEN Over(d[k], state) ELSE d[k]]

LEMMA WeakerMarking ==
    ASSUME NEW d, DbOk(d), NEW J, NEW K, J \subseteq K, NEW state \in Kept \ {"ACTIVE"}
    PROVE  Weaker(d, Marking(d, J, state), K)
<1> DEFINE e == Marking(d, J, state)
<1>1. DOMAIN e = DOMAIN d /\ \A k \in DOMAIN d : e[k] = IF k \in J THEN Over(d[k], state) ELSE d[k]
  BY Zenon DEF Marking
<1>2. \A k \in DOMAIN d : Over(d[k], state) \in KeptLeases /\ Over(d[k], state).state # "ACTIVE"
  BY Zenon DEF DbOk, KeptLeases, Over
<1>3. e = [k \in DOMAIN e |-> e[k]]
  BY Zenon DEF Marking
<1> HIDE DEF e
<1>4. DbOk(e)
  BY Zenon, <1>1, <1>2, <1>3 DEF DbOk
<1>5. Weaker(d, e, K)
  BY Zenon, <1>1, <1>2, <1>4 DEF Weaker, Active
<1> QED BY Zenon, <1>5 DEF e

-----------------------------------------------------------------------------
(* Every function is made of these steps. *)

LEMMA DbTouched ==
    ASSUME NEW s, Ready(s), NEW d, NEW K, Weaker(s.db, d, K)
    PROVE  LET u == [s EXCEPT !.db = d] IN Touched(s, u, K) /\ u.db = d
<1> DEFINE u == [s EXCEPT !.db = d]
<1>1. /\ Well(u) /\ u.db = d /\ u.ip = s.ip /\ u.pd = s.pd
      /\ u.file = s.file /\ u.seen = s.seen /\ u.disk = s.disk /\ u.failed = s.failed
  BY Zenon, DbFacts DEF Ready
<1> HIDE DEF u
<1>2. Touched(s, u, K)
  BY Zenon, <1>1 DEF Touched, Ready, EntryKept, St, Ow
<1> QED BY Zenon, <1>1, <1>2 DEF u

LEMMA SaveEnds ==
    ASSUME NEW s, Ready(s)
    PROVE  LET t == lease_v6_db_save(s)
           IN  Ends(s, t, {}) /\ SavedTo(s, t, {}) /\ t.db = s.db /\ t.ip = s.ip /\ t.pd = s.pd
<1>1. Weaker(s.db, s.db, {})
  BY Zenon, WeakerSelf DEF Ready
<1>2. Touched(s, s, {})
  BY Zenon, <1>1 DEF Touched, Ready, EntryKept
<1> QED BY Zenon, <1>2, TouchedSaves

(* The addresses of A get into conflict. *)
LEMMA ConflictEnds ==
    ASSUME NEW s, Ready(s), NEW A \in SUBSET Addrs
    PROVE  LET t == ip6_pool_mark_conflict(s, A)
           IN  /\ Ends(s, t, A) /\ t.pd = s.pd
               /\ \A a \in A : t.ip.state[a] = "CONFLICT"
               /\ \A a \in Addrs \ A : t.ip.state[a] = s.ip.state[a] /\ t.ip.duid[a] = s.ip.duid[a]
               /\ DOMAIN t.db = DOMAIN s.db
<1> DEFINE new == [a \in A |-> "CONFLICT"]
           own == [a \in A |-> s.ip.duid[a]]
           p == MoveAll(s.ip, A, new, own)
           v == [s EXCEPT !.ip = p]
           hit == A \cap DOMAIN v.db
           between == {Saved(Marking(v.db, {k \in hit : k <= n}, "ABANDONED")) : n \in hit}
           d == Marking(v.db, hit, "ABANDONED")
           u == [v EXCEPT !.db = d]
           saved == lease_v6_db_save(u)
           t == ip6_pool_mark_conflict(s, A)
<1>1. new \in [A -> Ip6States] /\ own \in [A -> Duids \union {None, Cut}] /\ \A a \in A : new[a] = "CONFLICT"
  BY Zenon DEF Ready, Ip6Pools, Ip6States
<1>2. /\ p \in Ip6Pools /\ \A a \in A : p.state[a] = "CONFLICT"
      /\ \A a \in Addrs \ A : p.state[a] = s.ip.state[a] /\ p.duid[a] = s.ip.duid[a]
  <2> HIDE DEF new, own
  <2>1. s.ip \in Ip6Pools
    BY Zenon DEF Ready
  <2>2. p \in Ip6Pools /\ MovedTo(p, s.ip, Addrs, A, new, own)
    BY Zenon, <1>1, <2>1, MoveTypes
  <2> QED BY Zenon, <1>1, <2>2 DEF MovedTo
<1>3. p = MoveAll(s.ip, A, [a \in A |-> "CONFLICT"], [a \in A |-> s.ip.duid[a]])
  BY Zenon
<1> HIDE DEF p, new, own
<1>4. /\ Well(v) /\ v.db = s.db /\ v.ip = p /\ v.pd = s.pd
      /\ v.file = s.file /\ v.seen = s.seen /\ v.disk = s.disk /\ v.failed = s.failed
  BY Zenon, IpFacts DEF Ready
<1>5. t = IF hit = {} THEN v ELSE IF v.disk THEN [saved EXCEPT !.seen = @ \union between] ELSE saved
  <2>1. t = lease_v6_mark_conflict(v, A)
    BY Zenon, <1>3 DEF ip6_pool_mark_conflict
  <2> HIDE DEF v, t
  <2> QED BY Zenon, <2>1 DEF lease_v6_mark_conflict, Marking, Saved
<1>6. \A J : J \subseteq A => Weaker(s.db, Marking(s.db, J, "ABANDONED"), A)
  BY Zenon, WeakerMarking DEF Ready, Kept
<1>7. Weaker(s.db, d, A) /\ \A f \in between : \E e : f = Saved(e) /\ Weaker(s.db, e, A)
  BY Zenon, <1>4, <1>6
<1>8. \A k \in DOMAIN d : d[k].state = "ACTIVE" => k \notin A
  BY OverFacts DEF Marking
<1>9. DOMAIN d = DOMAIN s.db
  BY Zenon, <1>4 DEF Marking
<1> HIDE DEF v, d, between
<1>10. /\ Well(u) /\ u.db = d /\ u.ip = p /\ u.pd = s.pd
       /\ u.file = s.file /\ u.seen = s.seen /\ u.disk = s.disk /\ u.failed = s.failed
  BY <1>4, DbFacts
<1> HIDE DEF u
<1>11. ASSUME NEW k \in Keys PROVE EntryKept(s, u, k)
  <2>1. CASE k \in A
    BY Zenon, <1>2, <1>8, <1>10, <2>1 DEF EntryKept, St, Active
  <2>2. CASE k \in Addrs \ A
    BY Zenon, <1>2, <1>10, <2>2 DEF EntryKept, St, Ow
  <2>3. CASE k \notin Addrs
    BY Zenon, <1>10, <2>3 DEF EntryKept, St, Ow
  <2> QED BY Zenon, <2>1, <2>2, <2>3
<1>12. Touched(s, u, A)
  BY Zenon, <1>2, <1>7, <1>10, <1>11 DEF Touched, Ready
<1>13. Ends(s, saved, A) /\ SavedTo(s, saved, A) /\ saved.db = d /\ saved.ip = p /\ saved.pd = s.pd
  BY Zenon, <1>10, <1>12, TouchedSaves
<1> HIDE DEF saved, hit, t
<1>14. CASE hit = {}
  <2>1. ASSUME NEW k \in Keys PROVE EntryKept(s, v, k)
    <3>1. CASE k \in A
      BY Zenon, <1>2, <1>4, <1>14, <3>1 DEF EntryKept, St, Active, hit
    <3>2. CASE k \in Addrs \ A
      BY Zenon, <1>2, <1>4, <3>2 DEF EntryKept, St, Ow
    <3>3. CASE k \notin Addrs
      BY Zenon, <1>4, <3>3 DEF EntryKept, St, Ow
    <3> QED BY Zenon, <3>1, <3>2, <3>3
  <2>2. Weaker(s.db, s.db, A)
    BY Zenon, WeakerSelf DEF Ready
  <2>3. Touched(s, v, A)
    BY Zenon, <1>2, <1>4, <2>1, <2>2 DEF Touched, Ready
  <2>4. Ends(s, v, A)
    BY Zenon, <1>4, <2>3, TouchedStays
  <2> QED BY Zenon, <1>2, <1>4, <1>5, <1>14, <2>4 DEF t
<1>15. CASE hit # {} /\ ~ v.disk
  BY Zenon, <1>2, <1>5, <1>9, <1>13, <1>15 DEF t
<1>16. CASE hit # {} /\ v.disk
  <2>1. t = [saved EXCEPT !.seen = @ \union between]
    BY Zenon, <1>5, <1>16
  <2>2. /\ Well(t) /\ t.db = d /\ t.ip = p /\ t.pd = s.pd /\ t.file = saved.file
        /\ t.seen = saved.seen \union between /\ t.disk = saved.disk /\ t.failed = saved.failed
    BY Zenon, <1>13, <2>1 DEF Ends, Ready, Well
  <2>3. \A f \in between : FileOk(f)
    BY Zenon, <1>7, SavedReads DEF Weaker
  <2>4. Ready(t)
    BY Zenon, <1>13, <2>2, <2>3 DEF Ends, Ready
  <2>5. s.disk
    BY Zenon, <1>4, <1>16
  <2>6. SavedTo(s, t, A)
    BY Zenon, <1>7, <1>13, <2>2, <2>5 DEF SavedTo
  <2>7. \A k \in Keys : EntryKept(s, t, k)
    BY Zenon, <1>10, <1>11, <2>2 DEF EntryKept, St, Ow
  <2>8. Ends(s, t, A)
    BY Zenon, <1>7, <1>13, <2>2, <2>4, <2>6, <2>7 DEF Ends
  <2> QED BY Zenon, <1>2, <1>9, <2>2, <2>8 DEF t
<1> QED BY Zenon, <1>14, <1>15, <1>16

(* An entry of the pool that has no active lease becomes available. *)
LEMMA GiveBackEnds ==
    ASSUME NEW s, Ready(s), NEW a \in Addrs, ~ Active(s.db, a)
    PROVE  Ends(s, [s EXCEPT !.ip = Move(@, a, "AVAILABLE", None)], {})
<1> DEFINE p == Move(s.ip, a, "AVAILABLE", None)
           u == [s EXCEPT !.ip = p]
<1>1. /\ p \in Ip6Pools /\ p.state[a] = "AVAILABLE"
      /\ \A b \in Addrs \ {a} : p.state[b] = s.ip.state[b] /\ p.duid[b] = s.ip.duid[b]
  BY MoveOneTypes DEF Ready, Ip6States
<1> HIDE DEF p
<1>2. /\ Well(u) /\ u.db = s.db /\ u.ip = p /\ u.pd = s.pd
      /\ u.file = s.file /\ u.seen = s.seen /\ u.disk = s.disk /\ u.failed = s.failed
  BY Zenon, IpFacts DEF Ready
<1> HIDE DEF u
<1>3. ASSUME NEW k \in Keys PROVE EntryKept(s, u, k)
  BY Zenon, <1>1, <1>2 DEF EntryKept, St, Ow
<1>4. Weaker(s.db, s.db, {})
  BY Zenon, WeakerSelf DEF Ready
<1>5. Touched(s, u, {})
  BY Zenon, <1>1, <1>2, <1>3, <1>4 DEF Touched, Ready
<1>6. Ends(s, u, {})
  BY Zenon, <1>2, <1>5, TouchedStays
<1> QED BY Zenon, <1>6 DEF u, p

LEMMA PdGiveBackEnds ==
    ASSUME NEW s, Ready(s), NEW p \in Prefixes, ~ Active(s.db, p)
    PROVE  LET t == [s EXCEPT !.pd = PdMove(@, p, "AVAILABLE", None)]
           IN  Ends(s, t, {}) /\ t.db = s.db
<1> DEFINE q == PdMove(s.pd, p, "AVAILABLE", None)
           u == [s EXCEPT !.pd = q]
<1>0. p \notin Addrs
  BY Zenon, KeysAssumption
<1>1. /\ q \in PdPools /\ q.state[p] = "AVAILABLE"
      /\ \A b \in Prefixes \ {p} : q.state[b] = s.pd.state[b] /\ q.duid[b] = s.pd.duid[b]
  BY PdMoveOneTypes DEF Ready, Ip6States
<1> HIDE DEF q
<1>2. /\ Well(u) /\ u.db = s.db /\ u.ip = s.ip /\ u.pd = q
      /\ u.file = s.file /\ u.seen = s.seen /\ u.disk = s.disk /\ u.failed = s.failed
  BY Zenon, PdFacts DEF Ready
<1> HIDE DEF u
<1>3. ASSUME NEW k \in Keys PROVE EntryKept(s, u, k)
  BY Zenon, <1>0, <1>1, <1>2 DEF EntryKept, St, Ow, Keys
<1>4. Weaker(s.db, s.db, {})
  BY Zenon, WeakerSelf DEF Ready
<1>5. Touched(s, u, {})
  BY Zenon, <1>1, <1>2, <1>3, <1>4 DEF Touched, Ready
<1>6. Ends(s, u, {})
  BY Zenon, <1>2, <1>5, TouchedStays
<1> QED BY Zenon, <1>2, <1>6 DEF u, q

(* The database is changed and saved. *)
LEMMA MarkingSaves ==
    ASSUME NEW s, Ready(s), NEW d, NEW K, Weaker(s.db, d, K)
    PROVE  LET t == lease_v6_db_save([s EXCEPT !.db = d])
           IN  Ends(s, t, K) /\ SavedTo(s, t, K) /\ t.db = d
<1> DEFINE u == [s EXCEPT !.db = d]
<1>1. Touched(s, u, K) /\ u.db = d
  BY Zenon, DbTouched
<1> HIDE DEF u
<1>2. Ends(s, lease_v6_db_save(u), K) /\ SavedTo(s, lease_v6_db_save(u), K) /\ lease_v6_db_save(u).db = d
  BY Zenon, <1>1, TouchedSaves
<1> QED BY Zenon, <1>2 DEF u

LEMMA NothingEnds ==
    ASSUME NEW s, Ready(s), NEW K
    PROVE  Ends(s, s, K)
<1>1. Weaker(s.db, s.db, K)
  BY Zenon, WeakerSelf DEF Ready
<1> QED BY Zenon, <1>1 DEF Ends, EntryKept

LEMMA EndOne ==
    ASSUME NEW d, DbOk(d), NEW k \in DOMAIN d
    PROVE  Weaker(d, WithLease(d, k, Over(d[k], "RELEASED")), {k})
<1>1. WithLease(d, k, Over(d[k], "RELEASED")) = Marking(d, {k}, "RELEASED")
  BY Zenon DEF WithLease, Marking
<1>2. Weaker(d, Marking(d, {k}, "RELEASED"), {k})
  BY Zenon, WeakerMarking DEF Kept
<1> QED BY Zenon, <1>1, <1>2

LEMMA ReleaseEnds ==
    ASSUME NEW s, Ready(s), NEW a
    PROVE  Ends(s, lease_v6_release_ip(s, a), {a}) /\ Ends(s, lease_v6_release_prefix(s, a), {a})
<1> DEFINE d == WithLease(s.db, a, Over(s.db[a], "RELEASED"))
<1>1. ASSUME a \in DOMAIN s.db PROVE Ends(s, lease_v6_db_save([s EXCEPT !.db = d]), {a})
  <2>1. Weaker(s.db, d, {a})
    BY Zenon, <1>1, EndOne DEF Ready
  <2> HIDE DEF d
  <2> QED BY Zenon, <2>1, MarkingSaves
<1>2. Ends(s, s, {a})
  BY Zenon, NothingEnds
<1> QED BY Zenon, <1>1, <1>2 DEF lease_v6_release_ip, lease_v6_release_prefix

LEMMA ExpireEnds ==
    ASSUME NEW s, Ready(s)
    PROVE  Ends(s, lease_v6_mark_expired_older(s), Overdue(s.db))
<1> DEFINE d == Marking(s.db, Overdue(s.db), "EXPIRED")
<1>1. lease_v6_mark_expired_older(s)
        = IF Overdue(s.db) # {} THEN lease_v6_db_save([s EXCEPT !.db = d]) ELSE s
  BY Zenon DEF lease_v6_mark_expired_older, Marking
<1>2. Weaker(s.db, d, Overdue(s.db))
  BY Zenon, WeakerMarking DEF Ready, Kept
<1> HIDE DEF d
<1>3. Ends(s, lease_v6_db_save([s EXCEPT !.db = d]), Overdue(s.db)) /\ Ends(s, s, Overdue(s.db))
  BY Zenon, <1>2, MarkingSaves, NothingEnds
<1> QED BY Zenon, <1>1, <1>3

LEMMA RemoveEnds ==
    ASSUME NEW s, Ready(s)
    PROVE  Ends(s, lease_v6_cleanup(s), {})
<1> DEFINE d == [k \in DOMAIN s.db \ Ended(s.db) |-> s.db[k]]
<1>1. lease_v6_cleanup(s) = IF Ended(s.db) # {} THEN lease_v6_db_save([s EXCEPT !.db = d]) ELSE s
  BY Zenon DEF lease_v6_cleanup
<1>2. DOMAIN d = DOMAIN s.db \ Ended(s.db) /\ (\A k \in DOMAIN d : d[k] = s.db[k]) /\ d = [k \in DOMAIN d |-> d[k]]
  BY Zenon
<1>3. DOMAIN s.db \subseteq Keys /\ \A k \in DOMAIN s.db : s.db[k] \in KeptLeases
  BY Zenon DEF Ready, DbOk
<1>4. \A k : Active(s.db, k) => k \notin Ended(s.db)
  BY Zenon DEF Active, Ended
<1> HIDE DEF d
<1>5. DbOk(d)
  BY Zenon, <1>2, <1>3 DEF DbOk
<1>6. Weaker(s.db, d, {})
  BY Zenon, <1>2, <1>4, <1>5 DEF Weaker, Active
<1>7. Ends(s, lease_v6_db_save([s EXCEPT !.db = d]), {}) /\ Ends(s, s, {})
  BY Zenon, <1>6, MarkingSaves, NothingEnds
<1> QED BY Zenon, <1>1, <1>7

(* The pool is brought in line with the database, and the database saved. *)
LEMMA SyncedPool ==
    ASSUME NEW p \in Ip6Pools, NEW d, DbOk(d)
    PROVE  LET q == ip6_pool_sync_with_leases(p, d)
           IN  /\ q \in Ip6Pools
               /\ \A a \in Addrs \cap DOMAIN d :
                    IF d[a].state = "ACTIVE" THEN q.state[a] = "ALLOCATED" /\ q.duid[a] = Synced(d[a].duid)
                                             ELSE q.state[a] \notin {"ALLOCATED", "RESERVED"}
               /\ \A a \in Addrs \ DOMAIN d : q.state[a] = p.state[a] /\ q.duid[a] = p.duid[a]
<1> DEFINE A == DOMAIN d \cap Addrs
           new == [a \in A |-> ip6_state_from_lease_state(d[a].state)]
           owner == [a \in A |-> IF new[a] \in {"ALLOCATED", "RESERVED"} THEN Synced(d[a].duid) ELSE None]
           q == ip6_pool_sync_with_leases(p, d)
<1>1. q = MoveAll(p, A, new, owner)
  BY Zenon DEF ip6_pool_sync_with_leases
<1>2. \A a \in A : d[a].state \in Kept /\ d[a].duid \in Duids
  BY Zenon DEF DbOk, KeptLeases
<1>3. \A a \in A : /\ new[a] \in Ip6States
                   /\ d[a].state = "ACTIVE" => new[a] = "ALLOCATED"
                   /\ d[a].state # "ACTIVE" => new[a] \in {"AVAILABLE", "CONFLICT"}
  BY Zenon, <1>2 DEF ip6_state_from_lease_state, Kept, Ip6States
<1>4. \A a \in A : /\ owner[a] \in Duids \union {None, Cut}
                   /\ d[a].state = "ACTIVE" => owner[a] = Synced(d[a].duid)
  BY Zenon, <1>2, <1>3 DEF Synced
<1>5. A \in SUBSET Addrs /\ new = [a \in A |-> new[a]] /\ owner = [a \in A |-> owner[a]]
  BY Zenon
<1>6. Addrs \cap DOMAIN d = A /\ Addrs \ DOMAIN d = Addrs \ A
  BY Zenon
<1> HIDE DEF A, new, owner, q
<1>7. new \in [A -> Ip6States] /\ owner \in [A -> Duids \union {None, Cut}]
  BY Zenon, <1>3, <1>4, <1>5
<1>8. /\ q \in Ip6Pools
      /\ \A a \in A : q.state[a] = new[a] /\ q.duid[a] = owner[a]
      /\ \A a \in Addrs \ A : q.state[a] = p.state[a] /\ q.duid[a] = p.duid[a]
  <2>1. MoveAll(p, A, new, owner) \in Ip6Pools /\ MovedTo(MoveAll(p, A, new, owner), p, Addrs, A, new, owner)
    BY Zenon, <1>5, <1>7, MoveTypes
  <2> QED BY Zenon, <1>1, <2>1 DEF MovedTo
<1>9. \A a \in A : IF d[a].state = "ACTIVE" THEN q.state[a] = "ALLOCATED" /\ q.duid[a] = Synced(d[a].duid)
                                            ELSE q.state[a] \notin {"ALLOCATED", "RESERVED"}
  BY Zenon, <1>3, <1>4, <1>8
<1> QED BY Zenon, <1>6, <1>8, <1>9 DEF q

LEMMA SyncEnds ==
    ASSUME NEW s, Ready(s)
    PROVE  Ends(s, lease_v6_db_save([s EXCEPT !.ip = ip6_pool_sync_with_leases(@, s.db)]), {})
<1> DEFINE q == ip6_pool_sync_with_leases(s.ip, s.db)
           u == [s EXCEPT !.ip = q]
<1>1. /\ q \in Ip6Pools
      /\ \A a \in Addrs \cap DOMAIN s.db :
           IF s.db[a].state = "ACTIVE" THEN q.state[a] = "ALLOCATED" /\ q.duid[a] = Synced(s.db[a].duid)
                                       ELSE q.state[a] \notin {"ALLOCATED", "RESERVED"}
      /\ \A a \in Addrs \ DOMAIN s.db : q.state[a] = s.ip.state[a] /\ q.duid[a] = s.ip.duid[a]
  BY SyncedPool DEF Ready
<1> HIDE DEF q
<1>2. /\ Well(u) /\ u.db = s.db /\ u.ip = q /\ u.pd = s.pd
      /\ u.file = s.file /\ u.seen = s.seen /\ u.disk = s.disk /\ u.failed = s.failed
  BY Zenon, IpFacts DEF Ready
<1> HIDE DEF u
<1>3. \A k \in DOMAIN s.db : s.db[k].duid \in Duids
  BY Zenon DEF Ready, DbOk, KeptLeases
<1>4. ASSUME NEW k \in Keys PROVE EntryKept(s, u, k)
  <2>1. CASE k \in Addrs \cap DOMAIN s.db /\ s.db[k].state = "ACTIVE"
    <3>1. Names(Synced(s.db[k].duid), s.db[k].duid)
      BY Zenon, <1>3, <2>1, OwnerTypes
    <3> QED BY Zenon, <1>1, <1>2, <2>1, <3>1 DEF EntryKept, St, Ow, Active
  <2>2. CASE k \in Addrs \cap DOMAIN s.db /\ s.db[k].state # "ACTIVE"
    BY Zenon, <1>1, <1>2, <2>2 DEF EntryKept, St, Active
  <2>3. CASE k \in Addrs \ DOMAIN s.db \/ k \notin Addrs
    BY Zenon, <1>1, <1>2, <2>3 DEF EntryKept, St, Ow
  <2> QED BY Zenon, <2>1, <2>2, <2>3
<1>5. Weaker(s.db, s.db, {})
  BY Zenon, WeakerSelf DEF Ready
<1>6. Touched(s, u, {})
  BY Zenon, <1>1, <1>2, <1>4, <1>5 DEF Touched, Ready
<1>7. Ends(s, lease_v6_db_save(u), {})
  BY Zenon, <1>6, TouchedSaves
<1> QED BY Zenon, <1>7 DEF u, q

LEMMA AddFacts ==
    ASSUME NEW s, Ready(s), NEW k \in Keys, NEW d \in Duids
    PROVE  LET t == AddLease(s, k, d)
           IN  /\ Ready(t) /\ t.db = WithLease(s.db, k, Lease(d)) /\ t.ip = s.ip /\ t.pd = s.pd
               /\ t.disk = s.disk /\ AppendedTo(s, t, k, Line(d))
<1> DEFINE new == WithLease(s.db, k, Lease(d))
           u == [s EXCEPT !.db = new]
           f(torn) == Longer(s.file, k, Line(d), torn)
           torns == {"no", "body"} \union (IF k \in Prefixes THEN {"head"} ELSE {})
           t == AddLease(s, k, d)
<1>1. t = lease_v6_db_append(u, k)
  BY Zenon DEF AddLease, Lease
<1>2. Lease(d) \in KeptLeases /\ Line(d) \in Lines /\ Line(d).duid = d /\ Line(d).state = "ACTIVE"
      /\ Lease(d).duid = d /\ Lease(d).state = "ACTIVE"
  BY Zenon DEF Lease, Line, KeptLeases, Lines, Kept
<1>3. /\ DOMAIN new = DOMAIN s.db \union {k} /\ new[k] = Lease(d)
      /\ \A i \in DOMAIN s.db \ {k} : new[i] = s.db[i]
      /\ new = [i \in DOMAIN new |-> new[i]]
  BY Zenon DEF WithLease
<1> HIDE DEF new
<1>4. DbOk(new)
  <2>1. DOMAIN s.db \subseteq Keys /\ \A i \in DOMAIN s.db : s.db[i] \in KeptLeases
    BY Zenon DEF Ready, DbOk
  <2> QED BY Zenon, <1>2, <1>3, <2>1 DEF DbOk
<1>5. /\ Well(u) /\ u.db = new /\ u.ip = s.ip /\ u.pd = s.pd
      /\ u.file = s.file /\ u.seen = s.seen /\ u.disk = s.disk /\ u.failed = s.failed
  BY Zenon, DbFacts DEF Ready
<1> HIDE DEF u
<1>6. \A torn : [base |-> u.file.base, log |-> Append(u.file.log, Block(u, k, torn))] = f(torn)
  BY Zenon, <1>2, <1>3, <1>5 DEF Block, Longer
<1> DEFINE F == {f(torn) : torn \in torns}
           one == f("no")
<1>7. t = IF u.disk THEN [u EXCEPT !.file = one, !.seen = @ \union F] ELSE [u EXCEPT !.failed = TRUE]
  <2> DEFINE g(torn) == [base |-> u.file.base, log |-> Append(u.file.log, Block(u, k, torn))]
  <2>1. t = IF u.disk THEN [u EXCEPT !.file = g("no"), !.seen = @ \union {g(torn) : torn \in torns}]
                      ELSE [u EXCEPT !.failed = TRUE]
    BY Zenon, <1>1 DEF lease_v6_db_append
  <2>2. \A torn : g(torn) = f(torn)
    BY Zenon, <1>6
  <2> HIDE DEF g, f, t, torns
  <2>3. g("no") = f("no") /\ {g(torn) : torn \in torns} = {f(torn) : torn \in torns}
    BY Zenon, <2>2
  <2> QED BY Zenon, <2>1, <2>3
<1>8. \A torn \in {"no", "head", "body"} : FileOk(f(torn))
  BY Zenon, <1>2, LongerReads DEF Ready, ReadsMore
<1>9. FileOk(one) /\ \A g \in F : FileOk(g) /\ \E torn \in {"no", "head", "body"} : g = f(torn)
  BY Zenon, <1>8
<1> HIDE DEF t, F, one, torns
<1>10. /\ Well(t) /\ t.db = new /\ t.ip = s.ip /\ t.pd = s.pd /\ t.disk = s.disk
       /\ \/ s.disk /\ t.file = one /\ t.seen = s.seen \union F /\ t.failed = s.failed
          \/ ~ s.disk /\ t.file = s.file /\ t.seen = s.seen /\ t.failed
  BY Zenon, <1>5, <1>7 DEF Well
<1>11. Ready(t)
  BY Zenon, <1>4, <1>9, <1>10 DEF Ready
<1>12. AppendedTo(s, t, k, Line(d))
  BY Zenon, <1>9, <1>10 DEF AppendedTo, one
<1> QED BY Zenon, <1>10, <1>11, <1>12 DEF t, new

(* v is s with the entry of k taken for d. *)
LEMMA GrantMade ==
    ASSUME NEW s, NEW v, Ready(v), v.db = s.db, v.file = s.file, v.seen = s.seen, v.disk = s.disk,
           v.failed = s.failed, NEW k \in Keys, NEW d \in Duids,
           St(v, k) = "ALLOCATED", Names(Ow(v, k), d),
           \A j \in Keys \ {k} : St(v, j) = St(s, j) /\ Ow(v, j) = Ow(s, j),
           Ground(s, k, d)
    PROVE  Grants(s, AddLease(v, k, d), k, d)
<1> DEFINE t == AddLease(v, k, d)
<1>1. /\ Ready(t) /\ t.db = WithLease(v.db, k, Lease(d)) /\ t.ip = v.ip /\ t.pd = v.pd
      /\ t.disk = v.disk /\ AppendedTo(v, t, k, Line(d))
  BY Zenon, AddFacts
<1> HIDE DEF t
<1>2. AppendedTo(s, t, k, Line(d))
  BY Zenon, <1>1 DEF AppendedTo
<1>3. \A j \in Keys : St(t, j) = St(v, j) /\ Ow(t, j) = Ow(v, j)
  BY Zenon, <1>1 DEF St, Ow
<1>4. Grants(s, t, k, d)
  BY Zenon, <1>1, <1>2, <1>3 DEF Grants
<1> QED BY Zenon, <1>4 DEF t

LEMMA TakeKinds ==
    ASSUME NEW s, Ready(s), NEW a \in Addrs, NEW d \in Duids, Ground(s, a, d)
    PROVE  LET r == Take(s, a, d)
           IN  \/ HasRoom(s, a) /\ r.got = a /\ Grants(s, r.s, a, d)
               \/ ~ HasRoom(s, a) /\ r.got = None /\ Ends(s, r.s, {})
<1> DEFINE p == Move(s.ip, a, "ALLOCATED", Stored(d))
           v == [s EXCEPT !.ip = p]
           r == Take(s, a, d)
<1>1. r = IF HasRoom(s, a) THEN Given(AddLease(v, a, d), a)
                           ELSE Refused([s EXCEPT !.ip = Move(@, a, "AVAILABLE", None)])
  BY Zenon DEF Take, lease_v6_add_ia_na
<1>2. CASE HasRoom(s, a)
  <2>1. /\ p \in Ip6Pools /\ p.state[a] = "ALLOCATED" /\ p.duid[a] = Stored(d)
        /\ \A b \in Addrs \ {a} : p.state[b] = s.ip.state[b] /\ p.duid[b] = s.ip.duid[b]
    <3> DEFINE o == Stored(d)
    <3>1. s.ip \in Ip6Pools /\ "ALLOCATED" \in Ip6States /\ o \in Duids \union {None, Cut}
      BY Zenon, OwnerTypes DEF Ready, Ip6States
    <3> HIDE DEF o
    <3> QED BY <3>1, MoveOneTypes DEF o
  <2> HIDE DEF p
  <2>2. /\ Well(v) /\ v.db = s.db /\ v.ip = p /\ v.pd = s.pd
        /\ v.file = s.file /\ v.seen = s.seen /\ v.disk = s.disk /\ v.failed = s.failed
    BY Zenon, IpFacts DEF Ready
  <2> HIDE DEF v
  <2>3. Ready(v)
    BY Zenon, <2>1, <2>2 DEF Ready
  <2>4. St(v, a) = "ALLOCATED" /\ Names(Ow(v, a), d) /\ a \in Keys
    BY Zenon, <2>1, <2>2, OwnerTypes DEF St, Ow, Keys
  <2>5. \A j \in Keys \ {a} : St(v, j) = St(s, j) /\ Ow(v, j) = Ow(s, j)
    BY Zenon, <2>1, <2>2 DEF St, Ow
  <2>6. Grants(s, AddLease(v, a, d), a, d)
    BY Zenon, <2>2, <2>3, <2>4, <2>5, GrantMade
  <2> QED BY <1>1, <1>2, <2>6, GivenFacts
<1>3. CASE ~ HasRoom(s, a)
  <2>1. ~ Active(s.db, a)
    BY Zenon, <1>3 DEF HasRoom, Active
  <2>2. Ends(s, [s EXCEPT !.ip = Move(@, a, "AVAILABLE", None)], {})
    BY Zenon, <2>1, GiveBackEnds
  <2> QED BY Zenon, <1>1, <1>3, <2>2, GivenFacts
<1> QED BY Zenon, <1>2, <1>3

(* ip6_pool_allocate: nothing was given, or an address the database has no room for,
   or an address is granted, after others got into conflict. *)
Spare(s, A, d) ==
    \A a \in A : /\ a \in Addrs
                 /\ s.ip.state[a] = "AVAILABLE" \/ (d \in DOMAIN Hosts /\ Hosts[d] = a)

Allocates(s, r, d) ==
    \/ r.got = None /\ \E A : Spare(s, A, d) /\ Ends(s, r.s, A)
    \/ r.got \in Addrs /\ r.s = s /\ r.got \notin DOMAIN s.db
    \/ /\ r.got \in Addrs
       /\ \E A \in SUBSET Free(s.ip) : \E u : Ends(s, u, A) /\ Grants(u, r.s, r.got, d)

LEMMA OwnedIs ==
    ASSUME NEW s, NEW d
    PROVE  \A a : a \in Owned(s.ip, d) <=> a \in Addrs /\ Owns(s, d, a)
  BY Zenon DEF Owned, Owns, St, Ow, Keys

LEMMA ConflictKinds ==
    ASSUME NEW s, Ready(s), NEW A \in SUBSET Addrs, NEW d, Spare(s, A, d)
    PROVE  Allocates(s, Refused(ip6_pool_mark_conflict(s, A)), d)
<1> DEFINE t == ip6_pool_mark_conflict(s, A)
<1>1. Ends(s, t, A)
  BY Zenon, ConflictEnds
<1> HIDE DEF t
<1>2. Refused(t).got = None /\ Refused(t).s = t
  BY Zenon, GivenFacts
<1> QED BY Zenon, <1>1, <1>2 DEF Allocates, t

LEMMA TakeAllocates ==
    ASSUME NEW s, Ready(s), NEW a \in Addrs, NEW d \in Duids, Ground(s, a, d)
    PROVE  Allocates(s, Take(s, a, d), d)
<1> DEFINE r == Take(s, a, d)
<1>1. \/ r.got = a /\ Grants(s, r.s, a, d)
      \/ r.got = None /\ Ends(s, r.s, {})
  BY Zenon, TakeKinds
<1> HIDE DEF r
<1>2. Ends(s, s, {}) /\ Spare(s, {}, d) /\ {} \in SUBSET Free(s.ip)
  BY Zenon, NothingEnds DEF Spare
<1>3. Allocates(s, r, d)
  BY Zenon, <1>1, <1>2 DEF Allocates
<1> QED BY Zenon, <1>3 DEF r

LEMMA AllocateKinds ==
    ASSUME NEW s, Ready(s), NEW d \in Duids, NEW req, NEW alive
    PROVE  Allocates(s, ip6_pool_allocate(s, d, req, alive), d)
<1>1. CASE d \in DOMAIN Hosts /\ Hosts[d] \in Addrs
  <2>1. Ground(s, Hosts[d], d) /\ Spare(s, {Hosts[d]}, d)
    BY Zenon, <1>1 DEF Ground, Spare
  <2>2. Allocates(s, Refused(ip6_pool_mark_conflict(s, {Hosts[d]})), d) /\ Allocates(s, Take(s, Hosts[d], d), d)
    BY Zenon, <1>1, <2>1, ConflictKinds, TakeAllocates
  <2>3. Allocates(s, StaticHost(s, d, alive), d)
    BY Zenon, <2>2 DEF StaticHost
  <2> QED BY Zenon, <1>1, <2>3 DEF ip6_pool_allocate
<1>2. CASE ~(d \in DOMAIN Hosts /\ Hosts[d] \in Addrs) /\ Owned(s.ip, d) # {}
  <2> DEFINE a == Min(Owned(s.ip, d))
             r == Refresh(s, d)
  <2>1. Owned(s.ip, d) \in SUBSET Nat
    BY Zenon, KeysAssumption DEF Owned
  <2>2. a \in Owned(s.ip, d)
    BY Zenon, <1>2, <2>1, FirstOf
  <2>3. r = Given(IF HasRoom(s, a) THEN AddLease(s, a, d) ELSE s, a)
    BY Zenon DEF Refresh, lease_v6_add_ia_na
  <2> HIDE DEF a, r
  <2>4. a \in Addrs /\ a \in Keys /\ Owns(s, d, a)
    BY Zenon, <2>2, OwnedIs DEF Keys
  <2>5. Names(Ow(s, a), d) /\ Ground(s, a, d) /\ St(s, a) = "ALLOCATED"
    BY Zenon, <2>4 DEF Names, Ground, Owns
  <2>6. Grants(s, AddLease(s, a, d), a, d)
    BY Zenon, <2>4, <2>5, GrantMade
  <2>7. r.got = a /\ r.s = IF HasRoom(s, a) THEN AddLease(s, a, d) ELSE s
    BY Zenon, <2>3, GivenFacts
  <2>8. ~ HasRoom(s, a) => a \notin DOMAIN s.db
    BY Zenon DEF HasRoom
  <2>9. Ends(s, s, {}) /\ {} \in SUBSET Free(s.ip)
    BY Zenon, NothingEnds
  <2>10. Allocates(s, r, d)
    BY Zenon, <2>4, <2>6, <2>7, <2>8, <2>9 DEF Allocates
  <2> QED BY Zenon, <1>2, <2>10 DEF ip6_pool_allocate, r
<1>3. ASSUME Owned(s.ip, d) = {}, NEW a \in Free(s.ip)
      PROVE  a \in Addrs /\ Ground(s, a, d) /\ Spare(s, {a}, d)
  <2>1. a \in Addrs /\ St(s, a) = "AVAILABLE" /\ s.ip.state[a] = "AVAILABLE"
    BY Zenon DEF Free, St
  <2>2. \A j \in Keys : SameKind(j, a) => ~ Owns(s, d, j)
    BY Zenon, <1>3, <2>1, OwnedIs DEF SameKind
  <2> QED BY Zenon, <2>1, <2>2 DEF Ground, Spare
<1>4. CASE ~(d \in DOMAIN Hosts /\ Hosts[d] \in Addrs) /\ Owned(s.ip, d) = {} /\ req \in Free(s.ip)
  <2>1. req \in Addrs /\ Ground(s, req, d) /\ Spare(s, {req}, d)
    BY Zenon, <1>3, <1>4
  <2>2. Allocates(s, Refused(ip6_pool_mark_conflict(s, {req})), d) /\ Allocates(s, Take(s, req, d), d)
    BY Zenon, <2>1, ConflictKinds, TakeAllocates
  <2>3. Allocates(s, Requested(s, d, req, alive), d)
    BY Zenon, <2>2 DEF Requested
  <2> QED BY Zenon, <1>4, <2>3 DEF ip6_pool_allocate
<1>5. CASE ~(d \in DOMAIN Hosts /\ Hosts[d] \in Addrs) /\ Owned(s.ip, d) = {} /\ req \notin Free(s.ip)
  <2> DEFINE good == {a \in Free(s.ip) \ alive : HasRoom(s, a)}
             tried == {a \in Free(s.ip) : good = {} \/ a < Min(good)}
             A == tried \cap alive
             u == ip6_pool_mark_conflict(s, A)
             r == FirstFree(s, d, alive)
  <2>1. r = IF good = {} THEN Refused(u) ELSE Take(u, Min(good), d)
    BY Zenon DEF FirstFree
  <2>2. A \in SUBSET Free(s.ip) /\ A \in SUBSET Addrs /\ A \cap good = {} /\ good \in SUBSET Free(s.ip)
    BY Zenon DEF Free
  <2>3. \A a \in good : HasRoom(s, a)
    BY Zenon
  <2> HIDE DEF A, good, tried
  <2>4. Spare(s, A, d)
    BY Zenon, <2>2 DEF Spare, Free
  <2>5. Allocates(s, Refused(u), d)
    BY Zenon, <2>2, <2>4, ConflictKinds
  <2>6. /\ Ends(s, u, A) /\ u.pd = s.pd
        /\ \A a \in A : u.ip.state[a] = "CONFLICT"
        /\ \A a \in Addrs \ A : u.ip.state[a] = s.ip.state[a] /\ u.ip.duid[a] = s.ip.duid[a]
        /\ DOMAIN u.db = DOMAIN s.db
    BY Zenon, <2>2, ConflictEnds
  <2> HIDE DEF u, r
  <2>7. CASE good # {}
    <3> DEFINE a == Min(good)
    <3>1. good \in SUBSET Nat
      BY Zenon, <2>2, KeysAssumption DEF Free
    <3>2. a \in good
      BY Zenon, <2>7, <3>1, FirstOf
    <3> HIDE DEF a
    <3>3. a \in Free(s.ip) /\ a \in Addrs \ A /\ HasRoom(s, a)
      BY Zenon, <2>2, <2>3, <3>2 DEF Free
    <3>4. HasRoom(u, a)
      BY Zenon, <2>6, <3>3 DEF HasRoom
    <3>5. St(u, a) = "AVAILABLE"
      BY Zenon, <2>6, <3>3 DEF St, Free
    <3>6. ASSUME NEW j \in Keys, SameKind(j, a), Owns(u, d, j) PROVE FALSE
      <4>1. j \in Addrs \ A
        BY Zenon, <2>6, <3>3, <3>6 DEF SameKind, Owns, St
      <4>2. j \in Owned(s.ip, d)
        BY Zenon, <2>6, <3>6, <4>1 DEF Owned, Owns, St, Ow
      <4> QED BY Zenon, <1>5, <4>2
    <3>7. Ground(u, a, d)
      BY Zenon, <3>5, <3>6 DEF Ground
    <3>8. Ready(u)
      BY Zenon, <2>6 DEF Ends
    <3>9. Take(u, a, d).got = a /\ Grants(u, Take(u, a, d).s, a, d)
      BY Zenon, <3>3, <3>4, <3>7, <3>8, TakeKinds
    <3>10. r = Take(u, a, d)
      BY Zenon, <2>1, <2>7 DEF a
    <3>11. Allocates(s, r, d)
      BY Zenon, <2>2, <2>6, <3>3, <3>9, <3>10 DEF Allocates
    <3> QED BY Zenon, <1>5, <3>11 DEF ip6_pool_allocate, r
  <2>8. CASE good = {}
    <3>1. r = Refused(u)
      BY Zenon, <2>1, <2>8
    <3>2. Allocates(s, r, d)
      BY Zenon, <2>5, <3>1
    <3> QED BY Zenon, <1>5, <3>2 DEF ip6_pool_allocate, r
  <2> QED BY Zenon, <2>7, <2>8
<1> QED BY Zenon, <1>1, <1>2, <1>4, <1>5

(* pd_pool_allocate *)
PdAllocates(s, r, d) ==
    \/ r.got = None /\ Ends(s, r.s, {})
    \/ r.got \in Prefixes /\ r.s = s /\ r.got \notin DOMAIN s.db
    \/ r.got \in Prefixes /\ \E u : Grants(s, u, r.got, d) /\ Ends(u, r.s, {})

LEMMA PdAllocateKinds ==
    ASSUME NEW s, Ready(s), NEW d \in Duids
    PROVE  PdAllocates(s, pd_pool_allocate(s, d), d)
<1>0. Prefixes \subseteq Nat /\ \A p \in Prefixes : p \in Keys /\ p \notin Addrs
  BY Zenon, KeysAssumption DEF Keys
<1>1. CASE PdOwned(s.pd, d) # {}
  <2> DEFINE p == Min(PdOwned(s.pd, d))
             r == PdRefresh(s, d)
  <2>1. PdOwned(s.pd, d) \in SUBSET Nat
    BY Zenon, <1>0 DEF PdOwned
  <2>2. p \in PdOwned(s.pd, d)
    BY Zenon, <1>1, <2>1, FirstOf
  <2>3. r = Given(IF HasRoom(s, p) THEN AddLease(s, p, d) ELSE s, p)
    BY Zenon DEF PdRefresh, lease_v6_add_ia_pd
  <2> HIDE DEF p, r
  <2>4. p \in Prefixes /\ p \in Keys /\ Owns(s, d, p)
    BY Zenon, <1>0, <2>2 DEF PdOwned, Owns, St, Ow
  <2>5. Names(Ow(s, p), d) /\ Ground(s, p, d) /\ St(s, p) = "ALLOCATED"
    BY Zenon, <2>4 DEF Names, Ground, Owns
  <2>6. Grants(s, AddLease(s, p, d), p, d)
    BY Zenon, <2>4, <2>5, GrantMade
  <2>7. r.got = p /\ r.s = IF HasRoom(s, p) THEN AddLease(s, p, d) ELSE s
    BY Zenon, <2>3, GivenFacts
  <2>8. ~ HasRoom(s, p) => p \notin DOMAIN s.db
    BY Zenon DEF HasRoom
  <2>9. Ends(AddLease(s, p, d), AddLease(s, p, d), {})
    BY Zenon, <2>6, NothingEnds DEF Grants
  <2>10. PdAllocates(s, r, d)
    BY Zenon, <2>4, <2>6, <2>7, <2>8, <2>9 DEF PdAllocates
  <2> QED BY Zenon, <1>1, <2>10 DEF pd_pool_allocate, r
<1>2. CASE PdOwned(s.pd, d) = {} /\ PdFree(s.pd) = {}
  <2>1. pd_pool_allocate(s, d) = Refused(s)
    BY Zenon, <1>2 DEF pd_pool_allocate, PdFirstFree
  <2>2. Ends(s, s, {})
    BY Zenon, NothingEnds
  <2> QED BY Zenon, <2>1, <2>2, GivenFacts DEF PdAllocates
<1>3. CASE PdOwned(s.pd, d) = {} /\ PdFree(s.pd) # {}
  <2> DEFINE p == Min(PdFree(s.pd))
             q == PdMove(s.pd, p, "ALLOCATED", Stored(d))
             v == [s EXCEPT !.pd = q]
             u == AddLease(v, p, d)
             r == PdFirstFree(s, d)
  <2>1. r = IF HasRoom(s, p) THEN Given(lease_v6_db_save(u), p)
                             ELSE Refused([s EXCEPT !.pd = PdMove(@, p, "AVAILABLE", None)])
    BY Zenon, <1>3 DEF PdFirstFree, lease_v6_add_ia_pd
  <2>2. p \in PdFree(s.pd)
    <3>1. PdFree(s.pd) \in SUBSET Nat
      BY Zenon, <1>0 DEF PdFree
    <3> QED BY Zenon, <1>3, <3>1, FirstOf
  <2> HIDE DEF p, r
  <2>3. p \in Prefixes /\ p \in Keys /\ p \notin Addrs /\ St(s, p) = "AVAILABLE"
    BY Zenon, <1>0, <2>2 DEF PdFree, St
  <2>4. CASE HasRoom(s, p)
    <3>1. /\ q \in PdPools /\ q.state[p] = "ALLOCATED" /\ q.duid[p] = Stored(d)
          /\ \A b \in Prefixes \ {p} : q.state[b] = s.pd.state[b] /\ q.duid[b] = s.pd.duid[b]
      <4> DEFINE o == Stored(d)
      <4>1. s.pd \in PdPools /\ "ALLOCATED" \in Ip6States /\ o \in Duids \union {None, Cut}
        BY Zenon, OwnerTypes DEF Ready, Ip6States
      <4> HIDE DEF o
      <4> QED BY <2>3, <4>1, PdMoveOneTypes DEF o
    <3> HIDE DEF q
    <3>2. /\ Well(v) /\ v.db = s.db /\ v.ip = s.ip /\ v.pd = q
          /\ v.file = s.file /\ v.seen = s.seen /\ v.disk = s.disk /\ v.failed = s.failed
      BY Zenon, PdFacts DEF Ready
    <3> HIDE DEF v
    <3>3. Ready(v)
      BY Zenon, <3>1, <3>2 DEF Ready
    <3>4. St(v, p) = "ALLOCATED" /\ Names(Ow(v, p), d)
      BY Zenon, <2>3, <3>1, <3>2, OwnerTypes DEF St, Ow
    <3>5. \A j \in Keys \ {p} : St(v, j) = St(s, j) /\ Ow(v, j) = Ow(s, j)
      BY Zenon, <3>1, <3>2 DEF St, Ow, Keys
    <3>6. \A j \in Keys : SameKind(j, p) => ~ Owns(s, d, j)
      BY Zenon, <1>3, <2>3 DEF SameKind, Owns, PdOwned, St, Ow, Keys
    <3>7. Ground(s, p, d)
      BY Zenon, <2>3, <3>6 DEF Ground
    <3>8. Grants(s, u, p, d)
      BY Zenon, <2>3, <3>2, <3>3, <3>4, <3>5, <3>7, GrantMade
    <3> HIDE DEF u
    <3>9. Ends(u, lease_v6_db_save(u), {})
      BY Zenon, <3>8, SaveEnds DEF Grants
    <3>10. r.got = p /\ r.s = lease_v6_db_save(u)
      BY Zenon, <2>1, <2>4, GivenFacts
    <3>11. PdAllocates(s, r, d)
      BY Zenon, <2>3, <3>8, <3>9, <3>10 DEF PdAllocates
    <3> QED BY Zenon, <1>3, <3>11 DEF pd_pool_allocate, r
  <2>5. CASE ~ HasRoom(s, p)
    <3>1. ~ Active(s.db, p)
      BY Zenon, <2>5 DEF HasRoom, Active
    <3>2. Ends(s, [s EXCEPT !.pd = PdMove(@, p, "AVAILABLE", None)], {})
      BY Zenon, <2>3, <3>1, PdGiveBackEnds
    <3>3. PdAllocates(s, r, d)
      BY Zenon, <2>1, <2>5, <3>2, GivenFacts DEF PdAllocates
    <3> QED BY Zenon, <1>3, <3>3 DEF pd_pool_allocate, r
  <2> QED BY Zenon, <2>4, <2>5
<1> QED BY Zenon, <1>1, <1>2, <1>3

(* A RELEASE of a prefix frees the entry and ends the lease, and saves twice. *)
LEMMA PdReleaseEnds ==
    ASSUME NEW s, Ready(s), NEW p \in Prefixes
    PROVE  \E u : \E K \in SUBSET {p} : Ends(s, u, K) /\ Ends(u, pd_pool_release(s, p), {})
<1> DEFINE q == PdMove(s.pd, p, "AVAILABLE", None)
           v == IF s.pd.state[p] = "ALLOCATED" THEN [s EXCEPT !.pd = q] ELSE s
           d == WithLease(v.db, p, Over(v.db[p], "RELEASED"))
           w == [v EXCEPT !.db = d]
           u == IF p \in DOMAIN v.db THEN lease_v6_db_save(w) ELSE v
<1>0. p \notin Addrs
  BY Zenon, KeysAssumption
<1>1. pd_pool_release(s, p) = lease_v6_db_save(u)
  BY Zenon DEF pd_pool_release, lease_v6_release_prefix
<1>2. /\ q \in PdPools /\ q.state[p] = "AVAILABLE"
      /\ \A b \in Prefixes \ {p} : q.state[b] = s.pd.state[b] /\ q.duid[b] = s.pd.duid[b]
  BY PdMoveOneTypes DEF Ready, Ip6States
<1>3. ~ Active(s.db, p) => Ends(s, [s EXCEPT !.pd = q], {})
  BY Zenon, PdGiveBackEnds
<1> HIDE DEF q
<1>4. /\ Well(v) /\ v.db = s.db /\ v.ip = s.ip /\ v.pd \in {s.pd, q}
      /\ v.file = s.file /\ v.seen = s.seen /\ v.disk = s.disk /\ v.failed = s.failed
  BY PdFacts DEF Ready
<1>5. ~ Active(s.db, p) => Ends(s, v, {})
  BY Zenon, <1>3, NothingEnds
<1> HIDE DEF v
<1>6. CASE p \in DOMAIN v.db
  <2>1. Weaker(s.db, d, {p})
    BY Zenon, <1>4, <1>6, EndOne DEF Ready
  <2>2. p \in DOMAIN d /\ d[p].state = "RELEASED"
    BY Zenon, OverFacts DEF WithLease
  <2> HIDE DEF d
  <2>3. /\ Well(w) /\ w.db = d /\ w.ip = v.ip /\ w.pd = v.pd
        /\ w.file = v.file /\ w.seen = v.seen /\ w.disk = v.disk /\ w.failed = v.failed
    BY Zenon, <1>4, DbFacts
  <2> HIDE DEF w
  <2>4. ASSUME NEW k \in Keys PROVE EntryKept(s, w, k)
    <3>1. ~ Active(w.db, p)
      BY Zenon, <2>2, <2>3 DEF Active
    <3> QED BY Zenon, <1>0, <1>2, <1>4, <2>3, <3>1 DEF EntryKept, St, Ow, Keys
  <2>5. Touched(s, w, {p})
    BY Zenon, <1>2, <1>4, <2>1, <2>3, <2>4 DEF Touched, Ready
  <2>6. Ends(s, u, {p})
    BY Zenon, <1>6, <2>5, TouchedSaves
  <2> HIDE DEF u
  <2>7. Ends(u, lease_v6_db_save(u), {})
    BY Zenon, <2>6, SaveEnds DEF Ends
  <2> QED BY Zenon, <1>1, <2>6, <2>7
<1>7. CASE p \notin DOMAIN v.db
  <2>1. Ends(s, u, {})
    BY Zenon, <1>4, <1>5, <1>7 DEF Active
  <2> HIDE DEF u
  <2>2. Ends(u, lease_v6_db_save(u), {})
    BY Zenon, <2>1, SaveEnds DEF Ends
  <2> QED BY Zenon, <1>1, <2>1, <2>2
<1> QED BY Zenon, <1>6, <1>7

(* What both kinds of steps keep: the entry of an active lease names its client, the
   file reads as the database, and no client has two entries. *)

Agrees(s) ==
    /\ \A k \in Keys : Active(s.db, k) /\ St(s, k) = "ALLOCATED" => Names(Ow(s, k), s.db[k].duid)
    /\ \A a \in Addrs : St(s, a) = "RESERVED" => a \in HostAddrs

Single(s) ==
    \A d \in Duids \ LongDuids : \A j, k \in Keys \ HostAddrs :
        SameKind(j, k) /\ Owns(s, d, j) /\ Owns(s, d, k) => j = k

(* No client has two active leases of a kind in L, which is a database or was read. *)
OneLease(L) ==
    \A j, k \in DOMAIN L \ HostAddrs :
        /\ SameKind(j, k) /\ L[j].state = "ACTIVE" /\ L[k].state = "ACTIVE"
        /\ L[j].duid = L[k].duid /\ L[j].duid \notin LongDuids
        => j = k

OneFile(f) == Swallowed(f.log) = {} => OneLease(Read(f))

Core(s, misled) ==
    /\ DbOk(s.db) /\ FileOk(s.file) /\ s.ip \in Ip6Pools /\ s.pd \in PdPools
    /\ Taken(s) /\ Agrees(s)
    /\ ~ misled => Single(s)

(* late: the file is not expected to follow the database. *)
Follows(s, late) ==
    ~ late /\ ~ s.failed /\ Swallowed(s.file.log) = {} => Read(s.file) = Printed(s.db)

Sound(s, late, misled) ==
    /\ Ready(s) /\ Core(s, misled)
    /\ Follows(s, late)
    /\ ~ misled /\ ~ late => \A f \in s.seen : OneFile(f)

LEMMA OwnActive ==
    ASSUME NEW s, DbOk(s.db), Taken(s), Agrees(s), NEW k \in Keys, Active(s.db, k),
           k \notin HostAddrs \/ St(s, k) = "ALLOCATED"
    PROVE  St(s, k) = "ALLOCATED" /\ Names(Ow(s, k), s.db[k].duid) /\ s.db[k].duid \in Duids
<1>1. Busy(s, k)
  BY Zenon DEF Taken, Active
<1>2. St(s, k) = "ALLOCATED"
  BY Zenon, <1>1 DEF Busy, Agrees, St
<1>3. s.db[k].duid \in Duids
  BY Zenon DEF DbOk, KeptLeases, Active
<1> QED BY Zenon, <1>2, <1>3 DEF Agrees

(* An owner that is no cut DUID is the owner. *)
LEMMA NamesOne ==
    ASSUME NEW d \in Duids, NEW e \in Duids
    PROVE  Names(d, e) => d = e
  BY Zenon, CutAssumption, DuidsAssumption DEF Names

LEMMA OneDb ==
    ASSUME NEW s, DbOk(s.db), Taken(s), Agrees(s), Single(s)
    PROVE  OneLease(s.db)
<1> SUFFICES ASSUME NEW j \in DOMAIN s.db \ HostAddrs, NEW k \in DOMAIN s.db \ HostAddrs, SameKind(j, k),
                    s.db[j].state = "ACTIVE", s.db[k].state = "ACTIVE",
                    s.db[j].duid = s.db[k].duid, s.db[j].duid \notin LongDuids
             PROVE  j = k
  BY Zenon DEF OneLease
<1>1. j \in Keys /\ k \in Keys /\ Active(s.db, j) /\ Active(s.db, k)
  BY Zenon DEF DbOk, Active
<1>2. /\ St(s, j) = "ALLOCATED" /\ Names(Ow(s, j), s.db[j].duid) /\ s.db[j].duid \in Duids
      /\ St(s, k) = "ALLOCATED" /\ Names(Ow(s, k), s.db[k].duid)
  BY Zenon, <1>1, OwnActive
<1>3. Owns(s, s.db[j].duid, j) /\ Owns(s, s.db[j].duid, k)
  BY Zenon, <1>1, <1>2 DEF Owns, Names
<1> QED BY Zenon, <1>1, <1>2, <1>3 DEF Single

LEMMA OnePrinted ==
    ASSUME NEW d, OneLease(d)
    PROVE  OneLease(Printed(d))
<1> DEFINE L == Printed(d)
<1>1. DOMAIN L = DOMAIN d /\ \A k \in DOMAIN d : L[k].duid = d[k].duid /\ L[k].state = d[k].state
  BY Zenon DEF Printed
<1> HIDE DEF L
<1>2. OneLease(L)
  BY Zenon, <1>1 DEF OneLease
<1> QED BY Zenon, <1>2 DEF L

LEMMA OneWeaker ==
    ASSUME NEW d, NEW e, NEW K, OneLease(d), Weaker(d, e, K)
    PROVE  OneLease(e)
<1> SUFFICES ASSUME NEW j \in DOMAIN e \ HostAddrs, NEW k \in DOMAIN e \ HostAddrs, SameKind(j, k),
                    e[j].state = "ACTIVE", e[k].state = "ACTIVE", e[j].duid = e[k].duid, e[j].duid \notin LongDuids
             PROVE  j = k
  BY Zenon DEF OneLease
<1>1. j \in DOMAIN d \ HostAddrs /\ k \in DOMAIN d \ HostAddrs /\ e[j] = d[j] /\ e[k] = d[k]
  BY Zenon DEF Weaker
<1> QED BY Zenon, <1>1 DEF OneLease

(* A saved file has what the database had. *)
LEMMA OneSaved ==
    ASSUME NEW d, DbOk(d), OneLease(d)
    PROVE  OneFile(Saved(d))
<1>1. Read(Saved(d)) = Printed(d)
  BY Zenon, SavedReads
<1>2. OneLease(Printed(d))
  BY Zenon, OnePrinted
<1> QED BY Zenon, <1>1, <1>2 DEF OneFile

LEMMA EndsCore ==
    ASSUME NEW s, NEW t, NEW K, NEW misled, Core(s, misled), Ends(s, t, K)
    PROVE  Core(t, misled)
<1>1. Ready(t) /\ Weaker(s.db, t.db, K) /\ \A k \in Keys : EntryKept(s, t, k)
  BY Zenon DEF Ends
<1>2. DbOk(t.db) /\ FileOk(t.file) /\ t.ip \in Ip6Pools /\ t.pd \in PdPools
  BY Zenon, <1>1 DEF Ready
<1>3. ASSUME NEW k \in Keys, Active(t.db, k)
      PROVE  Active(s.db, k) /\ t.db[k] = s.db[k] /\ Busy(s, k)
  BY Zenon, <1>1, <1>3 DEF Weaker, Active, Core, Taken
<1>4. ASSUME NEW k \in Keys, Active(t.db, k) PROVE Busy(t, k)
  <2>1. Busy(s, k) /\ EntryKept(s, t, k)
    BY Zenon, <1>1, <1>3, <1>4
  <2> QED BY Zenon, <1>4, <2>1 DEF EntryKept, Busy, St
<1>5. Taken(t)
  <2>1. \A k \in DOMAIN t.db : k \in Keys
    BY Zenon, <1>2 DEF DbOk
  <2> QED BY Zenon, <1>4, <2>1 DEF Taken, Active
<1>6. Agrees(t)
  <2>1. ASSUME NEW k \in Keys, Active(t.db, k), St(t, k) = "ALLOCATED"
        PROVE  Names(Ow(t, k), t.db[k].duid)
    <3>1. EntryKept(s, t, k) /\ Active(s.db, k) /\ t.db[k] = s.db[k]
      BY Zenon, <1>1, <1>3, <2>1
    <3> QED BY Zenon, <2>1, <3>1 DEF EntryKept, Core, Agrees
  <2>2. ASSUME NEW a \in Addrs, St(t, a) = "RESERVED" PROVE a \in HostAddrs
    <3>1. EntryKept(s, t, a)
      BY Zenon, <1>1 DEF Keys
    <3> QED BY Zenon, <2>2, <3>1 DEF EntryKept, Core, Agrees
  <2> QED BY Zenon, <2>1, <2>2 DEF Agrees
<1>7. ASSUME ~ misled PROVE Single(t)
  <2>1. ASSUME NEW d \in Duids \ LongDuids, NEW k \in Keys \ HostAddrs, Owns(t, d, k)
        PROVE  Owns(s, d, k)
    <3>1. EntryKept(s, t, k) /\ St(t, k) = "ALLOCATED" /\ Ow(t, k) = d
      BY Zenon, <1>1, <2>1 DEF Owns
    <3>2. CASE St(t, k) = St(s, k) /\ Ow(t, k) = Ow(s, k)
      BY Zenon, <3>1, <3>2 DEF Owns
    <3>3. CASE Active(t.db, k) /\ Names(Ow(t, k), t.db[k].duid)
      <4>1. Active(s.db, k) /\ t.db[k] = s.db[k]
        BY Zenon, <1>3, <3>3
      <4>2. St(s, k) = "ALLOCATED" /\ Names(Ow(s, k), s.db[k].duid) /\ s.db[k].duid \in Duids
        BY Zenon, <4>1, OwnActive DEF Core
      <4>3. d = s.db[k].duid
        BY Zenon, <3>1, <3>3, <4>1, <4>2, NamesOne
      <4> QED BY Zenon, <4>2, <4>3 DEF Owns, Names
    <3> QED BY Zenon, <3>1, <3>2, <3>3 DEF EntryKept
  <2>2. Single(s)
    BY Zenon, <1>7 DEF Core
  <2> QED BY Zenon, <2>1, <2>2 DEF Single
<1> QED BY Zenon, <1>2, <1>5, <1>6, <1>7 DEF Core

LEMMA EndsSound ==
    ASSUME NEW s, NEW t, NEW K, NEW late, NEW misled, Sound(s, late, misled), Ends(s, t, K)
    PROVE  Sound(t, late, misled)
<1>1. Ready(t) /\ DbOk(t.db) /\ Core(t, misled)
  BY Zenon, EndsCore DEF Ends, Ready, Sound
<1>2. CASE t.db = s.db /\ t.file = s.file /\ t.seen = s.seen /\ t.failed = s.failed
  BY Zenon, <1>1, <1>2 DEF Sound, Follows
<1>3. CASE ~ s.disk /\ t.failed /\ t.file = s.file /\ t.seen = s.seen
  BY Zenon, <1>1, <1>3 DEF Sound, Follows
<1>4. CASE /\ s.disk /\ t.file = Saved(t.db) /\ t.failed = s.failed
           /\ \A f \in t.seen : f \in s.seen \/ \E e : f = Saved(e) /\ Weaker(s.db, e, K)
  <2>1. Follows(t, late)
    BY Zenon, <1>1, <1>4, SavedReads DEF Follows
  <2>2. ASSUME ~ misled, ~ late, NEW f \in t.seen PROVE OneFile(f)
    <3>1. CASE f \in s.seen
      BY Zenon, <2>2, <3>1 DEF Sound
    <3>2. ASSUME NEW e, f = Saved(e), Weaker(s.db, e, K) PROVE OneFile(f)
      <4>1. OneLease(s.db)
        BY Zenon, <2>2, OneDb DEF Sound, Core
      <4>2. OneLease(e) /\ DbOk(e)
        BY Zenon, <3>2, <4>1, OneWeaker DEF Weaker
      <4> QED BY Zenon, <3>2, <4>2, OneSaved
    <3> QED BY Zenon, <1>4, <3>1, <3>2
  <2> QED BY Zenon, <1>1, <2>1, <2>2 DEF Sound
<1> QED BY Zenon, <1>2, <1>3, <1>4 DEF Ends, SavedTo

LEMMA GrantsCore ==
    ASSUME NEW s, NEW t, NEW k, NEW d, NEW misled, Core(s, misled), Grants(s, t, k, d)
    PROVE  Core(t, misled)
<1>1. /\ k \in Keys /\ d \in Duids /\ Ready(t) /\ t.db = WithLease(s.db, k, Lease(d))
      /\ St(t, k) = "ALLOCATED" /\ Names(Ow(t, k), d)
      /\ \A j \in Keys \ {k} : St(t, j) = St(s, j) /\ Ow(t, j) = Ow(s, j)
      /\ Ground(s, k, d)
  BY Zenon DEF Grants
<1>2. DbOk(t.db) /\ FileOk(t.file) /\ t.ip \in Ip6Pools /\ t.pd \in PdPools
  BY Zenon, <1>1 DEF Ready
<1>3. /\ DOMAIN t.db = DOMAIN s.db \union {k} /\ t.db[k].duid = d
      /\ \A j \in DOMAIN s.db \ {k} : t.db[j] = s.db[j]
  BY <1>1 DEF WithLease, Lease
<1>4. \A j \in Keys \ {k} : Busy(s, j) => Busy(t, j)
  BY Zenon, <1>1 DEF Busy, St
<1>5. Busy(t, k)
  BY Zenon, <1>1 DEF Busy, St
<1>6. Taken(t)
  <2>1. \A j \in DOMAIN t.db : j \in Keys
    BY Zenon, <1>2 DEF DbOk
  <2>2. Taken(s)
    BY Zenon DEF Core
  <2> QED BY Zenon, <1>3, <1>4, <1>5, <2>1, <2>2 DEF Taken
<1>7. Agrees(t)
  <2>1. Agrees(s)
    BY Zenon DEF Core
  <2>2. ASSUME NEW j \in Keys, Active(t.db, j), St(t, j) = "ALLOCATED" PROVE Names(Ow(t, j), t.db[j].duid)
    <3>1. CASE j = k
      BY Zenon, <1>1, <1>3, <3>1
    <3>2. CASE j # k
      <4>1. Active(s.db, j) /\ t.db[j] = s.db[j]
        BY Zenon, <1>3, <2>2, <3>2 DEF Active
      <4> QED BY Zenon, <1>1, <2>1, <2>2, <3>2, <4>1 DEF Agrees
    <3> QED BY Zenon, <3>1, <3>2
  <2>3. ASSUME NEW a \in Addrs, St(t, a) = "RESERVED" PROVE a \in HostAddrs
    <3>1. a # k /\ a \in Keys
      BY Zenon, <1>1, <2>3 DEF Keys
    <3> QED BY Zenon, <1>1, <2>1, <2>3, <3>1 DEF Agrees
  <2> QED BY Zenon, <2>2, <2>3 DEF Agrees
<1>8. ASSUME ~ misled PROVE Single(t)
  <2>1. Single(s)
    BY Zenon, <1>8 DEF Core
  <2>2. ASSUME NEW e \in Duids \ LongDuids, NEW i \in Keys \ HostAddrs, NEW j \in Keys \ HostAddrs,
               SameKind(i, j), Owns(t, e, i), Owns(t, e, j), i # j
        PROVE  FALSE
    <3>1. \A x \in Keys : Owns(t, e, x) /\ x # k => Owns(s, e, x)
      BY Zenon, <1>1 DEF Owns
    <3>2. CASE i # k /\ j # k
      BY Zenon, <2>1, <2>2, <3>1, <3>2 DEF Single
    <3>3. ASSUME NEW x \in Keys \ HostAddrs, SameKind(x, k), Owns(s, e, x), x # k,
                 k \notin HostAddrs, Owns(t, e, k)
          PROVE  FALSE
      <4>1. e = d
        BY Zenon, <1>1, <3>3, NamesOne DEF Owns
      <4>2. ~(k \in Addrs /\ d \in DOMAIN Hosts /\ Hosts[d] = k)
        BY Zenon, <3>3 DEF HostAddrs
      <4>3. Owns(s, e, k)
        BY Zenon, <1>1, <3>3, <4>1, <4>2 DEF Ground
      <4> QED BY Zenon, <1>1, <2>1, <3>3, <4>3 DEF Single
    <3>4. SameKind(j, i)
      BY Zenon, <2>2 DEF SameKind
    <3> QED BY Zenon, <2>2, <3>1, <3>2, <3>3, <3>4
  <2> QED BY Zenon, <2>2 DEF Single
<1> QED BY Zenon, <1>2, <1>6, <1>7, <1>8 DEF Core

LEMMA PrintedGrant ==
    ASSUME NEW db1, NEW k, NEW d
    PROVE  Printed(WithLease(db1, k, Lease(d)))
             = WithLease(Printed(db1), k, Line(d))
<1> DEFINE new == WithLease(db1, k, Lease(d))
<1>1. /\ DOMAIN new = DOMAIN db1 \union {k} /\ new[k] = Lease(d)
      /\ \A j \in DOMAIN db1 \ {k} : new[j] = db1[j]
  BY Zenon DEF WithLease
<1>2. Line(d) = [duid |-> Lease(d).duid, state |-> Lease(d).state]
  BY Zenon DEF Line, Lease
<1> HIDE DEF new
<1>3. DOMAIN Printed(db1) = DOMAIN db1 /\ \A j \in DOMAIN db1 : Printed(db1)[j] = [duid |-> db1[j].duid, state |-> db1[j].state]
  BY Zenon DEF Printed
<1>4. Printed(new) = [j \in DOMAIN db1 \union {k} |-> IF j = k THEN Line(d) ELSE Printed(db1)[j]]
  BY Zenon, <1>1, <1>2, <1>3 DEF Printed
<1> QED BY Zenon, <1>3, <1>4 DEF new, WithLease

(* What the file reads as while the block is appended. *)
LEMMA GrantReads ==
    ASSUME NEW s, FileOk(s.file), NEW k \in Keys, NEW d \in Duids, NEW torn \in {"no", "head", "body"},
           NEW g, g = Longer(s.file, k, Line(d), torn), Swallowed(g.log) = {},
           Swallowed(s.file.log) = {} => Read(s.file) = Printed(s.db)
    PROVE  Read(g) = IF torn = "no" THEN Printed(WithLease(s.db, k, Lease(d))) ELSE Printed(s.db)
<1> DEFINE line == Line(d)
           f == s.file
<1>1. line \in Lines /\ FileOk(f) /\ g = Longer(f, k, line, torn)
  BY Zenon DEF Line, Lines, Kept
<1> HIDE DEF line, f
<1>2. ReadsWhole(f, g, k, line, torn)
  BY Zenon, <1>1, LongerWhole
<1>3. Read(f) = Printed(s.db)
  BY Zenon, <1>2 DEF ReadsWhole, f
<1>4. CASE torn # "no"
  BY Zenon, <1>2, <1>3, <1>4 DEF ReadsWhole
<1>5. CASE torn = "no"
  BY Zenon, <1>2, <1>3, <1>5, PrintedGrant DEF ReadsWhole, line
<1> QED BY Zenon, <1>4, <1>5

LEMMA GrantsSound ==
    ASSUME NEW s, NEW t, NEW k, NEW d, NEW late, NEW misled, Sound(s, late, misled), Grants(s, t, k, d)
    PROVE  Sound(t, late, misled)
<1>1. Ready(t) /\ Core(t, misled) /\ t.disk = s.disk /\ (s.disk => ~ s.failed) /\ FileOk(s.file) /\ DbOk(s.db)
  BY Zenon, GrantsCore DEF Grants, Ready, Sound
<1>2. k \in Keys /\ d \in Duids /\ t.db = WithLease(s.db, k, Lease(d)) /\ AppendedTo(s, t, k, Line(d))
  BY Zenon DEF Grants
<1>3. CASE ~ s.disk /\ t.failed /\ t.file = s.file /\ t.seen = s.seen
  BY Zenon, <1>1, <1>3 DEF Sound, Follows
<1>4. CASE /\ s.disk /\ t.file = Longer(s.file, k, Line(d), "no") /\ t.failed = s.failed
           /\ \A f \in t.seen :
                f \in s.seen \/ \E torn \in {"no", "head", "body"} : f = Longer(s.file, k, Line(d), torn)
  <2>1. ASSUME ~ late, NEW torn \in {"no", "head", "body"}, NEW g, g = Longer(s.file, k, Line(d), torn),
               Swallowed(g.log) = {}
        PROVE  Read(g) = IF torn = "no" THEN Printed(t.db) ELSE Printed(s.db)
    <3>1. Swallowed(s.file.log) = {} => Read(s.file) = Printed(s.db)
      BY Zenon, <1>1, <1>4, <2>1 DEF Sound, Follows
    <3> QED BY <1>1, <1>2, <2>1, <3>1, GrantReads
  <2>2. Follows(t, late)
    BY Zenon, <1>4, <2>1 DEF Follows
  <2>3. ASSUME ~ misled, ~ late, NEW f \in t.seen PROVE OneFile(f)
    <3>1. CASE f \in s.seen
      BY Zenon, <2>3, <3>1 DEF Sound
    <3>2. ASSUME NEW torn \in {"no", "head", "body"}, f = Longer(s.file, k, Line(d), torn), Swallowed(f.log) = {}
          PROVE  OneLease(Read(f))
      <4>1. OneLease(s.db) /\ OneLease(t.db)
        BY Zenon, <1>1, <2>3, OneDb DEF Sound, Core
      <4>2. OneLease(Printed(s.db)) /\ OneLease(Printed(t.db))
        BY Zenon, <4>1, OnePrinted
      <4>3. Read(f) = Printed(t.db) \/ Read(f) = Printed(s.db)
        BY Zenon, <2>1, <2>3, <3>2
      <4> QED BY Zenon, <4>2, <4>3
    <3> QED BY Zenon, <1>4, <3>1, <3>2 DEF OneFile
  <2> QED BY Zenon, <1>1, <2>2, <2>3 DEF Sound
<1> QED BY Zenon, <1>2, <1>3, <1>4 DEF AppendedTo

-----------------------------------------------------------------------------
(* What a client was told: x is a client and the address or prefix it holds. *)

OnFile(f, x) == x[2] \in Swallowed(f.log) \/ Reads(f, x[2], Line(x[1]))

Holds(s, x) == x[2] \in DOMAIN s.db /\ s.db[x[2]] = Lease(x[1]) /\ OnFile(s.file, x)

(* What a crash in the middle of a handler leaves to a client that held x before. *)
SeenHolds(s, x) == \A f \in s.seen : OnFile(f, x)

LEMMA SavedHolds ==
    ASSUME NEW d, DbOk(d), NEW x, x[2] \in DOMAIN d, d[x[2]] = Lease(x[1])
    PROVE  OnFile(Saved(d), x)
<1>1. Line(x[1]) = [duid |-> d[x[2]].duid, state |-> d[x[2]].state]
  BY DEF Line, Lease
<1> QED BY Zenon, <1>1, SavedReads DEF OnFile, Reads

LEMMA LongerHolds ==
    ASSUME NEW f, FileOk(f), NEW k \in Keys, NEW d \in Duids, NEW torn \in {"no", "head", "body"},
           NEW g, g = Longer(f, k, Line(d), torn), NEW x, OnFile(f, x), x[2] = k => x[1] = d
    PROVE  OnFile(g, x)
<1>1. Line(d) \in Lines
  BY Zenon DEF Line, Lines, Kept
<1> DEFINE line == Line(d)
<1>2. ReadsMore(f, g, k, line, torn)
  <2> HIDE DEF line
  <2> QED BY Zenon, <1>1, LongerReads DEF line
<1> HIDE DEF line
<1>3. CASE x[2] # k \/ torn # "no"
  BY Zenon, <1>2, <1>3 DEF ReadsMore, OnFile, Reads
<1>4. CASE x[2] = k /\ torn = "no"
  <2>1. line = Line(x[1])
    BY Zenon, <1>4 DEF line
  <2> QED BY Zenon, <1>2, <1>4, <2>1 DEF ReadsMore, OnFile
<1> QED BY Zenon, <1>3, <1>4

LEMMA NewHolds ==
    ASSUME NEW f, FileOk(f), NEW k \in Keys, NEW d \in Duids, NEW g, g = Longer(f, k, Line(d), "no")
    PROVE  OnFile(g, <<d, k>>)
<1> DEFINE line == Line(d)
<1>1. line \in Lines
  BY Zenon DEF Line, Lines, Kept
<1>2. ReadsMore(f, g, k, line, "no")
  <2> HIDE DEF line
  <2> QED BY Zenon, <1>1, LongerReads DEF line
<1> QED BY Zenon, <1>2 DEF ReadsMore, OnFile

LEMMA EndsHolds ==
    ASSUME NEW s, NEW t, NEW K, Ends(s, t, K), NEW x, Holds(s, x), x[2] \notin K
    PROVE  Holds(t, x) /\ (SeenHolds(s, x) => SeenHolds(t, x))
<1>1. Lease(x[1]).state = "ACTIVE" /\ Active(s.db, x[2])
  BY DEF Lease, Holds, Active
<1>2. Weaker(s.db, t.db, K) /\ DbOk(t.db)
  BY Zenon DEF Ends, Weaker
<1>3. x[2] \in DOMAIN t.db /\ t.db[x[2]] = Lease(x[1])
  BY Zenon, <1>1, <1>2 DEF Weaker, Holds
<1>4. CASE t.file = s.file /\ t.seen = s.seen
  BY Zenon, <1>3, <1>4 DEF Holds, SeenHolds
<1>5. CASE /\ t.file = Saved(t.db)
           /\ \A f \in t.seen : f \in s.seen \/ \E e : f = Saved(e) /\ Weaker(s.db, e, K)
  <2>1. OnFile(t.file, x)
    BY Zenon, <1>2, <1>3, <1>5, SavedHolds
  <2>2. ASSUME NEW e, Weaker(s.db, e, K) PROVE OnFile(Saved(e), x)
    <3>1. DbOk(e) /\ x[2] \in DOMAIN e /\ e[x[2]] = Lease(x[1])
      BY Zenon, <1>1, <2>2 DEF Weaker, Holds
    <3> QED BY Zenon, <3>1, SavedHolds
  <2> QED BY Zenon, <1>3, <1>5, <2>1, <2>2 DEF Holds, SeenHolds
<1> QED BY Zenon, <1>4, <1>5 DEF Ends, SavedTo

(* Only a static host gets what another client holds. *)
LEMMA GrantsHolds ==
    ASSUME NEW s, NEW t, NEW k, NEW d, NEW misled, Ready(s), Core(s, misled), Grants(s, t, k, d),
           NEW x \in Pairs, Holds(s, x),
           ~(x[2] = k /\ x[1] # d /\ k \in Addrs /\ d \in DOMAIN Hosts /\ Hosts[d] = k)
    PROVE  Holds(t, x) /\ (SeenHolds(s, x) => SeenHolds(t, x))
<1>1. /\ k \in Keys /\ d \in Duids /\ t.db = WithLease(s.db, k, Lease(d))
      /\ AppendedTo(s, t, k, Line(d)) /\ Ground(s, k, d) /\ FileOk(s.file)
  BY Zenon DEF Grants, Ready
<1>2. x[1] \in Duids /\ x[2] \in Keys
  BY Zenon DEF Pairs
<1>3. ASSUME x[2] = k PROVE x[1] = d
  <2>1. Active(s.db, k) /\ s.db[k].duid = x[1]
    BY <1>3 DEF Holds, Active, Lease
  <2>2. Busy(s, k)
    BY Zenon, <2>1 DEF Core, Taken, Active
  <2>3. St(s, k) # "AVAILABLE"
    BY Zenon, <2>2 DEF Busy, St
  <2>4. Owns(s, d, k) => x[1] = d
    <3>1. ASSUME Owns(s, d, k) PROVE Names(d, x[1])
      BY Zenon, <1>1, <2>1, <3>1, OwnActive DEF Owns, Core
    <3> QED BY Zenon, <1>1, <1>2, <3>1, NamesOne
  <2> QED BY Zenon, <1>1, <1>3, <2>3, <2>4 DEF Ground
<1>4. x[2] \in DOMAIN t.db /\ t.db[x[2]] = Lease(x[1])
  BY Zenon, <1>1, <1>3 DEF WithLease, Holds
<1>5. \A torn \in {"no", "head", "body"} : OnFile(Longer(s.file, k, Line(d), torn), x)
  BY <1>1, <1>3, LongerHolds DEF Holds
<1>6. OnFile(t.file, x) /\ (SeenHolds(s, x) => SeenHolds(t, x))
  BY Zenon, <1>1, <1>5 DEF AppendedTo, Holds, SeenHolds
<1> QED BY Zenon, <1>4, <1>6 DEF Holds

(* What is granted is held. *)
LEMMA GrantsGiven ==
    ASSUME NEW s, NEW t, NEW k, NEW d, Ready(s), Grants(s, t, k, d), ~ t.failed
    PROVE  Holds(t, <<d, k>>)
<1>1. /\ k \in Keys /\ d \in Duids /\ t.db = WithLease(s.db, k, Lease(d))
      /\ AppendedTo(s, t, k, Line(d)) /\ FileOk(s.file)
  BY Zenon DEF Grants, Ready
<1>2. t.file = Longer(s.file, k, Line(d), "no")
  BY Zenon, <1>1 DEF AppendedTo
<1>3. OnFile(t.file, <<d, k>>)
  BY Zenon, <1>1, <1>2, NewHolds
<1>4. k \in DOMAIN t.db /\ t.db[k] = Lease(d)
  BY Zenon, <1>1 DEF WithLease
<1> QED BY Zenon, <1>3, <1>4 DEF Holds

-----------------------------------------------------------------------------
(* What the handlers keep. *)

Carries(s, t, x) == Holds(s, x) => Holds(t, x) /\ (SeenHolds(s, x) => SeenHolds(t, x))

(* x is the fixed address of the static host d. *)
Overruled(x, d, got) == d \in DOMAIN Hosts /\ x[2] = Hosts[d] /\ (x[1] # d \/ got = None)

LEMMA FailedStays ==
    ASSUME NEW s, NEW t, NEW k, NEW d, Ends(s, t, k) \/ Grants(s, t, k, d), s.failed
    PROVE  t.failed
  BY Zenon DEF Ends, SavedTo, Grants, AppendedTo

LEMMA BusyHeld ==
    ASSUME NEW s, NEW misled, Core(s, misled), NEW x \in Pairs, Holds(s, x)
    PROVE  Busy(s, x[2])
<1>1. x[2] \in DOMAIN s.db /\ s.db[x[2]].state = "ACTIVE"
  BY DEF Holds, Lease
<1> QED BY Zenon, <1>1 DEF Core, Taken

AllocateKept(s, r, d, late, misled) ==
    /\ Sound(r.s, late, misled)
    /\ s.failed => r.s.failed
    /\ r.got \in Addrs \union {None}
    /\ \A x \in Pairs : Overruled(x, d, r.got) \/ Carries(s, r.s, x)
    /\ r.got # None /\ ~ r.s.failed /\ r.got \in DOMAIN r.s.db => Holds(r.s, <<d, r.got>>)

LEMMA AllocateKeeps ==
    ASSUME NEW s, NEW late, NEW misled, Sound(s, late, misled), NEW d \in Duids, NEW req, NEW alive
    PROVE  AllocateKept(s, ip6_pool_allocate(s, d, req, alive), d, late, misled)
<1> DEFINE r == ip6_pool_allocate(s, d, req, alive)
<1>0. Ready(s) /\ Core(s, misled)
  BY Zenon DEF Sound
<1>1. Allocates(s, r, d)
  BY Zenon, <1>0, AllocateKinds
<1> HIDE DEF r
<1>2. Addrs \subseteq Nat /\ None \notin Addrs
  BY Zenon, KeysAssumption, NoneAssumption
<1>3. ASSUME r.got = None, NEW A, Spare(s, A, d), Ends(s, r.s, A)
      PROVE  AllocateKept(s, r, d, late, misled)
  <2>1. Sound(r.s, late, misled) /\ (s.failed => r.s.failed)
    BY Zenon, <1>3, EndsSound, FailedStays
  <2>2. ASSUME NEW x \in Pairs, ~ Overruled(x, d, r.got), Holds(s, x)
        PROVE  Holds(r.s, x) /\ (SeenHolds(s, x) => SeenHolds(r.s, x))
    <3>1. Busy(s, x[2])
      BY Zenon, <1>0, <2>2, BusyHeld
    <3>2. x[2] \notin A
      BY Zenon, <1>3, <2>2, <3>1 DEF Busy, Spare, Overruled
    <3> QED BY Zenon, <1>3, <2>2, <3>2, EndsHolds
  <2> QED BY Zenon, <1>3, <2>1, <2>2 DEF AllocateKept, Carries
<1>4. ASSUME r.got \in Addrs, r.s = s, r.got \notin DOMAIN s.db
      PROVE  AllocateKept(s, r, d, late, misled)
  BY Zenon, <1>4 DEF AllocateKept, Carries
<1>5. ASSUME r.got \in Addrs, NEW A \in SUBSET Free(s.ip), NEW u, Ends(s, u, A), Grants(u, r.s, r.got, d)
      PROVE  AllocateKept(s, r, d, late, misled)
  <2>1. Sound(u, late, misled) /\ (s.failed => u.failed) /\ Ready(u) /\ Core(u, misled)
    BY <1>5, EndsSound, FailedStays DEF Sound
  <2>2. Sound(r.s, late, misled) /\ (u.failed => r.s.failed)
    BY Zenon, <1>5, <2>1, GrantsSound, FailedStays
  <2>3. ASSUME NEW x \in Pairs, ~ Overruled(x, d, r.got), Holds(s, x)
        PROVE  Holds(r.s, x) /\ (SeenHolds(s, x) => SeenHolds(r.s, x))
    <3>1. Busy(s, x[2])
      BY Zenon, <1>0, <2>3, BusyHeld
    <3>2. x[2] \notin A
      BY Zenon, <3>1 DEF Busy, Free
    <3>3. Holds(u, x) /\ (SeenHolds(s, x) => SeenHolds(u, x))
      BY Zenon, <1>5, <2>3, <3>2, EndsHolds
    <3>4. ~(x[2] = r.got /\ x[1] # d /\ r.got \in Addrs /\ d \in DOMAIN Hosts /\ Hosts[d] = r.got)
      BY Zenon, <2>3 DEF Overruled
    <3>5. Holds(r.s, x) /\ (SeenHolds(u, x) => SeenHolds(r.s, x))
      BY Zenon, <1>5, <2>1, <3>3, <3>4, GrantsHolds
    <3> QED BY Zenon, <3>3, <3>5
  <2>4. ~ r.s.failed => Holds(r.s, <<d, r.got>>)
    BY Zenon, <1>5, <2>1, GrantsGiven
  <2> QED BY Zenon, <1>5, <2>1, <2>2, <2>3, <2>4 DEF AllocateKept, Carries
<1>6. AllocateKept(s, r, d, late, misled)
  BY Zenon, <1>1, <1>3, <1>4, <1>5 DEF Allocates
<1> QED BY Zenon, <1>6 DEF r

PdAllocateKept(s, r, d, late, misled) ==
    /\ Sound(r.s, late, misled)
    /\ s.failed => r.s.failed
    /\ r.got \in Prefixes \union {None}
    /\ DOMAIN r.s.db \cap Addrs \subseteq DOMAIN s.db
    /\ \A x \in Pairs : Carries(s, r.s, x)
    /\ r.got # None /\ ~ r.s.failed /\ r.got \in DOMAIN r.s.db => Holds(r.s, <<d, r.got>>)

LEMMA PdAllocateKeeps ==
    ASSUME NEW s, NEW late, NEW misled, Sound(s, late, misled), NEW d \in Duids
    PROVE  PdAllocateKept(s, pd_pool_allocate(s, d), d, late, misled)
<1> DEFINE r == pd_pool_allocate(s, d)
<1>0. Ready(s) /\ Core(s, misled)
  BY Zenon DEF Sound
<1>1. PdAllocates(s, r, d)
  BY Zenon, <1>0, PdAllocateKinds
<1> HIDE DEF r
<1>2. Prefixes \subseteq Nat /\ None \notin Prefixes /\ Prefixes \cap Addrs = {}
  BY Zenon, KeysAssumption, NoneAssumption
<1>3. ASSUME r.got = None, Ends(s, r.s, {})
      PROVE  PdAllocateKept(s, r, d, late, misled)
  <2>1. Sound(r.s, late, misled) /\ (s.failed => r.s.failed)
    BY Zenon, <1>3, EndsSound, FailedStays
  <2>2. \A x \in Pairs : Carries(s, r.s, x)
    BY <1>3, EndsHolds DEF Carries
  <2>3. DOMAIN r.s.db \subseteq DOMAIN s.db
    BY Zenon, <1>3 DEF Ends, Weaker
  <2> QED BY Zenon, <1>3, <2>1, <2>2, <2>3 DEF PdAllocateKept
<1>4. ASSUME r.got \in Prefixes, r.s = s, r.got \notin DOMAIN s.db
      PROVE  PdAllocateKept(s, r, d, late, misled)
  BY Zenon, <1>4 DEF PdAllocateKept, Carries
<1>5. ASSUME r.got \in Prefixes, NEW u, Grants(s, u, r.got, d), Ends(u, r.s, {})
      PROVE  PdAllocateKept(s, r, d, late, misled)
  <2>1. Sound(u, late, misled) /\ (s.failed => u.failed)
    BY Zenon, <1>5, GrantsSound, FailedStays
  <2>2. Sound(r.s, late, misled) /\ (u.failed => r.s.failed)
    BY Zenon, <1>5, <2>1, EndsSound, FailedStays
  <2>3. ASSUME NEW x \in Pairs, Holds(s, x)
        PROVE  Holds(r.s, x) /\ (SeenHolds(s, x) => SeenHolds(r.s, x))
    <3>1. Holds(u, x) /\ (SeenHolds(s, x) => SeenHolds(u, x))
      BY Zenon, <1>0, <1>2, <1>5, <2>3, GrantsHolds
    <3>2. Holds(r.s, x) /\ (SeenHolds(u, x) => SeenHolds(r.s, x))
      BY <1>5, <3>1, EndsHolds
    <3> QED BY Zenon, <3>1, <3>2
  <2>4. DOMAIN r.s.db \cap Addrs \subseteq DOMAIN s.db
    <3>1. DOMAIN r.s.db \subseteq DOMAIN u.db /\ DOMAIN u.db = DOMAIN s.db \union {r.got}
      BY Zenon, <1>5 DEF Ends, Weaker, Grants, WithLease
    <3> QED BY Zenon, <1>2, <1>5, <3>1
  <2>5. ASSUME ~ r.s.failed PROVE Holds(r.s, <<d, r.got>>)
    <3>1. Holds(u, <<d, r.got>>)
      BY Zenon, <1>0, <1>5, <2>2, <2>5, GrantsGiven
    <3> QED BY <1>5, <3>1, EndsHolds
  <2> QED BY Zenon, <1>5, <2>1, <2>2, <2>3, <2>4, <2>5 DEF PdAllocateKept, Carries
<1>6. PdAllocateKept(s, r, d, late, misled)
  BY Zenon, <1>1, <1>3, <1>4, <1>5 DEF PdAllocates
<1> QED BY Zenon, <1>6 DEF r
=============================================================================
