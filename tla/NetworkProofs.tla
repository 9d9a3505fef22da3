----------------------------- MODULE NetworkProofs -----------------------------
(***************************************************************************)
(* Proofs about the clients, the DNS server and the worker pool.  The      *)
(* clients: any number of identifiers, clients and addresses.  The DNS     *)
(* server: any names, zone, TTL and number of queries.  The worker pool:   *)
(* any number of workers, any queue size and any set of tasks.             *)
(***************************************************************************)
EXTENDS DhcpV4Client, DhcpV6Client, DnsServer, ThreadPool, Integers, SequenceTheorems,
        WellFoundedInduction, TLAPS

--------------------------------------------------------------------------------
(* The clients. *)

(* The identifiers on the network are not ahead of the client's; while a renewal is
   under way, those that equal it belong to the RENEW of this period. *)
Renewal6 ==
    /\ xid6 \in Nat /\ period6 \in Nat
    /\ \A m \in net6 : m.xid \in Nat /\ m.xid <= xid6
    /\ state6 \in {"RENEWING", "RENEWAIT"} =>
           \A m \in net6 : m.xid = xid6 =>
               /\ m.period = period6 /\ m.type \in {"RENEW", "REPLY"}
               /\ m.type = "REPLY" => period6 \in renewed6
    /\ RenewalIsReal6

(* The header of a message has no greater identifier than the one put into it. *)
LEMMA HeaderFacts ==
    ASSUME NEW type, NEW x \in Nat, NEW has
    PROVE  Message6(type, x, has).xid \in Nat /\ Message6(type, x, has).xid <= x
<1>1. x % XIDS \in Nat /\ x % XIDS <= x
  BY Client6Assumption
<1> QED BY <1>1 DEF Message6, dhcpv6_set_xid

LEMMA Renewal6Init == Client6Init => Renewal6
  BY DEF Client6Init, Renewal6, RenewalIsReal6

LEMMA Renewal6Step == Renewal6 /\ [Client6Next]_client6Vars => Renewal6'
<1> SUFFICES ASSUME Renewal6, [Client6Next]_client6Vars PROVE Renewal6'
  OBVIOUS
<1> USE DEF Renewal6, RenewalIsReal6
<1>1. CASE Solicit
  <2> DEFINE new == Message6("SOLICIT", xid6, FALSE)
  <2>1. new.xid \in Nat /\ new.xid <= xid6
    BY Zenon, HeaderFacts
  <2>2. net6' \subseteq net6 \union {new}
    BY Zenon, <1>1 DEF Solicit, Send6
  <2>3. UNCHANGED <<xid6, period6, renewed6, claimed6>> /\ state6' = "SOLICITING"
    BY <1>1 DEF Solicit
  <2> HIDE DEF new
  <2> QED BY <2>1, <2>2, <2>3
<1>2. CASE SendRenew
  <2> DEFINE new == Message6("RENEW", xid6, FALSE)
  <2>1. new.xid \in Nat /\ new.xid <= xid6
    BY Zenon, HeaderFacts
  <2>2. new.period = period6 /\ new.type = "RENEW"
    BY DEF Message6
  <2>3. net6' \subseteq net6 \union {new}
    BY Zenon, <1>2 DEF SendRenew, Send6
  <2>4. UNCHANGED <<xid6, period6, renewed6, claimed6>> /\ state6 = "RENEWING" /\ state6' = "RENEWAIT"
    BY <1>2 DEF SendRenew
  <2> HIDE DEF new
  <2> QED BY <2>1, <2>2, <2>3, <2>4
<1>3. CASE T1Expires
  BY <1>3 DEF T1Expires
<1>4. ASSUME NEW m \in net6, Advertised(m) PROVE Renewal6'
  <2> DEFINE new == Message6("REQUEST", xid6 + 1, FALSE)
  <2>1. new.xid \in Nat /\ new.xid <= xid6 + 1
    <3>1. xid6 + 1 \in Nat
      OBVIOUS
    <3> QED BY Zenon, <3>1, HeaderFacts
  <2>2. net6' \subseteq net6 \union {new}
    BY Zenon, <1>4 DEF Advertised, Send6
  <2>3. UNCHANGED <<period6, renewed6, claimed6>> /\ xid6' = xid6 + 1 /\ state6' = "REQUESTING"
    BY <1>4 DEF Advertised
  <2> HIDE DEF new
  <2>4. \A n \in net6' : n.xid \in Nat /\ n.xid <= xid6'
    BY <2>1, <2>2, <2>3
  <2> QED BY <2>3, <2>4
<1>5. ASSUME NEW m \in net6, Replied(m) PROVE Renewal6'
  BY <1>5 DEF Replied
<1>6. ASSUME NEW m \in net6, RenewReplied(m) PROVE Renewal6'
  BY <1>6 DEF RenewReplied
<1>7. ASSUME NEW m \in net6, RenewAgain(m) PROVE Renewal6'
  BY <1>7 DEF RenewAgain
<1>8. ASSUME NEW m \in net6, Serves6(m) PROVE Renewal6'
  <2>1. PICK has \in BOOLEAN : net6' = net6 \union {Answer6(m, has)}
    BY <1>8 DEF Serves6
  <2> DEFINE a == Answer6(m, has)
  <2>2. a.xid = m.xid /\ a.period = m.period
    BY DEF Answer6
  <2>3. m.type = "RENEW" => a.type = "REPLY" /\ m.period \in renewed6'
    BY <1>8 DEF Serves6, Answer6
  <2>4. UNCHANGED <<state6, xid6, period6, claimed6>> /\ renewed6 \subseteq renewed6' /\ m.type # "REPLY"
    BY <1>8 DEF Serves6
  <2>5. net6' = net6 \union {a}
    BY <2>1
  <2> HIDE DEF a
  <2> QED BY <2>2, <2>3, <2>4, <2>5
<1>9. CASE UNCHANGED client6Vars
  BY <1>9 DEF client6Vars
<1> QED BY <1>1, <1>2, <1>3, <1>4, <1>5, <1>6, <1>7, <1>8, <1>9 DEF Client6Next, Client6Step, Receives6

(* However many identifiers the header can tell apart, and whatever late answers are
   about, client_v6 takes its lease for renewed only if the server has answered a RENEW
   sent in this period. *)
THEOREM RenewalsAreReal6 == Client6Init /\ [][Client6Next]_client6Vars => []RenewalIsReal6
<1>1. Renewal6 => RenewalIsReal6
  BY DEF Renewal6
<1> QED BY <1>1, Renewal6Init, Renewal6Step, PTL

-----------------------------------------------------------------------------
(* DHCPv4.  The identifiers that a client has used, and those it may use. *)
Used(k) == Start[k] .. xid[k]
Room(k) == Start[k] .. Start[k] + MaxXids + 1

IsQuestion(m) == "from" \in DOMAIN m
Values == IPs \union {NoIp}

(* The types, and whose identifier a message has. *)
Ids4 ==
    /\ state \in [Clients -> client_state_v4_t]
    /\ xid \in [Clients -> Nat] /\ period \in [Clients -> Nat]
    /\ offered_ip \in [Clients -> Values] /\ assigned_ip \in [Clients -> Values]
    /\ lease \in [Clients -> Values]
    /\ \A k \in Clients : /\ Start[k] <= xid[k] /\ xid[k] <= Start[k] + MaxXids + 1
                          /\ state[k] # "BOUND" => xid[k] <= Start[k] + MaxXids
    /\ \A m \in net : m.ip \in Values
    /\ \A m \in net : \E k \in Clients : m.xid \in Used(k) /\ (IsQuestion(m) => m.from = k)

(* The clients' identifiers do not meet. *)
LEMMA Apart ==
    ASSUME NEW k \in Clients, NEW l \in Clients, NEW x \in Room(k), x \in Room(l)
    PROVE  k = l
<1>1. Start[k] \in Nat /\ Start[l] \in Nat /\ MaxXids \in Nat /\ x \in Int
  BY ClientAssumption DEF Room
<1>2. CASE Start[k] < Start[l]
  <2>1. Start[k] + MaxXids + 1 < Start[l]
    BY <1>2, ClientAssumption
  <2> QED BY <1>1, <2>1 DEF Room
<1>3. CASE Start[l] < Start[k]
  <2>1. Start[l] + MaxXids + 1 < Start[k]
    BY <1>3, ClientAssumption
  <2> QED BY <1>1, <2>1 DEF Room
<1>4. CASE Start[l] = Start[k]
  BY <1>4, ClientAssumption
<1> QED BY <1>1, <1>2, <1>3, <1>4

LEMMA UsedInRoom ==
    ASSUME Ids4, NEW k \in Clients
    PROVE  Used(k) \subseteq Room(k) /\ xid[k] \in Used(k) /\ Start[k] \in Nat
<1>1. Start[k] \in Nat /\ MaxXids \in Nat /\ xid[k] \in Nat
  BY ClientAssumption DEF Ids4
<1> QED BY <1>1 DEF Used, Room, Ids4

LEMMA QuestionFacts ==
    ASSUME NEW k, NEW type, NEW x, NEW a
    PROVE  LET q == Question(k, type, x, a)
           IN  q.from = k /\ q.type = type /\ q.xid = x /\ q.ip = a /\ q.period = period[k] /\ IsQuestion(q)
  BY DEF Question, IsQuestion

LEMMA AnswerFacts ==
    ASSUME NEW to, NEW type, NEW q, NEW a
    PROVE  LET r == Answer(to, type, q, a)
           IN  r.type = type /\ r.xid = q.xid /\ r.ip = a /\ ~IsQuestion(r)
  BY DEF Answer, IsQuestion

(* A client moves on to the next identifier, or stays with its own, and sends at most
   one message with it. *)
LEMMA ClientKeepsIds ==
    ASSUME Ids4, NEW k \in Clients, NEW x \in {xid[k], xid[k] + 1}, xid' = [xid EXCEPT ![k] = x],
           NEW q, net' \subseteq net \union {q}, q.xid = x, q.from = k, q.ip \in Values
    PROVE  /\ \A m \in net' : m.ip \in Values
           /\ \A m \in net' : \E l \in Clients : m.xid \in Used(l)' /\ (IsQuestion(m) => m.from = l)
<1>a. xid \in [Clients -> Nat] /\ Start \in [Clients -> Nat] /\ Start[k] <= xid[k]
  BY Zenon, ClientAssumption DEF Ids4
<1>b. x \in Nat /\ xid[k] <= x
  BY <1>a
<1>0. /\ xid \in [Clients -> Nat] /\ Start \in [Clients -> Nat] /\ Start[k] <= xid[k]
      /\ x \in Nat /\ xid[k] <= x
  BY <1>a, <1>b
<1>1. \A l \in Clients : Used(l) \subseteq Used(l)'
  <2> SUFFICES ASSUME NEW l \in Clients PROVE Used(l) \subseteq Used(l)'
    OBVIOUS
  <2>1. xid[l] \in Nat /\ xid'[l] \in Nat /\ xid[l] <= xid'[l] /\ Start[l] \in Nat
    BY <1>0
  <2> QED BY <2>1 DEF Used
<1>2. x \in Used(k)'
  <2>1. xid'[k] = x /\ Start[k] \in Nat /\ Start[k] <= x
    BY <1>0
  <2> QED BY <1>0, <2>1 DEF Used
<1>3. ASSUME NEW m \in net PROVE \E l \in Clients : m.xid \in Used(l)' /\ (IsQuestion(m) => m.from = l)
  BY <1>1 DEF Ids4
<1>4. q.xid \in Used(k)' /\ q.from = k
  BY <1>2
<1> QED BY <1>3, <1>4 DEF Ids4

LEMMA Ids4Init == ClientInit => Ids4
<1> SUFFICES ASSUME ClientInit PROVE Ids4
  OBVIOUS
<1>1. xid = Start /\ Start \in [Clients -> Nat] /\ MaxXids \in Nat /\ net = {}
  BY Zenon, ClientAssumption DEF ClientInit
<1>2. \A k \in Clients : Start[k] <= xid[k] /\ xid[k] <= Start[k] + MaxXids + 1 /\ xid[k] <= Start[k] + MaxXids
  BY <1>1
<1>3. /\ state \in [Clients -> client_state_v4_t] /\ period \in [Clients -> Nat]
      /\ offered_ip \in [Clients -> Values] /\ assigned_ip \in [Clients -> Values]
      /\ lease \in [Clients -> Values]
  BY Zenon DEF ClientInit, client_state_v4_t, Values
<1> QED BY Zenon, <1>1, <1>2, <1>3 DEF Ids4

(* What a client sends, and how it moves on. *)
LEMMA ClientIds ==
    ASSUME Ids4, NEW k \in Clients, NEW x \in {xid[k], xid[k] + 1}, xid' = [xid EXCEPT ![k] = x],
           NEW q, net' \subseteq net \union {q}, q.xid = x, q.from = k, q.ip \in Values,
           NEW st \in client_state_v4_t, state' = [state EXCEPT ![k] = st],
           x <= Start[k] + MaxXids + 1, st # "BOUND" => x <= Start[k] + MaxXids,
           period' \in [Clients -> Nat], lease' = lease,
           offered_ip' \in [Clients -> Values], assigned_ip' \in [Clients -> Values]
    PROVE  Ids4'
<1>1. /\ \A m \in net' : m.ip \in Values
      /\ \A m \in net' : \E l \in Clients : m.xid \in Used(l)' /\ (IsQuestion(m) => m.from = l)
  BY Zenon, ClientKeepsIds
<1>2. xid \in [Clients -> Nat] /\ Start \in [Clients -> Nat] /\ MaxXids \in Nat /\ state \in [Clients -> client_state_v4_t]
      /\ lease \in [Clients -> Values]
  BY Zenon, ClientAssumption DEF Ids4
<1>3. x \in Nat /\ xid[k] <= x
  BY <1>2
<1>4. xid' \in [Clients -> Nat] /\ state' \in [Clients -> client_state_v4_t]
  BY Zenon, <1>2, <1>3
<1>5. ASSUME NEW l \in Clients
      PROVE  /\ Start[l] <= xid'[l] /\ xid'[l] <= Start[l] + MaxXids + 1
             /\ state'[l] # "BOUND" => xid'[l] <= Start[l] + MaxXids
  <2>1. /\ Start[l] <= xid[l] /\ xid[l] <= Start[l] + MaxXids + 1
        /\ state[l] # "BOUND" => xid[l] <= Start[l] + MaxXids
    BY Zenon DEF Ids4
  <2>2. CASE l = k
    <3>1. xid'[l] = x /\ state'[l] = st /\ Start[k] \in Nat /\ xid[k] \in Nat
      BY Zenon, <1>2, <2>2
    <3> QED BY <1>2, <1>3, <2>1, <2>2, <3>1
  <2>3. CASE l # k
    BY Zenon, <1>2, <2>1, <2>3
  <2> QED BY Zenon, <2>2, <2>3
<1> QED BY Zenon, <1>1, <1>2, <1>4, <1>5 DEF Ids4

(* The messages that equal the identifier of a renewal are its RENEW, and an ACK that
   the server gave when it renewed the lease in this period. *)
Renewal4 ==
    /\ \A k \in Clients : state[k] \in {"RENEWING", "RENEWAIT"} =>
           \A m \in net : m.xid = xid[k] =>
               /\ IsQuestion(m) => m.type = "RENEW" /\ m.period = period[k]
               /\ ~IsQuestion(m) /\ m.type = "ACK" => <<k, period[k]>> \in renewed
    /\ RenewalIsReal4

(* As long as no lease ended: the leases differ, an answer names the lease of the
   client whose identifier it has, and clients use and ask for what they have. *)
Leases4 ==
    /\ \A k, l \in Clients : lease[k] = lease[l] /\ lease[k] # NoIp => k = l
    /\ \A m \in net : ~IsQuestion(m) /\ m.type \in {"OFFER", "ACK"} =>
           m.ip \in IPs /\ \A k \in Clients : m.xid \in Room(k) => m.ip = lease[k]
    /\ \A m \in net : IsQuestion(m) =>
           /\ m.type = "REQUEST" => m.ip \in IPs
           /\ m.type = "RENEW" => m.ip \in IPs /\ m.ip = lease[m.from]
    /\ \A k \in Clients :
           /\ Holds4(k) => assigned_ip[k] \in IPs /\ assigned_ip[k] = lease[k]
           /\ state[k] = "REQUESTING" => offered_ip[k] \in IPs

LeaseInv == ~lapsed => Leases4

(* No message has the client's next identifier. *)
LEMMA NextIsNew ==
    ASSUME Ids4, NEW k \in Clients, xid[k] + 1 \in Room(k), NEW m \in net
    PROVE  m.xid # xid[k] + 1
<1>1. PICK l \in Clients : m.xid \in Used(l)
  BY Zenon DEF Ids4
<1>2. CASE l = k
  <2>1. xid[k] \in Nat /\ Start[k] \in Nat
    BY Zenon, ClientAssumption DEF Ids4
  <2> QED BY <1>1, <1>2, <2>1 DEF Used
<1>3. CASE l # k
  <2>1. m.xid \in Room(l)
    BY Zenon, <1>1, UsedInRoom
  <2> QED BY Zenon, <1>3, <2>1, Apart
<1> QED BY Zenon, <1>2, <1>3

(* A step of one client leaves the renewals of the others alone. *)
LEMMA ClientRenewal ==
    ASSUME Ids4, Renewal4, NEW k \in Clients, NEW x \in Room(k), xid' = [xid EXCEPT ![k] = x],
           NEW q, net' \subseteq net \union {q}, q.xid = x,
           \A l \in Clients \ {k} : state'[l] = state[l] /\ period'[l] = period[l],
           renewed' = renewed, claimed' \subseteq renewed,
           state'[k] \in {"RENEWING", "RENEWAIT"} =>
               \A m \in net' : m.xid = x =>
                   /\ IsQuestion(m) => m.type = "RENEW" /\ m.period = period'[k]
                   /\ ~IsQuestion(m) /\ m.type = "ACK" => <<k, period'[k]>> \in renewed
    PROVE  Renewal4'
<1>1. xid \in [Clients -> Nat]
  BY Zenon DEF Ids4
<1>2. ASSUME NEW l \in Clients, state'[l] \in {"RENEWING", "RENEWAIT"}, NEW m \in net', m.xid = xid'[l]
      PROVE  /\ IsQuestion(m) => m.type = "RENEW" /\ m.period = period'[l]
             /\ ~IsQuestion(m) /\ m.type = "ACK" => <<l, period'[l]>> \in renewed'
  <2>1. CASE l = k
    <3>1. xid'[l] = x
      BY Zenon, <1>1, <2>1
    <3> QED BY Zenon, <1>2, <2>1, <3>1
  <2>2. CASE l # k
    <3>1. xid'[l] = xid[l] /\ state'[l] = state[l] /\ period'[l] = period[l]
      BY Zenon, <1>1, <2>2
    <3>2. xid[l] \in Room(l)
      BY Zenon, UsedInRoom
    <3>3. xid[l] # x
      BY Zenon, <2>2, <3>2, Apart
    <3>4. m \in net
      BY Zenon, <1>2, <3>1, <3>3
    <3> QED BY Zenon, <1>2, <3>1, <3>4 DEF Renewal4
  <2> QED BY Zenon, <2>1, <2>2
<1> QED BY Zenon, <1>2 DEF Renewal4, RenewalIsReal4

(* A step of one client leaves what the others have alone. *)
LEMMA ClientLease ==
    ASSUME LeaseInv, NEW k \in Clients,
           NEW q, net' \subseteq net \union {q}, IsQuestion(q), q.from = k,
           lease' = lease, lapsed' = lapsed,
           \A l \in Clients \ {k} : /\ state'[l] = state[l] /\ assigned_ip'[l] = assigned_ip[l]
                                    /\ offered_ip'[l] = offered_ip[l],
           ~lapsed => /\ q.type = "REQUEST" => q.ip \in IPs
                      /\ q.type = "RENEW" => q.ip \in IPs /\ q.ip = lease[k]
                      /\ Holds4(k)' => assigned_ip'[k] \in IPs /\ assigned_ip'[k] = lease[k]
                      /\ state'[k] = "REQUESTING" => offered_ip'[k] \in IPs
    PROVE  LeaseInv'
<1> SUFFICES ASSUME ~lapsed PROVE Leases4'
  BY Zenon DEF LeaseInv
<1>1. Leases4
  BY Zenon DEF LeaseInv
<1>2. \A l \in Clients \ {k} : Holds4(l)' => Holds4(l)
  BY Zenon DEF Holds4
<1>3. \A l \in Clients :
          /\ Holds4(l)' => assigned_ip'[l] \in IPs /\ assigned_ip'[l] = lease[l]
          /\ state'[l] = "REQUESTING" => offered_ip'[l] \in IPs
  BY Zenon, <1>1, <1>2 DEF Leases4
<1>4. \A m \in net' : IsQuestion(m) =>
          /\ m.type = "REQUEST" => m.ip \in IPs
          /\ m.type = "RENEW" => m.ip \in IPs /\ m.ip = lease[m.from]
  BY Zenon, <1>1 DEF Leases4
<1>5. \A m \in net' : ~IsQuestion(m) => m \in net
  BY Zenon
<1> QED BY Zenon, <1>1, <1>3, <1>4, <1>5 DEF Leases4

Inv4 == Ids4 /\ Renewal4 /\ LeaseInv

(* What every step of client k is like, q being what it sends if it sends anything:
   what it does to its identifier and the messages, ... *)
Moves(k, q) ==
    /\ state' = [state EXCEPT ![k] = state'[k]] /\ state'[k] \in client_state_v4_t
    /\ xid' = [xid EXCEPT ![k] = xid'[k]] /\ xid'[k] \in {xid[k], xid[k] + 1}
    /\ xid'[k] <= Start[k] + MaxXids + 1
    /\ state'[k] # "BOUND" => xid'[k] <= Start[k] + MaxXids
    /\ period' = [period EXCEPT ![k] = period'[k]] /\ period'[k] \in Nat
    /\ offered_ip' = [offered_ip EXCEPT ![k] = offered_ip'[k]] /\ offered_ip'[k] \in Values
    /\ assigned_ip' = [assigned_ip EXCEPT ![k] = assigned_ip'[k]] /\ assigned_ip'[k] \in Values
    /\ net' \subseteq net \union {q}
    /\ IsQuestion(q) /\ q.xid = xid'[k] /\ q.from = k /\ q.ip \in Values
    /\ lease' = lease /\ lapsed' = lapsed /\ renewed' = renewed

(* ... to its renewals, ... *)
MovesRenewal(k) ==
    /\ claimed' \subseteq renewed
    /\ state'[k] \in {"RENEWING", "RENEWAIT"} =>
           \A m \in net' : m.xid = xid'[k] =>
               /\ IsQuestion(m) => m.type = "RENEW" /\ m.period = period'[k]
               /\ ~IsQuestion(m) /\ m.type = "ACK" => <<k, period'[k]>> \in renewed

(* ... and to its addresses. *)
MovesLease(k, q) ==
    ~lapsed => /\ q.type = "REQUEST" => q.ip \in IPs
               /\ q.type = "RENEW" => q.ip \in IPs /\ q.ip = lease[k]
               /\ Holds4(k)' => assigned_ip'[k] \in IPs /\ assigned_ip'[k] = lease[k]
               /\ state'[k] = "REQUESTING" => offered_ip'[k] \in IPs

LEMMA ClientMove ==
    ASSUME Inv4, NEW k \in Clients, NEW q, Moves(k, q), MovesRenewal(k), MovesLease(k, q)
    PROVE  Inv4'
<1>0. Ids4 /\ Renewal4 /\ LeaseInv
  BY Zenon DEF Inv4
<1>1. Ids4'
  <2>1. /\ period \in [Clients -> Nat] /\ offered_ip \in [Clients -> Values]
        /\ assigned_ip \in [Clients -> Values]
    BY Zenon, <1>0 DEF Ids4
  <2>2. /\ period' \in [Clients -> Nat] /\ offered_ip' \in [Clients -> Values]
        /\ assigned_ip' \in [Clients -> Values]
    BY Zenon, <2>1 DEF Moves
  <2> DEFINE x == xid'[k]
             st == state'[k]
  <2>3. /\ x \in {xid[k], xid[k] + 1} /\ xid' = [xid EXCEPT ![k] = x]
        /\ net' \subseteq net \union {q} /\ q.xid = x /\ q.from = k /\ q.ip \in Values
        /\ st \in client_state_v4_t /\ state' = [state EXCEPT ![k] = st]
        /\ x <= Start[k] + MaxXids + 1 /\ (st # "BOUND" => x <= Start[k] + MaxXids)
        /\ lease' = lease
    BY Zenon DEF Moves
  <2> HIDE DEF x, st
  <2> QED BY Zenon, <1>0, <2>2, <2>3, ClientIds
<1>2. Renewal4'
  <2>1. /\ xid \in [Clients -> Nat] /\ Start \in [Clients -> Nat] /\ MaxXids \in Nat
        /\ state \in [Clients -> client_state_v4_t] /\ period \in [Clients -> Nat]
        /\ Start[k] <= xid[k]
    BY Zenon, <1>0, ClientAssumption DEF Ids4
  <2> DEFINE x == xid'[k]
  <2>2. x \in Room(k)
    <3>1. x \in {xid[k], xid[k] + 1} /\ x <= Start[k] + MaxXids + 1
      BY Zenon DEF Moves
    <3>2. x \in Nat /\ xid[k] <= x /\ Start[k] \in Nat
      BY <2>1, <3>1
    <3> HIDE DEF x
    <3> QED BY <2>1, <3>1, <3>2 DEF Room
  <2>3. \A l \in Clients \ {k} : state'[l] = state[l] /\ period'[l] = period[l]
    BY Zenon, <2>1 DEF Moves
  <2>4. xid' = [xid EXCEPT ![k] = x] /\ net' \subseteq net \union {q} /\ q.xid = x /\ renewed' = renewed
    BY Zenon DEF Moves
  <2>5. /\ claimed' \subseteq renewed
        /\ state'[k] \in {"RENEWING", "RENEWAIT"} =>
             \A m \in net' : m.xid = x =>
               /\ IsQuestion(m) => m.type = "RENEW" /\ m.period = period'[k]
               /\ ~IsQuestion(m) /\ m.type = "ACK" => <<k, period'[k]>> \in renewed
    BY Zenon DEF MovesRenewal
  <2> HIDE DEF x
  <2> QED BY Zenon, <1>0, <2>2, <2>3, <2>4, <2>5, ClientRenewal
<1>3. LeaseInv'
  <2>1. /\ state \in [Clients -> client_state_v4_t]
        /\ assigned_ip \in [Clients -> Values] /\ offered_ip \in [Clients -> Values]
    BY Zenon, <1>0 DEF Ids4
  <2>2. \A l \in Clients \ {k} : /\ state'[l] = state[l] /\ assigned_ip'[l] = assigned_ip[l]
                                 /\ offered_ip'[l] = offered_ip[l]
    BY Zenon, <2>1 DEF Moves
  <2>3. net' \subseteq net \union {q} /\ IsQuestion(q) /\ q.from = k /\ lease' = lease /\ lapsed' = lapsed
    BY Zenon DEF Moves
  <2>4. ~lapsed => /\ q.type = "REQUEST" => q.ip \in IPs
                   /\ q.type = "RENEW" => q.ip \in IPs /\ q.ip = lease[k]
                   /\ Holds4(k)' => assigned_ip'[k] \in IPs /\ assigned_ip'[k] = lease[k]
                   /\ state'[k] = "REQUESTING" => offered_ip'[k] \in IPs
    BY Zenon DEF MovesLease
  <2> QED BY Zenon, <1>0, <2>2, <2>3, <2>4, ClientLease
<1> QED BY Zenon, <1>1, <1>2, <1>3 DEF Inv4

LEMMA Typed ==
    ASSUME Ids4, NEW k \in Clients
    PROVE  /\ state \in [Clients -> client_state_v4_t] /\ state[k] \in client_state_v4_t
           /\ xid \in [Clients -> Nat] /\ xid[k] \in Nat
           /\ period \in [Clients -> Nat] /\ period[k] \in Nat
           /\ offered_ip \in [Clients -> Values] /\ offered_ip[k] \in Values
           /\ assigned_ip \in [Clients -> Values] /\ assigned_ip[k] \in Values
           /\ Start[k] \in Nat /\ MaxXids \in Nat
           /\ Start[k] <= xid[k] /\ xid[k] <= Start[k] + MaxXids + 1
           /\ state[k] # "BOUND" => xid[k] <= Start[k] + MaxXids
           /\ NoIp \in Values
  BY Zenon, ClientAssumption DEF Ids4, Values

LEMMA DiscoverKeeps ==
    ASSUME Inv4, NEW k \in Clients, Discover(k)
    PROVE  Inv4'
<1> DEFINE q == build_discover(k)
<1>0. Ids4 /\ Renewal4 /\ LeaseInv
  BY Zenon DEF Inv4
<1>1. /\ q.from = k /\ q.type = "DISCOVER" /\ q.xid = xid[k] /\ q.ip = NoIp /\ IsQuestion(q)
  BY QuestionFacts DEF build_discover
<1>2. net' \subseteq net \union {q}
  BY Zenon DEF Discover, Send4
<1> HIDE DEF q
<1>3. state' = [state EXCEPT ![k] = "SELECTING"] /\ state[k] = "INIT"
      /\ UNCHANGED <<xid, offered_ip, assigned_ip, lease, lapsed, period, renewed, claimed>>
  BY Zenon DEF Discover
<1>4. state'[k] = "SELECTING" /\ ~Holds4(k)'
  BY Zenon, <1>0, <1>3, Typed DEF Holds4
<1>5. Moves(k, q)
  BY Zenon, <1>0, <1>1, <1>2, <1>3, <1>4, Typed DEF Moves, client_state_v4_t
<1>6. MovesRenewal(k)
  BY Zenon, <1>0, <1>3, <1>4 DEF MovesRenewal, Renewal4, RenewalIsReal4
<1>7. MovesLease(k, q)
  BY Zenon, <1>1, <1>4 DEF MovesLease
<1> QED BY Zenon, <1>5, <1>6, <1>7, ClientMove

LEMMA T1Keeps ==
    ASSUME Inv4, NEW k \in Clients, T1(k)
    PROVE  Inv4'
<1> DEFINE q == Question(k, "DISCOVER", xid[k] + 1, NoIp)
<1>0. Ids4 /\ Renewal4 /\ LeaseInv
  BY Zenon DEF Inv4
<1>1. /\ q.from = k /\ q.type = "DISCOVER" /\ q.xid = xid[k] + 1 /\ q.ip = NoIp /\ IsQuestion(q)
  BY QuestionFacts
<1> HIDE DEF q
<1>2. /\ state' = [state EXCEPT ![k] = "RENEWING"] /\ state[k] = "BOUND" /\ More(k)
      /\ xid' = [xid EXCEPT ![k] = xid[k] + 1] /\ period' = [period EXCEPT ![k] = period[k] + 1]
      /\ UNCHANGED <<offered_ip, assigned_ip, net, lease, lapsed, renewed, claimed>>
  BY Zenon DEF T1
<1>3. state'[k] = "RENEWING" /\ xid'[k] = xid[k] + 1 /\ period'[k] = period[k] + 1
  BY Zenon, <1>0, <1>2, Typed
<1>4. xid[k] + 1 <= Start[k] + MaxXids /\ xid[k] + 1 <= Start[k] + MaxXids + 1 /\ period[k] + 1 \in Nat
  BY <1>0, <1>2, Typed DEF More
<1>5. Moves(k, q)
  BY Zenon, <1>0, <1>1, <1>2, <1>3, <1>4, Typed DEF Moves, client_state_v4_t
<1>6. MovesRenewal(k)
  <2>1. xid[k] + 1 \in Room(k)
    BY <1>0, <1>4, Typed DEF Room
  <2>2. \A m \in net : m.xid # xid[k] + 1
    BY Zenon, <1>0, <2>1, NextIsNew
  <2> QED BY Zenon, <1>0, <1>2, <1>3, <2>2 DEF MovesRenewal, Renewal4, RenewalIsReal4
<1>7. MovesLease(k, q)
  <2>1. Holds4(k) /\ assigned_ip' = assigned_ip
    BY Zenon, <1>2 DEF Holds4
  <2> QED BY Zenon, <1>0, <1>1, <1>3, <2>1 DEF MovesLease, LeaseInv, Leases4
<1> QED BY Zenon, <1>5, <1>6, <1>7, ClientMove

LEMMA RenewKeeps ==
    ASSUME Inv4, NEW k \in Clients, Renew(k)
    PROVE  Inv4'
<1> DEFINE q == build_renew(k)
<1>0. Ids4 /\ Renewal4 /\ LeaseInv
  BY Zenon DEF Inv4
<1>1. /\ q.from = k /\ q.type = "RENEW" /\ q.xid = xid[k] /\ q.ip = assigned_ip[k] /\ IsQuestion(q)
      /\ q.period = period[k]
  BY QuestionFacts DEF build_renew
<1>2. net' \subseteq net \union {q}
  BY Zenon DEF Renew, Send4
<1> HIDE DEF q
<1>3. state' = [state EXCEPT ![k] = "RENEWAIT"] /\ state[k] = "RENEWING"
      /\ UNCHANGED <<xid, offered_ip, assigned_ip, lease, lapsed, period, renewed, claimed>>
  BY Zenon DEF Renew
<1>4. state'[k] = "RENEWAIT"
  BY Zenon, <1>0, <1>3, Typed
<1>5. Moves(k, q)
  BY Zenon, <1>0, <1>1, <1>2, <1>3, <1>4, Typed DEF Moves, client_state_v4_t
<1>6. MovesRenewal(k)
  <2>1. \A m \in net : m.xid = xid[k] =>
               /\ IsQuestion(m) => m.type = "RENEW" /\ m.period = period[k]
               /\ ~IsQuestion(m) /\ m.type = "ACK" => <<k, period[k]>> \in renewed
    BY Zenon, <1>0, <1>3 DEF Renewal4
  <2> QED BY Zenon, <1>0, <1>1, <1>2, <1>3, <2>1 DEF MovesRenewal, Renewal4, RenewalIsReal4
<1>7. MovesLease(k, q)
  <2>1. Holds4(k)
    BY Zenon, <1>3 DEF Holds4
  <2> QED BY Zenon, <1>0, <1>1, <1>3, <1>4, <2>1 DEF MovesLease, LeaseInv, Leases4
<1> QED BY Zenon, <1>5, <1>6, <1>7, ClientMove

LEMMA TimeoutKeeps ==
    ASSUME Inv4, NEW k \in Clients, Timeout(k)
    PROVE  Inv4'
<1> DEFINE q == build_request(k, xid[k], offered_ip[k])
           d == build_discover(k)
<1>0. Ids4 /\ Renewal4 /\ LeaseInv
  BY Zenon DEF Inv4
<1>1. /\ q.from = k /\ q.type = "REQUEST" /\ q.xid = xid[k] /\ q.ip = offered_ip[k] /\ IsQuestion(q)
  BY QuestionFacts DEF build_request
<1>2. /\ d.from = k /\ d.type = "DISCOVER" /\ d.xid = xid[k] /\ d.ip = NoIp /\ IsQuestion(d)
  BY QuestionFacts DEF build_discover
<1>3. /\ state[k] = "REQUESTING" => net' \subseteq net \union {q}
      /\ state[k] # "REQUESTING" => net' = net
  BY Zenon DEF Timeout, Send4
<1> HIDE DEF q, d
<1>4. UNCHANGED <<xid, offered_ip, assigned_ip, lease, lapsed, period, renewed, claimed>>
  BY Zenon DEF Timeout
<1>5. CASE state[k] = "SELECTING"
  <2>1. state' = [state EXCEPT ![k] = "INIT"] /\ state'[k] = "INIT" /\ ~Holds4(k)'
    BY Zenon, <1>0, <1>5, Typed DEF Timeout, Holds4
  <2>2. Moves(k, d)
    BY Zenon, <1>0, <1>2, <1>3, <1>4, <1>5, <2>1, Typed DEF Moves, client_state_v4_t
  <2>3. MovesRenewal(k)
    BY Zenon, <1>0, <1>4, <2>1 DEF MovesRenewal, Renewal4, RenewalIsReal4
  <2>4. MovesLease(k, d)
    BY Zenon, <1>2, <2>1 DEF MovesLease
  <2> QED BY Zenon, <2>2, <2>3, <2>4, ClientMove
<1>6. CASE state[k] = "REQUESTING"
  <2>1. state' = [state EXCEPT ![k] = "REQUESTING"] /\ state'[k] = "REQUESTING" /\ ~Holds4(k)'
    BY Zenon, <1>0, <1>6, Typed DEF Timeout, Holds4
  <2>2. Moves(k, q)
    BY Zenon, <1>0, <1>1, <1>3, <1>4, <1>6, <2>1, Typed DEF Moves, client_state_v4_t
  <2>3. MovesRenewal(k)
    BY Zenon, <1>0, <1>4, <2>1 DEF MovesRenewal, Renewal4, RenewalIsReal4
  <2>4. MovesLease(k, q)
    BY Zenon, <1>0, <1>1, <1>4, <1>6, <2>1 DEF MovesLease, LeaseInv, Leases4
  <2> QED BY Zenon, <2>2, <2>3, <2>4, ClientMove
<1>7. CASE state[k] = "RENEWAIT"
  <2>1. state' = [state EXCEPT ![k] = "RENEWING"] /\ state'[k] = "RENEWING"
    BY Zenon, <1>0, <1>7, Typed DEF Timeout
  <2>2. Moves(k, d)
    BY Zenon, <1>0, <1>2, <1>3, <1>4, <1>7, <2>1, Typed DEF Moves, client_state_v4_t
  <2>3. MovesRenewal(k)
    BY Zenon, <1>0, <1>3, <1>4, <1>7 DEF MovesRenewal, Renewal4, RenewalIsReal4
  <2>4. Holds4(k)
    BY Zenon, <1>7 DEF Holds4
  <2>5. MovesLease(k, d)
    BY Zenon, <1>0, <1>2, <1>4, <2>1, <2>4 DEF MovesLease, LeaseInv, Leases4
  <2> QED BY Zenon, <2>2, <2>3, <2>5, ClientMove
<1> QED BY Zenon, <1>5, <1>6, <1>7 DEF Timeout

(* The client takes an answer that carries its identifier: it names the lease that the
   server has for this client. *)
LEMMA AnswerIsOwn ==
    ASSUME Inv4, NEW k \in Clients, NEW m \in Answers4(k)
    PROVE  /\ m \in net /\ ~IsQuestion(m) /\ m.ip \in Values
           /\ ~lapsed /\ m.type \in {"OFFER", "ACK"} => m.ip \in IPs
           /\ ~lapsed /\ m.type = "ACK" /\ m.xid = xid[k] => m.ip = lease[k]
<1>1. m \in net /\ ~IsQuestion(m)
  BY Zenon DEF Answers4, Questions4, IsQuestion
<1>2. xid[k] \in Room(k)
  BY Zenon, UsedInRoom DEF Inv4
<1> QED BY Zenon, <1>1, <1>2 DEF Inv4, Ids4, LeaseInv, Leases4

LEMMA ReceivesKeeps ==
    ASSUME Inv4, NEW k \in Clients, Receives(k)
    PROVE  Inv4'
<1>0. Ids4 /\ Renewal4 /\ LeaseInv
  BY Zenon DEF Inv4
<1> PICK m \in Answers4(k) : Offered(k, m) \/ Acked(k, m) \/ Naked(k, m) \/ Renewed(k, m)
  BY Zenon DEF Receives
<1>m. /\ m \in net /\ ~IsQuestion(m) /\ m.ip \in Values
      /\ ~lapsed /\ m.type \in {"OFFER", "ACK"} => m.ip \in IPs
      /\ ~lapsed /\ m.type = "ACK" /\ m.xid = xid[k] => m.ip = lease[k]
  BY Zenon, AnswerIsOwn
<1> DEFINE d == Question(k, "DISCOVER", xid[k], NoIp)
           e == Question(k, "DISCOVER", xid[k] + 1, NoIp)
           q == build_request(k, xid[k] + 1, m.ip)
<1>d. d.from = k /\ d.type = "DISCOVER" /\ d.xid = xid[k] /\ d.ip = NoIp /\ IsQuestion(d)
  BY QuestionFacts
<1>e. e.from = k /\ e.type = "DISCOVER" /\ e.xid = xid[k] + 1 /\ e.ip = NoIp /\ IsQuestion(e)
  BY QuestionFacts
<1>q. q.from = k /\ q.type = "REQUEST" /\ q.xid = xid[k] + 1 /\ q.ip = m.ip /\ IsQuestion(q)
  BY QuestionFacts DEF build_request
<1>n. Offered(k, m) => net' \subseteq net \union {q}
  BY Zenon DEF Offered, Send4
<1> HIDE DEF d, e, q
<1>b. More(k) => xid[k] + 1 <= Start[k] + MaxXids /\ xid[k] + 1 <= Start[k] + MaxXids + 1
  <2>1. xid[k] \in Nat /\ Start[k] \in Nat /\ MaxXids \in Nat
    BY Zenon, <1>0, Typed
  <2> QED BY ONLY <2>1 DEF More
<1>1. CASE Offered(k, m)
  <2>1. /\ state' = [state EXCEPT ![k] = "REQUESTING"] /\ More(k) /\ m.type = "OFFER"
        /\ xid' = [xid EXCEPT ![k] = xid[k] + 1] /\ offered_ip' = [offered_ip EXCEPT ![k] = m.ip]
        /\ UNCHANGED <<assigned_ip, lease, lapsed, period, renewed, claimed>>
    BY Zenon, <1>1 DEF Offered
  <2>2. /\ state'[k] = "REQUESTING" /\ xid'[k] = xid[k] + 1 /\ offered_ip'[k] = m.ip /\ ~Holds4(k)'
    BY Zenon, <1>0, <2>1, Typed DEF Holds4
  <2>3. Moves(k, q)
    BY Zenon, <1>0, <1>1, <1>m, <1>q, <1>n, <1>b, <2>1, <2>2, Typed DEF Moves, client_state_v4_t
  <2>4. MovesRenewal(k)
    BY Zenon, <1>0, <2>1, <2>2 DEF MovesRenewal, Renewal4, RenewalIsReal4
  <2>5. MovesLease(k, q)
    BY Zenon, <1>m, <1>q, <2>1, <2>2 DEF MovesLease
  <2> QED BY Zenon, <2>3, <2>4, <2>5, ClientMove
<1>2. CASE Acked(k, m)
  <2>1. /\ state' = [state EXCEPT ![k] = "BOUND"] /\ m.type = "ACK" /\ m.xid = xid[k]
        /\ state[k] = "REQUESTING" /\ assigned_ip' = [assigned_ip EXCEPT ![k] = m.ip]
        /\ UNCHANGED <<xid, offered_ip, net, lease, lapsed, period, renewed, claimed>>
    BY Zenon, <1>2 DEF Acked
  <2>2. /\ state'[k] = "BOUND" /\ assigned_ip'[k] = m.ip
    BY Zenon, <1>0, <2>1, Typed
  <2>3. Moves(k, d)
    BY Zenon, <1>0, <1>m, <1>d, <2>1, <2>2, Typed DEF Moves, client_state_v4_t
  <2>4. MovesRenewal(k)
    BY Zenon, <1>0, <2>1, <2>2 DEF MovesRenewal, Renewal4, RenewalIsReal4
  <2>5. MovesLease(k, d)
    BY Zenon, <1>m, <1>d, <2>1, <2>2 DEF MovesLease
  <2> QED BY Zenon, <2>3, <2>4, <2>5, ClientMove
<1>3. CASE Naked(k, m)
  <2>1. /\ state' = [state EXCEPT ![k] = "INIT"] /\ More(k)
        /\ xid' = [xid EXCEPT ![k] = xid[k] + 1]
        /\ UNCHANGED <<offered_ip, assigned_ip, net, lease, lapsed, period, renewed, claimed>>
    BY Zenon, <1>3 DEF Naked
  <2>2. /\ state'[k] = "INIT" /\ xid'[k] = xid[k] + 1 /\ ~Holds4(k)'
    BY Zenon, <1>0, <2>1, Typed DEF Holds4
  <2>3. Moves(k, e)
    BY Zenon, <1>0, <1>e, <1>b, <2>1, <2>2, Typed DEF Moves, client_state_v4_t
  <2>4. MovesRenewal(k)
    BY Zenon, <1>0, <2>1, <2>2 DEF MovesRenewal, Renewal4, RenewalIsReal4
  <2>5. MovesLease(k, e)
    BY Zenon, <1>e, <2>2 DEF MovesLease
  <2> QED BY Zenon, <2>3, <2>4, <2>5, ClientMove
<1>4. CASE Renewed(k, m)
  <2>1. /\ state' = [state EXCEPT ![k] = "BOUND"] /\ m.type = "ACK" /\ m.xid = xid[k]
        /\ state[k] = "RENEWAIT" /\ xid' = [xid EXCEPT ![k] = xid[k] + 1]
        /\ claimed' = claimed \union {<<k, period[k]>>}
        /\ UNCHANGED <<offered_ip, assigned_ip, net, lease, lapsed, period, renewed>>
    BY Zenon, <1>4 DEF Renewed
  <2>2. /\ state'[k] = "BOUND" /\ xid'[k] = xid[k] + 1
    BY Zenon, <1>0, <2>1, Typed
  <2>3. xid[k] + 1 <= Start[k] + MaxXids + 1
    BY <1>0, <2>1, Typed
  <2>4. Moves(k, e)
    BY Zenon, <1>0, <1>e, <2>1, <2>2, <2>3, Typed DEF Moves, client_state_v4_t
  <2>5. <<k, period[k]>> \in renewed
    BY Zenon, <1>0, <1>m, <2>1 DEF Renewal4
  <2>6. MovesRenewal(k)
    BY Zenon, <1>0, <2>1, <2>2, <2>5 DEF MovesRenewal, Renewal4, RenewalIsReal4
  <2>7. Holds4(k)
    BY Zenon, <2>1 DEF Holds4
  <2>8. MovesLease(k, e)
    BY Zenon, <1>0, <1>e, <2>1, <2>2, <2>7 DEF MovesLease, LeaseInv, Leases4
  <2> QED BY Zenon, <2>4, <2>6, <2>8, ClientMove
<1> QED BY Zenon, <1>1, <1>2, <1>3, <1>4

LEMMA LapseKeeps ==
    ASSUME Inv4, NEW k \in Clients, Lapse(k)
    PROVE  Inv4'
<1>1. /\ lease' = [lease EXCEPT ![k] = NoIp] /\ lapsed' = TRUE
      /\ UNCHANGED <<state, xid, offered_ip, assigned_ip, net, period, renewed, claimed>>
  BY Zenon DEF Lapse
<1>2. Ids4'
  <2>1. lease' \in [Clients -> Values]
    BY Zenon, <1>1 DEF Inv4, Ids4, Values
  <2> QED BY Zenon, <1>1, <2>1 DEF Inv4, Ids4, Used
<1>3. Renewal4'
  BY Zenon, <1>1 DEF Inv4, Renewal4, RenewalIsReal4
<1> QED BY Zenon, <1>1, <1>2, <1>3 DEF Inv4, LeaseInv

LEMMA Idle4Keeps ==
    ASSUME Inv4, UNCHANGED clientVars
    PROVE  Inv4'
<1>1. Ids4'
  BY Zenon DEF Inv4, Ids4, Used, clientVars
<1>2. Renewal4'
  BY Zenon DEF Inv4, Renewal4, RenewalIsReal4, clientVars
<1>3. LeaseInv'
  BY Zenon DEF Inv4, LeaseInv, Leases4, Holds4, clientVars
<1> QED BY Zenon, <1>1, <1>2, <1>3 DEF Inv4

(* A non-empty set of addresses has a first one. *)
LEMMA FirstOf ==
    ASSUME NEW A \in SUBSET Nat, A # {}
    PROVE  Min(A) \in A
<1> DEFINE R == OpToRel(<, Nat)
<1>1. PICK x \in A : \A y \in A : ~ (<<y, x>> \in R)
  <2>1. IsWellFoundedOn(R, Nat)
    BY Zenon, NatLessThanWellFounded
  <2> HIDE DEF R
  <2> QED BY Zenon, <2>1, WFMin
<1>2. ASSUME NEW y \in A PROVE x <= y
  <2>1. ~ (y < x)
    BY Zenon, <1>1 DEF OpToRel
  <2> QED BY <2>1
<1> QED BY Zenon, <1>2 DEF Min

(* Every question is the question of the one client whose identifier it has. *)
LEMMA QuestionIsOwn ==
    ASSUME Ids4, NEW q \in Questions4
    PROVE  /\ q \in net /\ IsQuestion(q) /\ q.from \in Clients /\ q.xid \in Used(q.from)
           /\ q.ip \in Values
           /\ \A k \in Clients : q.xid \in Room(k) => k = q.from
<1>1. q \in net /\ IsQuestion(q)
  BY Zenon DEF Questions4, IsQuestion
<1>2. PICK k \in Clients : q.xid \in Used(k) /\ q.from = k
  BY Zenon, <1>1 DEF Ids4
<1>3. q.xid \in Room(q.from)
  BY Zenon, <1>2, UsedInRoom
<1>4. \A l \in Clients : q.xid \in Room(l) => l = q.from
  BY Zenon, <1>2, <1>3, Apart
<1> QED BY Zenon, <1>1, <1>2, <1>4 DEF Ids4

(* The server adds an answer with the identifier of a question. *)
LEMMA ServerIds ==
    ASSUME Ids4, NEW q \in Questions4, NEW r, net' = net \union {r},
           ~IsQuestion(r), r.xid = q.xid, r.ip \in Values, lease' \in [Clients -> Values],
           UNCHANGED <<state, xid, offered_ip, assigned_ip, period>>
    PROVE  Ids4'
<1>1. q.from \in Clients /\ r.xid \in Used(q.from)
  BY Zenon, QuestionIsOwn
<1>2. \A k \in Clients : Used(k)' = Used(k)
  BY Zenon DEF Used
<1>3. \A m \in net' : \E k \in Clients : m.xid \in Used(k)' /\ (IsQuestion(m) => m.from = k)
  BY Zenon, <1>1, <1>2 DEF Ids4
<1>4. \A m \in net' : m.ip \in Values
  BY Zenon DEF Ids4
<1> QED BY Zenon, <1>3, <1>4 DEF Ids4

(* An ACK with the identifier of a renewal answers that renewal. *)
LEMMA ServerRenewal ==
    ASSUME Ids4, Renewal4, NEW q \in Questions4, NEW r, net' = net \union {r},
           ~IsQuestion(r), r.xid = q.xid, renewed \subseteq renewed',
           r.type = "ACK" /\ q.type = "RENEW" => <<q.from, q.period>> \in renewed',
           UNCHANGED <<state, xid, period, claimed>>
    PROVE  Renewal4'
<1>1. ASSUME NEW k \in Clients, state[k] \in {"RENEWING", "RENEWAIT"}, NEW m \in net', m.xid = xid[k]
      PROVE  /\ IsQuestion(m) => m.type = "RENEW" /\ m.period = period[k]
             /\ ~IsQuestion(m) /\ m.type = "ACK" => <<k, period[k]>> \in renewed'
  <2>1. CASE m \in net
    BY Zenon, <1>1, <2>1 DEF Renewal4
  <2>2. CASE m = r
    <3>1. xid[k] \in Room(k)
      BY Zenon, UsedInRoom
    <3>2. q.from = k /\ q \in net /\ IsQuestion(q)
      BY Zenon, <1>1, <2>2, <3>1, QuestionIsOwn
    <3>3. q.type = "RENEW" /\ q.period = period[k]
      BY Zenon, <1>1, <2>2, <3>2 DEF Renewal4
    <3> QED BY Zenon, <2>2, <3>2, <3>3
  <2> QED BY Zenon, <2>1, <2>2
<1>2. claimed' \subseteq renewed'
  BY Zenon DEF Renewal4, RenewalIsReal4
<1> QED BY Zenon, <1>1, <1>2 DEF Renewal4, RenewalIsReal4

(* The server gives the client that asks an address of its own, or leaves the leases
   alone; what it names in its answer r is what that client has. *)
Gives(q, r, ip) ==
    /\ net' = net \union {r} /\ ~IsQuestion(r) /\ r.xid = q.xid
    /\ lease' = [lease EXCEPT ![q.from] = ip]
    /\ lease[q.from] # NoIp => ip = lease[q.from]
    /\ ip # NoIp => \A l \in Clients : lease[l] = ip => l = q.from
    /\ r.type \in {"OFFER", "ACK"} => r.ip \in IPs /\ r.ip = ip
    /\ UNCHANGED <<state, xid, offered_ip, assigned_ip, lapsed>>

LEMMA ServerLease ==
    ASSUME Ids4, LeaseInv, NEW q \in Questions4, NEW r, NEW ip, Gives(q, r, ip)
    PROVE  LeaseInv'
<1> USE DEF Gives
<1> SUFFICES ASSUME ~lapsed PROVE Leases4'
  BY Zenon DEF LeaseInv
<1>1. Leases4
  BY Zenon DEF LeaseInv
<1>2. q.from \in Clients /\ (\A k \in Clients : q.xid \in Room(k) => k = q.from)
  BY Zenon, QuestionIsOwn
<1>3. lease \in [Clients -> Values] /\ NoIp \notin IPs
  BY Zenon, ClientAssumption DEF Ids4
<1>4. \A k \in Clients : lease[k] # NoIp => lease'[k] = lease[k]
  BY Zenon, <1>2, <1>3
<1>5. lease'[q.from] = ip /\ \A k \in Clients \ {q.from} : lease'[k] = lease[k]
  BY Zenon, <1>2, <1>3
<1>6. ASSUME NEW k \in Clients, NEW l \in Clients, lease'[k] = lease'[l], lease'[k] # NoIp PROVE k = l
  <2>1. \A i, j \in Clients : lease[i] = lease[j] /\ lease[i] # NoIp => i = j
    BY Zenon, <1>1 DEF Leases4
  <2>2. ip # NoIp => \A i \in Clients : lease[i] = ip => i = q.from
    BY Zenon
  <2> QED BY ONLY Zenon, <1>2, <1>5, <1>6, <2>1, <2>2
<1>7. \A k \in Clients : Room(k)' = Room(k)
  BY Zenon DEF Room
<1>8. ASSUME NEW m \in net', ~IsQuestion(m), m.type \in {"OFFER", "ACK"}
      PROVE  m.ip \in IPs /\ \A k \in Clients : m.xid \in Room(k) => m.ip = lease'[k]
  <2>1. CASE m \in net
    <3>1. m.ip \in IPs /\ \A k \in Clients : m.xid \in Room(k) => m.ip = lease[k]
      BY Zenon, <1>1, <1>8, <2>1 DEF Leases4
    <3> QED BY ONLY <1>3, <1>4, <3>1
  <2>2. CASE m = r
    BY Zenon, <1>2, <1>5, <1>8, <2>2
  <2> QED BY Zenon, <2>1, <2>2
<1>9. ASSUME NEW m \in net', IsQuestion(m)
      PROVE  /\ m.type = "REQUEST" => m.ip \in IPs
             /\ m.type = "RENEW" => m.ip \in IPs /\ m.ip = lease'[m.from]
  <2>1. m \in net /\ m.from \in Clients
    BY Zenon, <1>9 DEF Ids4
  <2>2. /\ m.type = "REQUEST" => m.ip \in IPs
        /\ m.type = "RENEW" => m.ip \in IPs /\ m.ip = lease[m.from]
    BY Zenon, <1>1, <1>9, <2>1 DEF Leases4
  <2>3. lease[m.from] \in IPs => lease'[m.from] = lease[m.from]
    BY Zenon, <1>3, <1>4, <2>1
  <2> QED BY ONLY Zenon, <2>2, <2>3
<1>10. ASSUME NEW k \in Clients
       PROVE  /\ Holds4(k)' => assigned_ip'[k] \in IPs /\ assigned_ip'[k] = lease'[k]
              /\ state'[k] = "REQUESTING" => offered_ip'[k] \in IPs
  <2>1. Holds4(k)' => Holds4(k)
    BY Zenon DEF Holds4
  <2>2. /\ Holds4(k) => assigned_ip[k] \in IPs /\ assigned_ip[k] = lease[k]
        /\ state[k] = "REQUESTING" => offered_ip[k] \in IPs
    BY Zenon, <1>1 DEF Leases4
  <2>3. assigned_ip'[k] = assigned_ip[k] /\ offered_ip'[k] = offered_ip[k] /\ state'[k] = state[k]
    BY Zenon
  <2>4. lease[k] \in IPs => lease'[k] = lease[k]
    BY Zenon, <1>3, <1>4
  <2> QED BY ONLY Zenon, <2>1, <2>2, <2>3, <2>4
<1> QED BY Zenon, <1>6, <1>7, <1>8, <1>9, <1>10 DEF Leases4

LEMMA ServesKeeps ==
    ASSUME Inv4, Serves
    PROVE  Inv4'
<1>0. Ids4 /\ Renewal4 /\ LeaseInv
  BY Zenon DEF Inv4
<1>1. UNCHANGED <<state, xid, offered_ip, assigned_ip, lapsed, period, claimed>>
  BY Zenon DEF Serves
<1> PICK q \in Questions4 : ServerOffers(q) \/ ServerConfirms(q) \/ ServerRenews(q)
  BY Zenon DEF Serves
<1>2. /\ q \in net /\ IsQuestion(q) /\ q.from \in Clients /\ q.ip \in Values
  BY Zenon, <1>0, QuestionIsOwn
<1>3. lease \in [Clients -> Values] /\ lease[q.from] \in Values /\ NoIp \notin IPs /\ IPs \subseteq Nat
  BY Zenon, <1>0, <1>2, ClientAssumption DEF Ids4
<1>4. lease = [lease EXCEPT ![q.from] = lease[q.from]]
  BY Zenon, <1>2, <1>3
<1>5. ~lapsed /\ lease[q.from] # NoIp => \A l \in Clients : lease[l] = lease[q.from] => l = q.from
  BY Zenon, <1>0, <1>2 DEF LeaseInv, Leases4
<1>6. CASE ServerOffers(q)
  <2> DEFINE free == {i \in IPs : Owner(i) = {}}
             ip == IF lease[q.from] # NoIp THEN lease[q.from] ELSE Min(free)
             r == Answer(Clients, "OFFER", q, ip)
  <2>1. /\ q.type = "DISCOVER" /\ (lease[q.from] = NoIp => free # {})
        /\ lease' = [lease EXCEPT ![q.from] = ip] /\ net' = net \union {r} /\ renewed' = renewed
    BY Zenon, <1>6 DEF ServerOffers
  <2>2. lease[q.from] = NoIp => ip \in free
    <3>1. free \in SUBSET Nat
      BY Zenon, <1>3
    <3> HIDE DEF free
    <3> QED BY Zenon, <2>1, <3>1, FirstOf
  <2>3. lease[q.from] = NoIp => ip \in IPs /\ \A l \in Clients : lease[l] # ip
    <3> HIDE DEF ip
    <3> QED BY Zenon, <2>2 DEF Owner
  <2>4. lease[q.from] # NoIp => ip = lease[q.from]
    BY Zenon
  <2>5. r.type = "OFFER" /\ r.xid = q.xid /\ r.ip = ip /\ ~IsQuestion(r)
    <3> HIDE DEF ip
    <3> QED BY ONLY Zenon, AnswerFacts
  <2> HIDE DEF r, ip, free
  <2>6. ip \in IPs
    BY Zenon, <1>3, <2>3, <2>4 DEF Values
  <2>7. ip \in Values /\ lease' \in [Clients -> Values]
    BY Zenon, <1>3, <2>1, <2>6 DEF Values
  <2>8. Ids4'
    BY Zenon, <1>0, <1>1, <2>1, <2>5, <2>7, ServerIds
  <2>9. Renewal4'
    BY Zenon, <1>0, <1>1, <2>1, <2>5, ServerRenewal
  <2>10. LeaseInv'
    <3>1. CASE lapsed
      BY Zenon, <1>1, <3>1 DEF LeaseInv
    <3>2. CASE ~lapsed
      <4>1. \A l \in Clients : lease[l] = ip => l = q.from
        BY Zenon, <1>5, <2>3, <2>4, <3>2
      <4>2. Gives(q, r, ip)
        BY Zenon, <1>1, <2>1, <2>4, <2>5, <2>6, <4>1 DEF Gives
      <4> QED BY Zenon, <1>0, <4>2, ServerLease
    <3> QED BY Zenon, <3>1, <3>2
  <2> QED BY Zenon, <2>8, <2>9, <2>10 DEF Inv4
<1>7. CASE ServerConfirms(q)
  <2> DEFINE r == IF lease[q.from] = q.ip THEN Answer(Clients, "ACK", q, q.ip)
                                          ELSE Answer(Clients, "NAK", q, NoIp)
  <2>1. q.type = "REQUEST" /\ net' = net \union {r} /\ lease' = lease /\ renewed' = renewed
    BY Zenon, <1>7 DEF ServerConfirms
  <2>2. /\ ~IsQuestion(r) /\ r.xid = q.xid /\ r.ip \in Values /\ r.type \in {"ACK", "NAK"}
        /\ r.type = "ACK" => r.ip = q.ip /\ q.ip = lease[q.from]
    <3>1. LET a == Answer(Clients, "ACK", q, q.ip)
          IN  a.type = "ACK" /\ a.xid = q.xid /\ a.ip = q.ip /\ ~IsQuestion(a)
      BY Zenon, AnswerFacts
    <3>2. LET a == Answer(Clients, "NAK", q, NoIp)
          IN  a.type = "NAK" /\ a.xid = q.xid /\ a.ip = NoIp /\ ~IsQuestion(a)
      BY Zenon, AnswerFacts
    <3> QED BY Zenon, <1>2, <3>1, <3>2 DEF Values
  <2> HIDE DEF r
  <2>3. Ids4'
    BY Zenon, <1>0, <1>1, <1>3, <2>1, <2>2, ServerIds
  <2>4. Renewal4'
    BY Zenon, <1>0, <1>1, <2>1, <2>2, ServerRenewal
  <2>5. LeaseInv'
    <3>1. CASE lapsed
      BY Zenon, <1>1, <3>1 DEF LeaseInv
    <3>2. CASE ~lapsed
      <4>1. q.ip \in IPs
        BY Zenon, <1>0, <1>2, <2>1, <3>2 DEF LeaseInv, Leases4
      <4>2. lease' = [lease EXCEPT ![q.from] = lease[q.from]]
        BY Zenon, <1>4, <2>1
      <4>3. r.type \in {"OFFER", "ACK"} => r.ip \in IPs /\ r.ip = lease[q.from]
        BY Zenon, <2>2, <4>1
      <4>4. Gives(q, r, lease[q.from])
        BY Zenon, <1>1, <1>5, <2>1, <2>2, <3>2, <4>2, <4>3 DEF Gives
      <4> QED BY Zenon, <1>0, <4>4, ServerLease
    <3> QED BY Zenon, <3>1, <3>2
  <2> QED BY Zenon, <2>3, <2>4, <2>5 DEF Inv4
<1>8. CASE ServerRenews(q)
  <2> DEFINE r == Answer({c \in Clients : assigned_ip[c] = q.ip}, "ACK", q, q.ip)
  <2>1. /\ q.type = "RENEW" /\ net' = net \union {r} /\ lease' = lease
        /\ renewed' = renewed \union {<<q.from, q.period>>}
    BY Zenon, <1>8 DEF ServerRenews
  <2>2. ~IsQuestion(r) /\ r.xid = q.xid /\ r.ip = q.ip /\ r.type = "ACK"
    BY AnswerFacts
  <2> HIDE DEF r
  <2>3. Ids4'
    BY Zenon, <1>0, <1>1, <1>2, <1>3, <2>1, <2>2, ServerIds
  <2>4. Renewal4'
    <3>1. renewed \subseteq renewed' /\ <<q.from, q.period>> \in renewed'
      BY Zenon, <2>1
    <3> QED BY Zenon, <1>0, <1>1, <2>1, <2>2, <3>1, ServerRenewal
  <2>5. LeaseInv'
    <3>1. CASE lapsed
      BY Zenon, <1>1, <3>1 DEF LeaseInv
    <3>2. CASE ~lapsed
      <4>1. q.ip \in IPs /\ q.ip = lease[q.from]
        BY Zenon, <1>0, <1>2, <2>1, <3>2 DEF LeaseInv, Leases4
      <4>2. lease' = [lease EXCEPT ![q.from] = lease[q.from]]
        BY Zenon, <1>4, <2>1
      <4>3. Gives(q, r, lease[q.from])
        BY Zenon, <1>1, <1>5, <2>1, <2>2, <3>2, <4>1, <4>2 DEF Gives
      <4> QED BY Zenon, <1>0, <4>3, ServerLease
    <3> QED BY Zenon, <3>1, <3>2
  <2> QED BY Zenon, <2>3, <2>4, <2>5 DEF Inv4
<1> QED BY Zenon, <1>6, <1>7, <1>8

LEMMA Inv4Init == ClientInit => Inv4
<1> SUFFICES ASSUME ClientInit PROVE Inv4
  BY Zenon
<1>1. Ids4
  BY Zenon, Ids4Init
<1>2. net = {} /\ claimed = {} /\ \A k \in Clients : state[k] = "INIT" /\ lease[k] = NoIp
  BY Zenon DEF ClientInit
<1>3. Renewal4
  BY Zenon, <1>2 DEF Renewal4, RenewalIsReal4
<1>4. LeaseInv
  BY Zenon, <1>2 DEF LeaseInv, Leases4, Holds4
<1> QED BY Zenon, <1>1, <1>3, <1>4 DEF Inv4

LEMMA Inv4Step == Inv4 /\ [ClientNext]_clientVars => Inv4'
<1> SUFFICES ASSUME Inv4, [ClientNext]_clientVars PROVE Inv4'
  BY Zenon
<1>1. ASSUME NEW k \in Clients, ClientStep(k) \/ T1(k) \/ Receives(k) \/ Lapse(k)
      PROVE  Inv4'
  BY Zenon, <1>1, DiscoverKeeps, RenewKeeps, TimeoutKeeps, T1Keeps, ReceivesKeeps, LapseKeeps
     DEF ClientStep
<1>2. CASE Serves
  BY Zenon, <1>2, ServesKeeps
<1>3. CASE UNCHANGED clientVars
  BY Zenon, <1>3, Idle4Keeps
<1> QED BY Zenon, <1>1, <1>2, <1>3 DEF ClientNext

(* The address a client uses is the one that the server has for it, and the server has
   no address for two: no two clients use the same address (client_v4.c, the ACK in
   REQUESTING), whatever is lost, late, repeated or meant for another client. *)
THEOREM NoSharedAddress == ClientInit /\ [][ClientNext]_clientVars => []AddressesDiffer
<1>1. Inv4 => AddressesDiffer
  <2> SUFFICES ASSUME Inv4, ~lapsed, NEW k \in Clients, NEW l \in Clients, Holds4(k), Holds4(l),
                      assigned_ip[k] = assigned_ip[l]
               PROVE  k = l
    BY Zenon DEF AddressesDiffer
  <2>1. lease[k] = lease[l] /\ lease[k] \in IPs /\ NoIp \notin IPs
    BY Zenon, ClientAssumption DEF Inv4, LeaseInv, Leases4
  <2> QED BY Zenon, <2>1 DEF Inv4, LeaseInv, Leases4
<1> QED BY <1>1, Inv4Init, Inv4Step, PTL

(* A client takes its lease for renewed only when the server renewed it after the same
   T1 (client_v4.c, the ACK in RENEWING). *)
THEOREM RenewalsAreReal4 == ClientInit /\ [][ClientNext]_clientVars => []RenewalIsReal4
<1>1. Inv4 => RenewalIsReal4
  BY Zenon DEF Inv4, Renewal4
<1> QED BY <1>1, Inv4Init, Inv4Step, PTL

--------------------------------------------------------------------------------
(* The DNS server. *)

(* An entry lies on the path of the name it answers, and expires TTL seconds after the
   upstream server gave the answer. *)
Sound(k, e) ==
    /\ Key[e.answer.name] = k
    /\ e.answer.at \in Nat /\ e.expires_at = e.answer.at + TTL

CacheInv ==
    /\ clock \in Nat
    /\ place = "forward" => query \in Queries
    /\ DOMAIN cache = Names
    /\ \A k \in Names : cache[k] # NoEntry => Sound(k, cache[k])
    /\ CachedIsFresh

LEMMA MadeFacts ==
    ASSUME NEW from, NEW q
    PROVE  LET a == Made(from, q) IN a.from = from /\ a.name = q.name /\ a.at = clock /\ a.sent = clock
  BY Zenon DEF Made

LEMMA AgainFacts ==
    ASSUME NEW b
    PROVE  LET a == Again(b) IN a.name = b.name /\ a.at = b.at /\ a.sent = clock
  BY Zenon DEF Again

LEMMA CacheInit == DnsInit => CacheInv
  BY DEF DnsInit, CacheInv, CachedIsFresh

(* What a look-up finds is a sound entry that has not expired. *)
LEMMA LookupFacts ==
    ASSUME CacheInv, NEW n \in Names, cache_lookup(n) # NoEntry
    PROVE  Sound(Key[n], cache_lookup(n)) /\ clock < cache_lookup(n).expires_at
<1>1. Key[n] # NoName /\ ~Expired(Key[n]) /\ cache_lookup(n) = cache[Key[n]]
  BY Zenon DEF cache_lookup
<1>2. Key[n] \in Names
  BY Zenon, <1>1, DnsAssumption
<1>3. cache[Key[n]] # NoEntry
  BY Zenon, <1>1
<1>4. Sound(Key[n], cache[Key[n]])
  BY Zenon, <1>2, <1>3 DEF CacheInv
<1>5. cache[Key[n]].expires_at \in Nat /\ clock \in Nat
  BY <1>4, DnsAssumption DEF Sound, CacheInv
<1>6. ~(clock >= cache[Key[n]].expires_at)
  BY Zenon, <1>1, <1>3 DEF Expired
<1> QED BY <1>1, <1>4, <1>5, <1>6

LEMMA QueryKeeps ==
    ASSUME CacheInv, NEW q \in Queries, Query(q)
    PROVE  CacheInv'
<1> DEFINE entry == cache_lookup(q.name)
           cached == IF entry = NoEntry THEN {} ELSE {Again(entry.answer)}
           local == {Made("local", [name |-> r[1], type |-> r[2]]) : r \in handle_local_zone_query(q)}
<1>0. q.name \in Names /\ q \in Queries
  BY Zenon DEF Queries
<1>1. query' = q /\ cache' = Forgotten(q.name) /\ clock' = clock
  BY Zenon DEF Query
<1>2. answers' \subseteq cached \union local
  <2>1. IF local # {} THEN \E a \in local : answers' = cached \union {a} ELSE answers' = cached
    BY Zenon DEF Query
  <2> HIDE DEF cached, local
  <2> QED BY Zenon, <2>1
<1>3. ASSUME NEW a \in local PROVE a.from # "cache"
  <2>1. PICK r \in handle_local_zone_query(q) : a = Made("local", [name |-> r[1], type |-> r[2]])
    BY Zenon
  <2> QED BY ONLY Zenon, <2>1 DEF Made
<1>4. \A a \in cached : Key[a.name] = Key[q.name] /\ a.sent < a.at + TTL
  <2> SUFFICES ASSUME NEW a \in cached PROVE Key[a.name] = Key[q.name] /\ a.sent < a.at + TTL
    BY Zenon
  <2>1. entry # NoEntry /\ a = Again(entry.answer)
    BY Zenon
  <2> HIDE DEF entry
  <2>2. Sound(Key[q.name], entry) /\ clock < entry.expires_at
    BY Zenon, <1>0, <2>1, LookupFacts DEF entry
  <2>3. a.name = entry.answer.name /\ a.at = entry.answer.at /\ a.sent = clock
    BY Zenon, <2>1, AgainFacts
  <2> QED BY Zenon, <2>2, <2>3 DEF Sound
<1> HIDE DEF cached, local
<1>5. CachedIsFresh'
  BY Zenon, <1>1, <1>2, <1>3, <1>4 DEF CachedIsFresh
<1>6. /\ DOMAIN cache' = Names
      /\ \A k \in Names : cache'[k] # NoEntry => cache'[k] = cache[k]
  BY Zenon, <1>1 DEF Forgotten, CacheInv
<1>7. \A k \in Names : cache'[k] # NoEntry => Sound(k, cache'[k])
  BY Zenon, <1>6 DEF CacheInv
<1> QED BY Zenon, <1>0, <1>1, <1>5, <1>6, <1>7 DEF CacheInv, Sound

LEMMA ForwardedKeeps ==
    ASSUME CacheInv, Forwarded
    PROVE  CacheInv'
<1> DEFINE a == Made("upstream", query)
<1>1. /\ cache' = cache_insert(query.name, a) /\ answers' = answers \union {a}
      /\ query' = query /\ clock' = clock /\ place' = "recv" /\ query \in Queries
  BY Zenon DEF Forwarded, CacheInv
<1>2. a.from = "upstream" /\ a.name = query.name /\ a.at = clock
  BY Zenon, MadeFacts
<1> HIDE DEF a
<1>3. CachedIsFresh'
  BY Zenon, <1>1, <1>2 DEF CachedIsFresh, CacheInv
<1>4. DOMAIN cache' = Names
  BY Zenon, <1>1 DEF cache_insert, CacheInv
<1>5. ASSUME NEW k \in Names, cache'[k] # NoEntry PROVE Sound(k, cache'[k])
  <2> DEFINE new == [answer |-> a, expires_at |-> clock + TTL]
  <2>1. cache'[k] = cache[k] \/ (k = Key[query.name] /\ cache'[k] = new)
    BY Zenon, <1>1 DEF cache_insert, CacheInv
  <2>2. new.answer = a /\ new.expires_at = clock + TTL
    BY Zenon
  <2> HIDE DEF new
  <2>3. k = Key[query.name] => Sound(k, new)
    BY Zenon, <1>2, <2>2 DEF Sound, CacheInv
  <2> QED BY Zenon, <1>5, <2>1, <2>3 DEF CacheInv
<1>6. clock' \in Nat /\ place' # "forward"
  BY Zenon, <1>1 DEF CacheInv
<1>7. \A k \in Names : cache'[k] # NoEntry => Sound(k, cache'[k])
  BY Zenon, <1>5
<1> QED BY Zenon, <1>3, <1>4, <1>6, <1>7 DEF CacheInv, Sound

LEMMA CacheStep == CacheInv /\ [DnsNext]_dnsVars => CacheInv'
<1> SUFFICES ASSUME CacheInv, [DnsNext]_dnsVars PROVE CacheInv'
  BY Zenon
<1>1. ASSUME NEW q \in Queries, Query(q) PROVE CacheInv'
  BY Zenon, <1>1, QueryKeeps
<1>2. CASE Forwarded
  BY Zenon, <1>2, ForwardedKeeps
<1>3. CASE NotForwarded
  BY Zenon, <1>3 DEF NotForwarded, CacheInv, CachedIsFresh, Sound
<1>4. CASE Tick
  BY <1>4 DEF Tick, CacheInv, CachedIsFresh, Sound
<1>5. CASE DnsStops
  BY Zenon, <1>5 DEF DnsStops, CacheInv, CachedIsFresh
<1>6. CASE UNCHANGED dnsVars
  BY Zenon, <1>6 DEF dnsVars, CacheInv, CachedIsFresh, Sound
<1> QED BY Zenon, <1>1, <1>2, <1>3, <1>4, <1>5, <1>6 DEF DnsNext

(* Whatever the cache answers with (dns_cache.c, cache_lookup) was given by the upstream
   server for the same path less than TTL seconds ago. *)
THEOREM CacheIsFresh == DnsInit /\ [][DnsNext]_dnsVars => []CachedIsFresh
<1>1. CacheInv => CachedIsFresh
  BY Zenon DEF CacheInv
<1> QED BY <1>1, CacheInit, CacheStep, PTL

--------------------------------------------------------------------------------
(* The worker pool *)

USE QueueSizeAssumption, WorkersAssumption, IdleAssumption, MaxDestroysAssumption

(***************************************************************************)
(* The inductive invariant.  Beyond the types and the ring arithmetic it   *)
(* says which pool phase goes with which value of shutdown, that tasks are *)
(* only accepted once every worker exists, that a worker leaves a          *)
(* gracefully closing pool only when the buffer is empty, and that workers *)
(* and buffer slots in use hold real tasks.                                *)
(***************************************************************************)
PoolInv ==
    /\ TypeOK
    /\ RingConsistent
    /\ shutdown = 0 <=> life \in {"creating", "open"}
    /\ (\E w \in Workers : pc[w] = "unborn") => count = 0 /\ life # "open" /\ life # "joining"
    /\ (\E w \in Workers : pc[w] = "exited") => MustExit
    /\ \A w \in Workers : pc[w] = "running" <=> task[w] # Idle
    /\ life = "freed" => \A w \in Workers : pc[w] \in {"unborn", "exited"}
    /\ \A i \in 1 .. count : Buffered[i] \in Tasks

(* A new pool has an empty buffer and no worker. *)
LEMMA PoolInvInit == Init => PoolInv
  <1> SUFFICES ASSUME Init PROVE PoolInv
    BY Zenon
  <1>1. TypeOK
    BY DEF Init, TypeOK, Slots
  <1>2. RingConsistent
    BY DEF Init, RingConsistent
  <1> QED
    BY <1>1, <1>2 DEF Init, PoolInv

(***************************************************************************)
(* thread_pool_add puts its task after those already buffered: the slot at *)
(* tail is none of the count slots from head on.                           *)
(***************************************************************************)
LEMMA BufferAppend ==
    ASSUME PoolInv, NEW t \in Tasks, AddAccepted(t)
    PROVE  /\ count' = count + 1
           /\ \A i \in 1 .. count : Buffered'[i] = Buffered[i]
           /\ Buffered'[count + 1] = t
           /\ RingConsistent'
  <1>a. /\ head \in 0 .. QueueSize - 1
        /\ count \in 0 .. QueueSize
        /\ tail = (head + count) % QueueSize
        /\ queue \in [0 .. QueueSize - 1 -> Tasks \union {Idle}]
        /\ tail \in 0 .. QueueSize - 1
    BY Zenon DEF PoolInv, TypeOK, RingConsistent, Slots
  <1>1. /\ count' = count + 1 /\ head' = head /\ count < QueueSize
        /\ queue' = [queue EXCEPT ![tail] = t]
    BY <1>a DEF AddAccepted
  <1>2. ASSUME NEW i \in 1 .. count
        PROVE  (head + i - 1) % QueueSize # tail
    <2>1. /\ head + i - 1 \in 0 .. 2 * QueueSize - 1
          /\ head + count \in 0 .. 2 * QueueSize - 1
      BY <1>a, <1>1
    <2>2. (head + i - 1) % QueueSize
            = IF head + i - 1 < QueueSize THEN head + i - 1 ELSE head + i - 1 - QueueSize
      BY <1>a, <2>1
    <2>3. tail = IF head + count < QueueSize THEN head + count ELSE head + count - QueueSize
      BY <1>a, <2>1
    <2> QED
      BY <1>a, <1>1, <2>2, <2>3
  <1>3. ASSUME NEW i \in 1 .. count
        PROVE  Buffered'[i] = Buffered[i]
    <2>1. head + i - 1 \in 0 .. 2 * QueueSize - 1
      BY <1>a, <1>1
    <2> QED
      BY <1>a, <1>1, <1>2, <2>1 DEF Buffered
  <1>4. Buffered'[count + 1] = t
    <2>1. head + (count + 1) - 1 = head + count
      BY <1>a
    <2> QED
      BY <1>a, <1>1, <2>1 DEF Buffered
  <1>5. RingConsistent'
    <2>1. tail' = (tail + 1) % QueueSize
      BY Zenon DEF AddAccepted
    <2>2. tail = IF head + count < QueueSize THEN head + count ELSE head + count - QueueSize
      BY <1>a
    <2>3. (tail + 1) % QueueSize = (head + (count + 1)) % QueueSize
      BY <1>a, <1>1, <2>2
    <2> QED
      BY Zenon, <1>1, <2>1, <2>3 DEF RingConsistent
  <1> QED
    BY Zenon, <1>1, <1>3, <1>4, <1>5

(***************************************************************************)
(* A worker takes the oldest buffered task and leaves the others in order. *)
(***************************************************************************)
LEMMA BufferPop ==
    ASSUME PoolInv, NEW w \in Workers, WorkerTakes(w)
    PROVE  /\ count \in 1 .. QueueSize
           /\ count' = count - 1
           /\ task' = [task EXCEPT ![w] = Buffered[1]]
           /\ Buffered[1] \in Tasks
           /\ \A i \in 1 .. count - 1 : Buffered'[i] = Buffered[i + 1]
           /\ RingConsistent'
  <1>a. /\ head \in 0 .. QueueSize - 1
        /\ tail = (head + count) % QueueSize
        /\ count \in 0 .. QueueSize
        /\ queue \in [0 .. QueueSize - 1 -> Tasks \union {Idle}]
        /\ shutdown \in {0, 1, 2}
    BY Zenon DEF PoolInv, TypeOK, RingConsistent, Slots
  <1>1. /\ count' = count - 1 /\ head' = (head + 1) % QueueSize /\ queue' = queue
        /\ count \in 1 .. QueueSize
        /\ task' = [task EXCEPT ![w] = queue[head]]
    BY <1>a DEF WorkerTakes, MustExit
  <1>b. head' = IF head + 1 < QueueSize THEN head + 1 ELSE 0
    BY <1>a, <1>1
  <1>2. Buffered[1] = queue[head]
    BY <1>a, <1>1 DEF Buffered
  <1>3. ASSUME NEW i \in 1 .. count - 1
        PROVE  Buffered'[i] = Buffered[i + 1]
    <2>1. /\ head + (i + 1) - 1 \in 0 .. 2 * QueueSize - 1
          /\ head + 1 \in 0 .. 2 * QueueSize - 1
          /\ head' + i - 1 \in 0 .. 2 * QueueSize - 1
      BY <1>a, <1>1, <1>b
    <2>2. (head' + i - 1) % QueueSize = (head + (i + 1) - 1) % QueueSize
      BY <1>a, <1>b, <2>1
    <2> QED
      BY <1>a, <1>1, <2>2 DEF Buffered
  <1>4. Buffered[1] \in Tasks
    BY <1>1 DEF PoolInv
  <1>5. RingConsistent'
    <2>1. (head' + (count - 1)) % QueueSize = (head + count) % QueueSize
      <3>1. CASE head + 1 < QueueSize
        <4>1. head' + (count - 1) = head + count
          BY <1>a, <1>1, <1>b, <3>1
        <4> QED
          BY Zenon, <4>1
      <3>2. CASE head + 1 = QueueSize
        <4>1. head' + (count - 1) = count - 1 /\ head + count = QueueSize + (count - 1)
          BY <1>a, <1>1, <1>b, <3>2
        <4>2. (count - 1) % QueueSize = (QueueSize + (count - 1)) % QueueSize
          BY <1>a, <1>1
        <4> QED
          BY Zenon, <4>1, <4>2
      <3> QED
        BY <1>a, <3>1, <3>2
    <2> QED
      BY Zenon, <1>a, <1>1, <2>1 DEF RingConsistent, WorkerTakes
  <1> QED
    BY Zenon, <1>1, <1>2, <1>3, <1>4, <1>5

(* The buffer changes only when one of its variables does. *)
LEMMA BufferSame ==
    ASSUME UNCHANGED <<queue, head, count>>
    PROVE  Buffered' = Buffered
  BY Zenon DEF Buffered

(***************************************************************************)
(* Every step of the pool preserves the invariant, one case per action.    *)
(***************************************************************************)
LEMMA PoolInvStep == PoolInv /\ [Next]_vars => PoolInv'
  <1> SUFFICES ASSUME PoolInv, [Next]_vars PROVE PoolInv'
    BY Zenon
  <1> USE DEF PoolInv, TypeOK, RingConsistent, MustExit
  <1>1. ASSUME NEW w \in Workers, CreateWorker(w) PROVE PoolInv'
    BY Zenon, <1>1, BufferSame DEF CreateWorker
  <1>2. CASE CreateReturns
    BY Zenon, <1>2, BufferSame DEF CreateReturns
  <1>3. CASE CreateFails
    BY <1>3, BufferSame DEF CreateFails, Broadcast
  <1>4. ASSUME NEW t \in Tasks, AddRefused(t) PROVE PoolInv'
    BY Zenon, <1>4, BufferSame DEF AddRefused
  <1>5. ASSUME NEW t \in Tasks, AddAccepted(t) PROVE PoolInv'
    <2>1. TypeOK'
      BY <1>5 DEF AddAccepted, Signal, Slots
    <2>2. RingConsistent'
      BY Zenon, <1>5, BufferAppend
    <2>3. \A i \in 1 .. count' : Buffered'[i] \in Tasks
      BY <1>5, BufferAppend
    <2> QED
      BY <1>5, <2>1, <2>2, <2>3 DEF AddAccepted, Signal
  <1>6. ASSUME NEW flags \in {0, 1}, DestroyBegin(flags) PROVE PoolInv'
    BY <1>6, BufferSame DEF DestroyBegin, Broadcast
  <1>7. CASE DestroyAgain
    BY <1>7, BufferSame DEF DestroyAgain
  <1>8. CASE DestroyReturns
    BY Zenon, <1>8, BufferSame DEF DestroyReturns
  <1>9. ASSUME NEW w \in Workers, WorkerWaits(w) PROVE PoolInv'
    BY Zenon, <1>9, BufferSame DEF WorkerWaits
  <1>10. ASSUME NEW w \in Workers, WorkerExits(w) PROVE PoolInv'
    BY Zenon, <1>10, BufferSame DEF WorkerExits
  <1>11. ASSUME NEW w \in Workers, WorkerTakes(w) PROVE PoolInv'
    <2>1. TypeOK'
      BY SMTT(30), <1>11, BufferPop DEF WorkerTakes, Slots
    <2>2. RingConsistent'
      BY Zenon, <1>11, BufferPop
    <2>3. \A i \in 1 .. count' : Buffered'[i] \in Tasks
      BY SMTT(30), <1>11, BufferPop
    <2>4. /\ task' = [task EXCEPT ![w] = Buffered[1]]
          /\ Buffered[1] # Idle
      BY Zenon, <1>11, BufferPop
    <2>5. \A v \in Workers : pc'[v] = "running" <=> task'[v] # Idle
      BY Zenon, <1>11, <2>4 DEF WorkerTakes
    <2> QED
      BY Zenon, <1>11, <2>1, <2>2, <2>3, <2>5, BufferPop DEF WorkerTakes
  <1>12. ASSUME NEW w \in Workers, WorkerFinishes(w) PROVE PoolInv'
    BY Zenon, <1>12, BufferSame DEF WorkerFinishes
  <1>13. ASSUME NEW w \in Workers, SpuriousWakeup(w) PROVE PoolInv'
    BY Zenon, <1>13, BufferSame DEF SpuriousWakeup
  <1>14. CASE Terminated \/ UNCHANGED vars
    BY Zenon, <1>14, BufferSame DEF Terminated, vars
  <1> QED
    BY Zenon, <1>1, <1>2, <1>3, <1>4, <1>5, <1>6, <1>7, <1>8, <1>9, <1>10, <1>11, <1>12,
       <1>13, <1>14 DEF Next, WorkerStep

(***************************************************************************)
(* The inductive invariant holds in every reachable state of the pool.     *)
(***************************************************************************)
THEOREM PoolInvariant == Spec => []PoolInv
  BY PoolInvInit, PoolInvStep, PTL DEF Spec

(***************************************************************************)
(* The variables of the pool keep their types; in particular count stays   *)
(* within the queue and the cursors within the array they index.           *)
(***************************************************************************)
THEOREM TypeCorrect == Spec => []TypeOK
  <1>1. PoolInv => TypeOK
    BY Zenon DEF PoolInv
  <1> QED
    BY <1>1, PoolInvariant, PTL

(***************************************************************************)
(* The cursors of the circular buffer never disagree, for every queue size *)
(* and every interleaving of adds and takes.                               *)
(***************************************************************************)
THEOREM CursorsAgree == Spec => []RingConsistent
  <1>1. PoolInv => RingConsistent
    BY Zenon DEF PoolInv
  <1> QED
    BY <1>1, PoolInvariant, PTL

(***************************************************************************)
(* A task is added when all workers exist and none has left, so that there *)
(* is one to wake or one awake; the last one to go to sleep or to leave    *)
(* found the buffer empty.                                                 *)
(***************************************************************************)
LEMMA WakeupStep ==
    PoolInv /\ NoLostWakeup /\ [Next]_vars => NoLostWakeup'
  <1> SUFFICES ASSUME PoolInv, NoLostWakeup, [Next]_vars
               PROVE  NoLostWakeup'
    BY Zenon
  <1> USE DEF NoLostWakeup
  <1>0. /\ pc \in [Workers -> {"unborn", "ready", "waiting", "running", "exited"}]
        /\ shutdown = 0 <=> life \in {"creating", "open"}
        /\ (\E w \in Workers : pc[w] = "unborn") => count = 0 /\ life # "open"
        /\ (\E w \in Workers : pc[w] = "exited") => MustExit
        /\ count \in Nat
    BY DEF PoolInv, TypeOK
  <1>1. ASSUME NEW t \in Tasks, AddAccepted(t) PROVE NoLostWakeup'
    <2>1. Signal /\ shutdown = 0 /\ life = "open"
      BY Zenon, <1>0, <1>1 DEF AddAccepted
    <2>2. \A w \in Workers : pc[w] \in {"ready", "waiting", "running"}
      BY <1>0, <2>1 DEF MustExit
    <2>3. CASE \E w \in Workers : pc[w] = "waiting" /\ pc' = [pc EXCEPT ![w] = "ready"]
      BY Zenon, <1>0, <2>3
    <2>4. CASE UNCHANGED pc /\ \A w \in Workers : pc[w] # "waiting"
      BY Zenon, <2>2, <2>4
    <2> QED
      BY Zenon, <2>1, <2>3, <2>4 DEF Signal
  <1>2. ASSUME NEW w \in Workers,
               CreateWorker(w) \/ WorkerTakes(w) \/ WorkerFinishes(w) \/ SpuriousWakeup(w)
        PROVE  NoLostWakeup'
    <2>1. pc' \in [Workers -> {"unborn", "ready", "waiting", "running", "exited"}]
          /\ pc'[w] \in {"ready", "running"}
      BY Zenon, <1>0, <1>2 DEF CreateWorker, WorkerTakes, WorkerFinishes, SpuriousWakeup
    <2> QED
      BY Zenon, <2>1
  <1>3. ASSUME NEW w \in Workers, WorkerWaits(w) \/ WorkerExits(w) PROVE NoLostWakeup'
    <2>1. count' = count /\ shutdown' = shutdown /\ (count = 0 \/ shutdown = 2)
      BY Zenon, <1>3 DEF WorkerWaits, WorkerExits, MustExit
    <2> QED
      BY <2>1
  <1>4. CASE CreateFails
    BY <1>0, <1>4 DEF CreateFails
  <1>5. ASSUME NEW flags \in {0, 1}, DestroyBegin(flags) PROVE NoLostWakeup'
    BY <1>0, <1>5 DEF DestroyBegin, Broadcast
  <1>6. CASE UNCHANGED <<count, shutdown, pc>>
    BY Zenon, <1>6
  <1> QED
    BY Zenon, <1>1, <1>2, <1>3, <1>4, <1>5, <1>6
    DEF Next, CreateReturns, AddRefused, DestroyAgain, DestroyReturns, WorkerStep,
        Terminated, vars

(***************************************************************************)
(* The one pthread_cond_signal of thread_pool_add is enough, for any       *)
(* number of workers: while tasks are buffered some worker is awake.       *)
(***************************************************************************)
THEOREM SignalsSuffice == Spec => []NoLostWakeup
  <1>1. Init => NoLostWakeup
    BY DEF Init, NoLostWakeup
  <1> QED
    BY <1>1, WakeupStep, PoolInvariant, PTL DEF Spec

(***************************************************************************)
(* thread_pool_destroy frees nothing a worker may still use, and after a   *)
(* graceful shutdown no accepted task is left in the buffer.               *)
(***************************************************************************)
THEOREM FreedIsQuiet == Spec => []FreedPoolIsQuiet
  <1>1. PoolInv => FreedPoolIsQuiet
    BY DEF PoolInv, FreedPoolIsQuiet, TypeOK, MustExit
  <1> QED
    BY <1>1, PoolInvariant, PTL

(***************************************************************************)
(* Each task stays in one place: only an accepting add, a take and a       *)
(* completed task move anything.                                           *)
(***************************************************************************)
LEMMA OnePlaceStep ==
    PoolInv /\ EachTaskInOnePlace /\ [Next]_vars => EachTaskInOnePlace'
  <1> SUFFICES ASSUME PoolInv, EachTaskInOnePlace, [Next]_vars
               PROVE  EachTaskInOnePlace'
    BY Zenon
  <1> USE DEF EachTaskInOnePlace, Queued
  <1>0. /\ offered \subseteq Tasks /\ finished \subseteq Tasks
        /\ task \in [Workers -> Tasks \union {Idle}]
        /\ count \in Nat
        /\ \A i \in 1 .. count : Buffered[i] \in Tasks
        /\ \A w \in Workers : pc[w] = "running" <=> task[w] # Idle
    BY DEF PoolInv, TypeOK
  <1>1. CASE UNCHANGED <<queue, head, count, task, finished, offered>>
    BY Zenon, <1>1, BufferSame
  <1>2. ASSUME NEW t \in Tasks, AddRefused(t) PROVE EachTaskInOnePlace'
    BY Zenon, <1>0, <1>2, BufferSame DEF AddRefused
  <1>3. ASSUME NEW t \in Tasks, AddAccepted(t) PROVE EachTaskInOnePlace'
    <2>1. /\ count' = count + 1
          /\ \A i \in 1 .. count : Buffered'[i] = Buffered[i]
          /\ Buffered'[count + 1] = t
      BY Zenon, <1>3, BufferAppend
    <2>2. /\ t \notin offered /\ offered' = offered \union {t}
          /\ task' = task /\ finished' = finished
      BY Zenon, <1>3 DEF AddAccepted
    <2>3. t \notin finished
      BY Zenon, <2>2
    <2> QED
      BY <1>0, <2>1, <2>2, <2>3
  <1>4. ASSUME NEW w \in Workers, WorkerTakes(w) PROVE EachTaskInOnePlace'
    <2>1. /\ count' = count - 1 /\ count >= 1
          /\ \A i \in 1 .. count - 1 : Buffered'[i] = Buffered[i + 1]
          /\ task' = [task EXCEPT ![w] = Buffered[1]]
          /\ Buffered[1] \in Tasks
      BY <1>4, BufferPop
    <2>2. offered' = offered /\ finished' = finished
      BY Zenon, <1>4 DEF WorkerTakes
    <2> QED
      BY <1>0, <2>1, <2>2
  <1>5. ASSUME NEW w \in Workers, WorkerFinishes(w) PROVE EachTaskInOnePlace'
    <2>1. /\ Buffered' = Buffered /\ count' = count /\ offered' = offered
          /\ finished' = finished \union {task[w]}
          /\ task' = [task EXCEPT ![w] = Idle]
          /\ task[w] \in Tasks
      BY Zenon, <1>0, <1>5, BufferSame DEF WorkerFinishes
    <2> QED
      BY Zenon, <1>0, <2>1
  <1> QED
    BY Zenon, <1>1, <1>2, <1>3, <1>4, <1>5
    DEF Next, CreateWorker, CreateReturns, CreateFails, DestroyBegin, DestroyAgain,
        DestroyReturns, WorkerStep, WorkerWaits, WorkerExits, SpuriousWakeup,
        Terminated, vars

(***************************************************************************)
(* No accepted task is lost or run twice, for any number of workers.       *)
(***************************************************************************)
THEOREM OnePlace == Spec => []EachTaskInOnePlace
  <1>1. Init => EachTaskInOnePlace
    BY DEF Init, EachTaskInOnePlace, Queued
  <1> QED
    BY <1>1, OnePlaceStep, PoolInvariant, PTL DEF Spec

(***************************************************************************)
(* The buffer, read as a sequence of tasks.                                *)
(***************************************************************************)
LEMMA BufferIsSeq ==
    ASSUME PoolInv
    PROVE  Buffered \in Seq(Tasks) /\ Len(Buffered) = count
  <1>1. count \in Nat /\ Buffered \in [1 .. count -> Tasks]
    BY DEF PoolInv, TypeOK, Buffered
  <1> QED
    BY <1>1, SeqDef

(***************************************************************************)
(* Every step of the pool is a step of the abstract queue, or leaves what  *)
(* the abstract queue shows unchanged.                                     *)
(***************************************************************************)
LEMMA RefinesStep == PoolInv /\ PoolInv' /\ [Next]_vars => [Promise!Next]_(Promise!vars)
  <1> SUFFICES ASSUME PoolInv, PoolInv', [Next]_vars
               PROVE  [Promise!Next]_(Promise!vars)
    BY Zenon
  <1>0. /\ Buffered \in Seq(Tasks) /\ Len(Buffered) = count
        /\ Buffered' \in Seq(Tasks) /\ Len(Buffered') = count'
        /\ count \in 0 .. QueueSize
    <2>1. Buffered \in Seq(Tasks) /\ Len(Buffered) = count
      BY Zenon, BufferIsSeq
    <2>2. Buffered' \in Seq(Tasks) /\ Len(Buffered') = count'
      <3>1. count' \in Nat /\ Buffered' \in [1 .. count' -> Tasks]
        BY DEF PoolInv, TypeOK, Buffered
      <3> QED
        BY <3>1, SeqDef
    <2> QED
      BY Zenon, <2>1, <2>2 DEF PoolInv, TypeOK
  <1>s. /\ shutdown = 0 <=> life \in {"creating", "open"}
        /\ shutdown \in {0, 1, 2}
    BY Zenon DEF PoolInv, TypeOK
  <1>1. CASE UNCHANGED <<queue, head, count, task, finished, offered, Phase>>
    BY Zenon, <1>1, BufferSame DEF Promise!vars
  <1>2. ASSUME NEW t \in Tasks, AddRefused(t) PROVE Promise!Next
    <2>1. Promise!Refuse(t)
      BY Zenon, <1>0, <1>s, <1>2, BufferSame DEF AddRefused, Promise!Refuse, Phase
    <2> QED
      BY Zenon, <2>1 DEF Promise!Next
  <1>3. ASSUME NEW t \in Tasks, AddAccepted(t) PROVE Promise!Next
    <2>1. Buffered' = Append(Buffered, t)
      <3>1. Append(Buffered, t) \in Seq(Tasks) /\ Len(Append(Buffered, t)) = count'
        BY <1>0, <1>3, BufferAppend
      <3>2. \A i \in 1 .. count' : Buffered'[i] = Append(Buffered, t)[i]
        BY <1>0, <1>3, BufferAppend
      <3> QED
        BY Zenon, <1>0, <3>1, <3>2, SeqEqual
    <2>2. Promise!Accept(t)
      BY <1>0, <1>s, <1>3, <2>1 DEF AddAccepted, Promise!Accept, Phase
    <2> QED
      BY Zenon, <2>2 DEF Promise!Next
  <1>4. ASSUME NEW w \in Workers, WorkerTakes(w) PROVE Promise!Next
    <2>1. /\ Buffered # <<>> /\ count' = count - 1
          /\ task' = [task EXCEPT ![w] = Buffered[1]]
          /\ \A i \in 1 .. count - 1 : Buffered'[i] = Buffered[i + 1]
      BY <1>0, <1>4, BufferPop
    <2>2. Tail(Buffered) \in Seq(Tasks) /\ Len(Tail(Buffered)) = count'
          /\ \A i \in 1 .. count' : Tail(Buffered)[i] = Buffered[i + 1]
      BY Zenon, <1>0, <2>1, HeadTailProperties
    <2>3. Buffered' = Tail(Buffered)
      BY Zenon, <1>0, <2>1, <2>2, SeqEqual
    <2>4. task[w] = Idle
      BY Zenon, <1>4 DEF WorkerTakes, PoolInv
    <2>5. Phase \in {"open", "drain"} /\ Phase' = Phase
      BY Zenon, <1>s, <1>4 DEF WorkerTakes, MustExit, Phase, PoolInv
    <2>6. task' = [task EXCEPT ![w] = Head(Buffered)]
      BY <1>0, <2>1
    <2>7. finished' = finished /\ offered' = offered
      BY Zenon, <1>4 DEF WorkerTakes
    <2>8. Promise!Start(w)
      BY Zenon, <2>1, <2>3, <2>4, <2>5, <2>6, <2>7 DEF Promise!Start
    <2> QED
      BY Zenon, <2>8 DEF Promise!Next
  <1>5. ASSUME NEW w \in Workers, WorkerFinishes(w) PROVE Promise!Next
    <2>1. Promise!Finish(w)
      BY Zenon, <1>5, BufferSame DEF WorkerFinishes, Promise!Finish, Phase, PoolInv
    <2> QED
      BY Zenon, <2>1 DEF Promise!Next
  <1>6. CASE CreateFails \/ \E flags \in {0, 1} : DestroyBegin(flags)
    <2>1. Promise!Close(Phase') /\ Phase' \in {"drain", "discard"}
      BY <1>s, <1>6, BufferSame DEF CreateFails, DestroyBegin, Promise!Close, Phase
    <2> QED
      BY Zenon, <2>1 DEF Promise!Next
  <1>7. CASE DestroyReturns
    <2>1. \A w \in Workers : task[w] = Idle
      BY Zenon, <1>7 DEF DestroyReturns, PoolInv
    <2>2. shutdown = 1 => count = 0
      BY <1>7 DEF DestroyReturns, PoolInv, MustExit
    <2>3. Promise!Stop
      BY <1>0, <1>s, <1>7, <2>1, <2>2, BufferSame DEF DestroyReturns, Promise!Stop, Phase
    <2> QED
      BY Zenon, <2>3 DEF Promise!Next
  <1> QED
    BY Zenon, <1>1, <1>2, <1>3, <1>4, <1>5, <1>6, <1>7, <1>s
    DEF Next, CreateWorker, CreateReturns, DestroyAgain, WorkerStep, WorkerWaits,
        WorkerExits, SpuriousWakeup, Terminated, vars, Phase

(***************************************************************************)
(* The pool implements the abstract task queue: acceptance in order,       *)
(* bounded, each task started once, a graceful close drains the queue.     *)
(***************************************************************************)
THEOREM PoolImplementsTaskQueue == Spec => ImplementsTaskQueue
  <1>1. Init => Promise!Init
    <2> SUFFICES ASSUME Init PROVE Promise!Init
      BY Zenon
    <2>1. Buffered = <<>>
      BY DEF Init, Buffered
    <2> QED
      BY Zenon, <2>1 DEF Init, Promise!Init, Phase
  <1>2. PoolInv /\ PoolInv' /\ [Next]_vars => [Promise!Next]_(Promise!vars)
    BY Zenon, RefinesStep
  <1> QED
    BY <1>1, <1>2, PoolInvariant, PTL DEF Spec, ImplementsTaskQueue, Promise!Spec
================================================================================
