----------------------------- MODULE DhcpV4Client -----------------------------
(***************************************************************************)
(* DHCPv4 clients (client/client_v4.c) and one server on a network that    *)
(* loses, delays, reorders and duplicates messages.                        *)
(*                                                                         *)
(* The server is what packet_processor does for DISCOVER and REQUEST; its  *)
(* leases are reduced to who has which address, and a lease may end at any *)
(* time (it expired or was lost in a crash; see DhcpV4Server and LeaseIo). *)
(* The server's answers are broadcast, except that of a renewal.  A client *)
(* compares the transaction identifier of an answer and not the hardware   *)
(* address: the clients here start so far apart that their identifiers do  *)
(* not meet.  A client never looks at the lease time.                      *)
(***************************************************************************)
EXTENDS Naturals, FiniteSets, FiniteSetsExt

CONSTANTS Clients, IPs,
          NoIp,         \* 0.0.0.0
          MaxXids,      \* bound on the identifiers that a client goes through
          Start         \* Start[c]: time(NULL) when c starts, its first identifier

ASSUME ClientAssumption ==
    /\ IPs \subseteq Nat /\ NoIp \notin IPs
    /\ MaxXids \in Nat /\ Start \in [Clients -> Nat]
    /\ \A c, d \in Clients : Start[c] < Start[d] => Start[c] + MaxXids + 1 < Start[d]
    /\ \A c, d \in Clients : Start[c] = Start[d] => c = d

VARIABLES state,        \* state of each client
          xid,          \* its identifier
          offered_ip, assigned_ip,
          net,          \* messages in transit
          lease,        \* lease[c]: the address that the server has for c
          lapsed,       \* a lease ended (at most one does)
          period,       \* how often c has reached T1
          renewed,      \* the server renewed the lease of c in a period
          claimed       \* c took its lease for renewed in a period

clientVars == <<state, xid, offered_ip, assigned_ip, net, lease, lapsed, period, renewed, claimed>>

client_state_v4_t == {"INIT", "SELECTING", "REQUESTING", "BOUND", "RENEWING", "RENEWAIT"}

ClientInit ==
    /\ state = [c \in Clients |-> "INIT"]
    /\ xid = Start
    /\ offered_ip = [c \in Clients |-> NoIp] /\ assigned_ip = [c \in Clients |-> NoIp]
    /\ net = {}
    /\ lease = [c \in Clients |-> NoIp]
    /\ lapsed = FALSE
    /\ period = [c \in Clients |-> 0] /\ renewed = {} /\ claimed = {}

-----------------------------------------------------------------------------
(* Messages.  A question has the sender's period, an answer the clients it goes to. *)

Question(c, type, x, ip) == [from |-> c, type |-> type, xid |-> x, ip |-> ip, period |-> period[c]]
Answer(to, type, q, ip) == [to |-> to, type |-> type, xid |-> q.xid, ip |-> ip]

Questions4 == {m \in net : "from" \in DOMAIN m}
Answers4(c) == {m \in net \ Questions4 : c \in m.to}

build_discover(c) == Question(c, "DISCOVER", xid[c], NoIp)
build_request(c, x, ip) == Question(c, "REQUEST", x, ip)
build_renew(c) == Question(c, "RENEW", xid[c], assigned_ip[c])

(* A message is lost when it is sent, or stays on the network: it may arrive at any
   time, and again. *)
Send4(m) == net' \in {net, net \union {m}}

-----------------------------------------------------------------------------
(* Clients.  A message that a client ignores changes nothing: it is as good as lost. *)

Discover(c) ==
    /\ state[c] = "INIT"
    /\ Send4(build_discover(c))
    /\ state' = [state EXCEPT ![c] = "SELECTING"]
    /\ UNCHANGED <<xid, offered_ip, assigned_ip, lease, lapsed, period, renewed, claimed>>

More(c) == xid[c] - Start[c] < MaxXids

Offered(c, m) ==
    /\ state[c] = "SELECTING" /\ m.type = "OFFER" /\ m.xid = xid[c] /\ More(c)
    /\ offered_ip' = [offered_ip EXCEPT ![c] = m.ip]
    /\ xid' = [xid EXCEPT ![c] = @ + 1]
    /\ Send4(build_request(c, xid[c] + 1, m.ip))
    /\ state' = [state EXCEPT ![c] = "REQUESTING"]
    /\ UNCHANGED <<assigned_ip, lease, lapsed, period, renewed, claimed>>

(* A mutation of Acked: the identifier is not compared. *)
AckedByAny(c, m) ==
    /\ state[c] = "REQUESTING" /\ m.type = "ACK"
    /\ assigned_ip' = [assigned_ip EXCEPT ![c] = m.ip]
    /\ state' = [state EXCEPT ![c] = "BOUND"]
    /\ UNCHANGED <<xid, offered_ip, net, lease, lapsed, period, renewed, claimed>>

Acked(c, m) ==
    /\ state[c] = "REQUESTING" /\ m.type = "ACK" /\ m.xid = xid[c]
    /\ assigned_ip' = [assigned_ip EXCEPT ![c] = m.ip]
    /\ state' = [state EXCEPT ![c] = "BOUND"]
    /\ UNCHANGED <<xid, offered_ip, net, lease, lapsed, period, renewed, claimed>>

(* Any NAK, whatever its identifier, sends the client back. *)
Naked(c, m) ==
    /\ state[c] \in {"REQUESTING", "RENEWAIT"} /\ m.type = "NAK" /\ More(c)
    /\ state' = [state EXCEPT ![c] = "INIT"]
    /\ xid' = [xid EXCEPT ![c] = @ + 1]
    /\ UNCHANGED <<offered_ip, assigned_ip, net, lease, lapsed, period, renewed, claimed>>

(* A mutation of T1: the renewal goes on with the same identifier. *)
T1SameXid(c) ==
    /\ state[c] = "BOUND" /\ More(c)
    /\ state' = [state EXCEPT ![c] = "RENEWING"]
    /\ period' = [period EXCEPT ![c] = @ + 1]
    /\ UNCHANGED <<xid, offered_ip, assigned_ip, net, lease, lapsed, renewed, claimed>>

T1(c) ==
    /\ state[c] = "BOUND" /\ More(c)
    /\ state' = [state EXCEPT ![c] = "RENEWING"]
    /\ xid' = [xid EXCEPT ![c] = @ + 1]
    /\ period' = [period EXCEPT ![c] = @ + 1]
    /\ UNCHANGED <<offered_ip, assigned_ip, net, lease, lapsed, renewed, claimed>>

Renew(c) ==
    /\ state[c] = "RENEWING"
    /\ Send4(build_renew(c))
    /\ state' = [state EXCEPT ![c] = "RENEWAIT"]
    /\ UNCHANGED <<xid, offered_ip, assigned_ip, lease, lapsed, period, renewed, claimed>>

Renewed(c, m) ==
    /\ state[c] = "RENEWAIT" /\ m.type = "ACK" /\ m.xid = xid[c]
    /\ state' = [state EXCEPT ![c] = "BOUND"]
    /\ xid' = [xid EXCEPT ![c] = @ + 1]
    /\ claimed' = claimed \union {<<c, period[c]>>}
    /\ UNCHANGED <<offered_ip, assigned_ip, net, lease, lapsed, period, renewed>>

(* A mutation of Timeout: no offer, and the client waits on. *)
NoRetry(c) ==
    /\ state[c] \in {"REQUESTING", "RENEWAIT"}
    /\ state' = [state EXCEPT ![c] = IF @ = "RENEWAIT" THEN "RENEWING" ELSE @]
    /\ IF state[c] = "REQUESTING" THEN Send4(build_request(c, xid[c], offered_ip[c])) ELSE UNCHANGED net
    /\ UNCHANGED <<xid, offered_ip, assigned_ip, lease, lapsed, period, renewed, claimed>>

(* After 5 s without a packet: a new DISCOVER with the same identifier, the same
   REQUEST again, a new RENEW. *)
Timeout(c) ==
    /\ state[c] \in {"SELECTING", "REQUESTING", "RENEWAIT"}
    /\ state' = [state EXCEPT ![c] = CASE @ = "SELECTING" -> "INIT"
                                       [] @ = "RENEWAIT" -> "RENEWING"
                                       [] OTHER -> @]
    /\ IF state[c] = "REQUESTING" THEN Send4(build_request(c, xid[c], offered_ip[c])) ELSE UNCHANGED net
    /\ UNCHANGED <<xid, offered_ip, assigned_ip, lease, lapsed, period, renewed, claimed>>

Receives(c) == \E m \in Answers4(c) : Offered(c, m) \/ Acked(c, m) \/ Naked(c, m) \/ Renewed(c, m)

-----------------------------------------------------------------------------
(* The server *)

Owner(ip) == {c \in Clients : lease[c] = ip}

(* The client's lease is offered again, or the first free address. *)
ServerOffers(q) ==
    LET free == {i \in IPs : Owner(i) = {}}
        ip == IF lease[q.from] # NoIp THEN lease[q.from] ELSE Min(free)
    IN
    /\ q.type = "DISCOVER" /\ (lease[q.from] = NoIp => free # {})
    /\ lease' = [lease EXCEPT ![q.from] = ip]
    /\ net' = net \union {Answer(Clients, "OFFER", q, ip)}
    /\ UNCHANGED renewed

ServerConfirms(q) ==
    /\ q.type = "REQUEST"
    /\ net' = net \union {IF lease[q.from] = q.ip THEN Answer(Clients, "ACK", q, q.ip)
                                                  ELSE Answer(Clients, "NAK", q, NoIp)}
    /\ UNCHANGED <<lease, renewed>>

(* Whoever has the lease; without one there is no answer. *)
ServerRenews(q) ==
    /\ q.type = "RENEW" /\ Owner(q.ip) # {}
    /\ net' = net \union {Answer({c \in Clients : assigned_ip[c] = q.ip}, "ACK", q, q.ip)}
    /\ renewed' = renewed \union {<<q.from, q.period>>}
    /\ UNCHANGED lease

Serves == 
    /\ \E q \in Questions4 : ServerOffers(q) \/ ServerConfirms(q) \/ ServerRenews(q)
    /\ UNCHANGED <<state, xid, offered_ip, assigned_ip, lapsed, period, claimed>>

Lapse(c) ==
    /\ lease[c] # NoIp /\ ~lapsed
    /\ lease' = [lease EXCEPT ![c] = NoIp] /\ lapsed' = TRUE
    /\ UNCHANGED <<state, xid, offered_ip, assigned_ip, net, period, renewed, claimed>>

ClientStep(c) == Discover(c) \/ Renew(c) \/ Timeout(c)

ClientNext ==
    \/ \E c \in Clients : ClientStep(c) \/ T1(c) \/ Receives(c) \/ Lapse(c)
    \/ Serves

(* A client does not stop, and what it sends, is sent or is answered again and again
   arrives eventually. *)
ClientFairness ==
    /\ \A c \in Clients :
           /\ WF_clientVars(ClientStep(c)) /\ SF_clientVars(Receives(c))
           /\ SF_clientVars(ClientStep(c) /\ net' # net)
    /\ \A c \in Clients : SF_clientVars(Serves /\ \E m \in net' \ net : m.xid = xid[c])

-----------------------------------------------------------------------------
(* Properties *)

Holds4(c) == state[c] \in {"BOUND", "RENEWING", "RENEWAIT"}

(* Two clients do not use the same address, although every answer reaches both and
   late and repeated answers of earlier exchanges are about, as long as no lease ended
   at the server. *)
AddressesDiffer ==
    ~lapsed =>
        \A c, d \in Clients : Holds4(c) /\ Holds4(d) /\ assigned_ip[c] = assigned_ip[d] => c = d

(* A client that takes its lease for renewed is right: the server renewed it after
   that T1.  No late ACK of the first exchange or of an earlier renewal is taken for
   an answer. *)
RenewalIsReal4 == claimed \subseteq renewed

(* A client without an address gets one, however often its DISCOVER or REQUEST was
   lost before it arrives.  Excepted are a lease that ended and the bound on
   identifiers. *)
ClientGetsLease ==
    \A c \in Clients :
        state[c] = "INIT" ~> (state[c] = "BOUND" \/ lapsed \/ ~More(c))
=============================================================================
