------------------------------ MODULE MCNetwork -------------------------------
(* The programs at the other end of a network: the two DHCP clients and the DNS
   server.  They share nothing: in each behaviour one of them runs, and the others
   are in a state in which nothing happens to them. *)
EXTENDS DhcpV4Client, DhcpV6Client, DnsServer

CONSTANTS c, d,                     \* clients
          www, WWW, domain, odd     \* names

TwoStarts == [k \in Clients |-> IF k = c THEN 0 ELSE 10]

(* www in capitals has the path of www; the odd one cannot be cached; the first 7
   characters of the domain are a name that nobody asks for. *)
SomeKeys == [n \in {www, WWW, domain, odd} |->
                CASE n = WWW -> www [] n = odd -> NoName [] OTHER -> n]
SomeCuts == [n \in {www, WWW, domain, odd} |-> IF n = domain THEN NoName ELSE n]
SomeLines == <<[name |-> "", type |-> "other"], [name |-> "@", type |-> "other"],
               [name |-> "", type |-> "NS"], [name |-> www, type |-> "A"]>>

ClientIdle ==
    /\ state = [k \in Clients |-> "BOUND"]
    /\ xid = [k \in Clients |-> Start[k] + MaxXids]
    /\ offered_ip = [k \in Clients |-> NoIp] /\ assigned_ip = [k \in Clients |-> NoIp]
    /\ net = {} /\ lease = [k \in Clients |-> NoIp] /\ lapsed = TRUE
    /\ period = [k \in Clients |-> 0] /\ renewed = {} /\ claimed = {}

Client6Idle ==
    /\ state6 = "BOUND" /\ xid6 = XIDS + 1 /\ has_ip = FALSE
    /\ net6 = {} /\ lost6 = FALSE
    /\ period6 = 0 /\ renewed6 = {} /\ claimed6 = {}

DnsIdle ==
    /\ place = "stopped" /\ query = [name |-> NoName, type |-> NoName] /\ answers = {}
    /\ cache = [k \in Names |-> NoEntry]
    /\ clock = MaxClock

Init ==
    \/ ClientInit /\ Client6Idle /\ DnsIdle
    \/ Client6Init /\ ClientIdle /\ DnsIdle
    \/ DnsInit /\ ClientIdle /\ Client6Idle

Next ==
    \/ ClientNext /\ UNCHANGED <<client6Vars, dnsVars>>
    \/ Client6Next /\ UNCHANGED <<clientVars, dnsVars>>
    \/ DnsNext /\ UNCHANGED <<clientVars, client6Vars>>

Spec == Init /\ [][Next]_<<clientVars, client6Vars, dnsVars>> /\ ClientFairness /\ Client6Fairness
=============================================================================
