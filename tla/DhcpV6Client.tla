----------------------------- MODULE DhcpV6Client -----------------------------
(***************************************************************************)
(* A DHCPv6 client (client/client_v6.c), a server that answers it, and a   *)
(* network that loses, delays, reorders and duplicates messages.           *)
(*                                                                         *)
(* The client waits for its answers without a timeout.  Its identifier has *)
(* 32 bits, the header has room for 24: XIDS stands for 2^24.  It takes a  *)
(* REPLY for a lease whether or not there is an address in it.             *)
(***************************************************************************)
EXTENDS Naturals

CONSTANT XIDS           \* identifiers that the header can tell apart

ASSUME Client6Assumption == XIDS \in Nat /\ XIDS >= 4

VARIABLES state6,       \* state of the client
          xid6,         \* xid
          has_ip,       \* an address was put on the interface
          net6,         \* messages that may still arrive
          lost6,        \* the message the client waits for an answer to was lost
          period6,      \* how often the client has reached T1
          renewed6,     \* periods in which the server answered a RENEW
          claimed6      \* periods in which the client took its lease for renewed

client6Vars == <<state6, xid6, has_ip, net6, lost6, period6, renewed6, claimed6>>

client_state_t == {"INIT", "SOLICITING", "REQUESTING", "BOUND", "RENEWING", "RENEWAIT"}

Client6Init ==
    /\ state6 = "INIT" /\ xid6 = 0 /\ has_ip = FALSE
    /\ net6 = {} /\ lost6 = FALSE
    /\ period6 = 0 /\ renewed6 = {} /\ claimed6 = {}

(* The header has the lower 24 bits. *)
dhcpv6_set_xid(x) == x % XIDS

Message6(type, x, ip) == [type |-> type, xid |-> dhcpv6_set_xid(x), period |-> period6, ip |-> ip]

Send6(m) ==
    \/ net6' = net6 \union {m} /\ lost6' = FALSE
    \/ UNCHANGED net6 /\ lost6' = TRUE

-----------------------------------------------------------------------------
(* The client *)

Solicit ==
    /\ state6 = "INIT"
    /\ Send6(Message6("SOLICIT", xid6, FALSE))
    /\ state6' = "SOLICITING"
    /\ UNCHANGED <<xid6, has_ip, period6, renewed6, claimed6>>

(* A mutation of Advertised: only the header has the new identifier. *)
AdvertisedKeepsXid(m) ==
    /\ state6 = "SOLICITING" /\ m.type = "ADVERTISE" /\ m.xid = xid6
    /\ Send6(Message6("REQUEST", xid6 + 1, FALSE))
    /\ state6' = "REQUESTING"
    /\ UNCHANGED <<xid6, has_ip, period6, renewed6, claimed6>>

Advertised(m) ==
    /\ state6 = "SOLICITING" /\ m.type = "ADVERTISE" /\ m.xid = xid6
    /\ Send6(Message6("REQUEST", xid6 + 1, FALSE))
    /\ xid6' = xid6 + 1 /\ state6' = "REQUESTING"
    /\ UNCHANGED <<has_ip, period6, renewed6, claimed6>>

Replied(m) ==
    /\ state6 = "REQUESTING" /\ m.type = "REPLY" /\ m.xid = xid6
    /\ has_ip' = m.ip
    /\ state6' = "BOUND"
    /\ UNCHANGED <<xid6, net6, lost6, period6, renewed6, claimed6>>

(* A mutation of T1Expires: the RENEW goes out with the old identifier. *)
T1KeepsXid ==
    /\ state6 = "BOUND" /\ xid6 <= XIDS
    /\ state6' = "RENEWING" /\ period6' = period6 + 1
    /\ UNCHANGED <<xid6, has_ip, net6, lost6, renewed6, claimed6>>

T1Expires ==
    /\ state6 = "BOUND" /\ xid6 <= XIDS
    /\ state6' = "RENEWING" /\ xid6' = xid6 + 1 /\ period6' = period6 + 1
    /\ UNCHANGED <<has_ip, net6, lost6, renewed6, claimed6>>

SendRenew ==
    /\ state6 = "RENEWING"
    /\ Send6(Message6("RENEW", xid6, FALSE))
    /\ state6' = "RENEWAIT"
    /\ UNCHANGED <<xid6, has_ip, period6, renewed6, claimed6>>

RenewReplied(m) ==
    /\ state6 = "RENEWAIT" /\ m.type = "REPLY" /\ m.xid = xid6
    /\ xid6' = xid6 + 1 /\ state6' = "BOUND"
    /\ claimed6' = claimed6 \union {period6}
    /\ UNCHANGED <<has_ip, net6, lost6, period6, renewed6>>

(* Any other packet sends the client back to send the RENEW again. *)
RenewAgain(m) ==
    /\ state6 = "RENEWAIT" /\ m.type \in {"ADVERTISE", "REPLY"} /\ ~(m.type = "REPLY" /\ m.xid = xid6)
    /\ state6' = "RENEWING"
    /\ UNCHANGED <<xid6, has_ip, net6, lost6, period6, renewed6, claimed6>>

-----------------------------------------------------------------------------
(* The answer has the identifier of the question. *)
Answer6(m, ip) == [type |-> IF m.type = "SOLICIT" THEN "ADVERTISE" ELSE "REPLY",
                   xid |-> m.xid, period |-> m.period, ip |-> ip]

(* process_packet: an ADVERTISE or a REPLY, with an address or without. *)
Serves6(m) ==
    /\ m.type \in {"SOLICIT", "REQUEST", "RENEW"}
    /\ \E ip \in BOOLEAN : net6' = net6 \union {Answer6(m, ip)}
    /\ renewed6' = IF m.type = "RENEW" THEN renewed6 \union {m.period} ELSE renewed6
    /\ UNCHANGED <<state6, xid6, has_ip, lost6, period6, claimed6>>

Client6Step == Solicit \/ SendRenew

Receives6 == \E m \in net6 : Advertised(m) \/ Replied(m) \/ RenewReplied(m)

Client6Next ==
    \/ Client6Step \/ T1Expires \/ Receives6
    \/ \E m \in net6 : Serves6(m) \/ RenewAgain(m)

(* The client runs, the server answers what arrives, and the answer arrives. *)
Client6Fairness ==
    /\ WF_client6Vars(Client6Step) /\ SF_client6Vars(Receives6)
    /\ WF_client6Vars(\E m \in net6 : Serves6(m) /\ net6' # net6)

-----------------------------------------------------------------------------
(* Properties *)

(* A client that takes its lease for renewed is right: the server has answered a RENEW
   sent after that T1.  No late REPLY of the REQUEST or of an earlier renewal is taken
   for an answer. *)
RenewalIsReal6 == claimed6 \subseteq renewed6

(* A client gets its lease, and gets it renewed whenever T1 has passed, whatever late
   answers come in between.  Excepted are a lost message, after which the client waits
   for ever, and an identifier that no longer fits the header. *)
Client6Proceeds ==
    state6 \in {"INIT", "SOLICITING", "REQUESTING", "RENEWING", "RENEWAIT"} ~>
        (state6 = "BOUND" \/ lost6 \/ xid6 >= XIDS)
=============================================================================
