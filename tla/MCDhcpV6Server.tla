---------------------------- MODULE MCDhcpV6Server ----------------------------
(* Instances of DhcpV6Server for TLC. *)
EXTENDS DhcpV6Server, TLC

CONSTANTS c1, c2, c3

HostC1 == [d \in {c1} |-> 1]

Symmetric == Permutations({c2, c3})
=============================================================================
