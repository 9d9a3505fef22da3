---------------------------- MODULE MCDhcpV4Server -----------------------------
(* DhcpV4Server for TLC. *)
EXTENDS DhcpV4Server, TLC

CONSTANTS m1, m2, m3

NoHosts == [m \in {} |-> 0]
Symmetric == Permutations(Macs) \union Permutations(Workers)
OneHost == m3 :> 2
================================================================================
