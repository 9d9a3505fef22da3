------------------------------- MODULE MCIpPool --------------------------------
(* IpPool for TLC: a range of three addresses, the last one the router's, with
   a host reservation for one of the clients. *)
EXTENDS IpPool, TLC

CONSTANTS m1, m2

MCHosts == m1 :> 1
MCMacs == {m1, m2}
================================================================================
