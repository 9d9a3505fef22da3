------------------------------- MODULE MCLeaseIo -------------------------------
(* LeaseIo for TLC: two addresses. *)
EXTENDS LeaseIo

CONSTANTS a, b

MCIps == {a, b}
================================================================================
