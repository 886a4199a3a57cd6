---------------------------- MODULE MCKVerSca20 ----------------------------
(* Instances of KVerSca20 for TLC. *)
EXTENDS KVerSca20

CONSTANTS Requests, Faults

MCLimits == [requests |-> Requests, faults |-> Faults]
=============================================================================
