-------------------------- MODULE MCCapacityLimiter --------------------------
(***************************************************************************)
(* A finite instance of CapacityLimiter: one slot and two waiters, which   *)
(* four calls can overrun, or two slots.                                   *)
(***************************************************************************)
EXTENDS CapacityLimiter

Capacities == [mutation |-> 1, search |-> 2, pipeline |-> 1]
Queues == [mutation |-> 2, search |-> 1, pipeline |-> 2]
=============================================================================
