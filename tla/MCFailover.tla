---------------------------- MODULE MCFailover ----------------------------
(* The Failover over an address space of MCN grains. *)
EXTENDS Failover

MCN == 4
=============================================================================
