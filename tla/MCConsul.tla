------------------------------ MODULE MCConsul ------------------------------
(* Two threads are enough for one to stop the other, or to hand it a       *)
(* client.  Two clients are then all there can be (WithinPeakDemand); the   *)
(* third is there to be wrongly created.                                   *)
EXTENDS Consul

CONSTANTS t1, t2, c1, c2, c3

TwoThreads   == {t1, t2}
ThreeClients == {c1, c2, c3}
=============================================================================
