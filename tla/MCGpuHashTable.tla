-------------------------- MODULE MCGpuHashTable --------------------------
(* Bounds of the runs of GpuHashTable. *)
EXTENDS GpuHashTable
CONSTANTS t1, t2, t3, k1, k2, k3, e
TwoThreads == {t1, t2}
ThreeThreads == {t1, t2, t3}
ThreeKeys == {k1, k2, k3}
Bits == {0, 1}
BothProbes == {"Linear", "RobinHood"}
RobinHoodOnly == {"RobinHood"}
\* Two keys collide in the last slot, so that probing wraps around.
Crowded == [q \in Queries |-> IF q = k3 THEN 0 ELSE Cap - 1]
=============================================================================
