---------------------------- MODULE MCPodMonitor ----------------------------
(* Instances of PodMonitor for TLC.                                        *)
EXTENDS PodMonitor, TLC

CONSTANTS p1, p2, i1, i2

(* Two pods that can be given the same address, one of which can be        *)
(* recreated at another.                                                   *)
SharedIds == (p1 :> {i1, i2}) @@ (p2 :> {i1})

(* Each pod has an address of its own.                                     *)
OwnIds == (p1 :> {i1}) @@ (p2 :> {i2})

WorkerSymmetry == Permutations(Workers)
=============================================================================
