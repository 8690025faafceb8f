-------------------------- MODULE MCConfigMonitor --------------------------
(* Instances of ConfigMonitor for TLC.                                     *)
EXTENDS ConfigMonitor, TLC

CONSTANTS routes, own, zuulRoute, svc, apiGateway, gateway, stuck

(* The config map zuul-route, and that of svc.                             *)
Name == [k \in Keys |-> IF k = routes THEN zuulRoute ELSE svc]

Service == [i \in Instances |-> apiGateway]

(* Each config map is there at the start.                                  *)
Starts == {[k \in Keys |-> [data |-> data, config |-> TRUE]] : data \in Contents}

AnyHeld == [Concerns -> Contents \cup {Absent}]

(* One start, where symmetry cannot be used: all hold what is there.       *)
Data == CHOOSE data \in Contents : TRUE
Start == {[k \in Keys |-> [data |-> Data, config |-> TRUE]]}
StartData == {[c \in Concerns |-> Data]}

Symmetry == Permutations(Workers) \cup Permutations(Contents) \cup Permutations(Orders)
=============================================================================
