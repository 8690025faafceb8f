-------------------------- MODULE MCRegisterServer --------------------------
(* Instances of RegisterServer for TLC.                                    *)
EXTENDS RegisterServer, TLC

CONSTANTS p1, i1, i2

(* One pod, whose address is i1; nobody but clients registers i2.          *)
PodIds == (p1 :> {i1})

Up == {[status |-> "UP", metadata |-> "plain"]}

(* As many as there are places a structure can be in, and one.            *)
Numbers == 1 .. 2 * Cardinality(Ids)
                  + Cardinality(Workers \cup Threads \cup Readers) + 1

(* What the config map holds at the start: nothing, an instance a client   *)
(* registered, or the pod's instance, which was amended.                   *)
Custom == [NoEntries EXCEPT ![i2] = Entry(RestoredInstance)]
PodEntry == [PodInstance(p1) EXCEPT !.metadata = "amended"]

Nothing == {NoEntries}
OneCustom == {NoEntries, Custom}
CustomOrPod == {Custom, [NoEntries EXCEPT ![i1] = PodEntry]}
=============================================================================
