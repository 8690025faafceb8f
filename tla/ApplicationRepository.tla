------------------------ MODULE ApplicationRepository ------------------------
(***************************************************************************)
(* The in-memory registry (pkg/api/repository/pod.go): three sync.Maps     *)
(* shared by the pod monitor, the config-map monitor and the HTTP          *)
(* handlers.  Every method of the repository is a series of calls on these *)
(* maps with no lock around them, so each call is a step of its own; this  *)
(* module gives the maps and the single calls.  The fourth map,            *)
(* ApplicationStore, is never written by the program and is left out.      *)
(***************************************************************************)
EXTENDS Naturals

CONSTANTS
    Pods,       \* keys "namespace/name" of pods
    Ids,        \* instance ids "ip:service:port"
    NoPod, NoId, NoInstance

(* The key "custom/<id>" of an instance registered over HTTP.  An id has   *)
(* colons in it, which no pod's name has.                                  *)
CustomKey(i) == <<"custom", i>>

ASSUME RepositoryAssumption ==
    /\ NoPod \notin Pods
    /\ NoId \notin Ids
    /\ \A i \in Ids : CustomKey(i) \notin Pods

VARIABLES
    namespaceStore,         \* key -> id of the instance registered under it
    instanceStore,          \* id -> instance handed to clients
    customInstanceStore     \* id -> instance registered or amended over HTTP

repoVars == <<namespaceStore, instanceStore, customInstanceStore>>

NamespaceKeys == Pods \cup {CustomKey(i) : i \in Ids}

(* What the program tells apart in an instance.  The maps hold pointers:   *)
(* object is the identity of the structure pointed to: 0 for one built     *)
(* from a pod, n > 0 for one built by an HTTP request or from the config   *)
(* map.  metadata tells whether a request has amended it.                  *)
Instance ==
    [object : Nat, podSelfLink : Pods \cup {NoPod}, status : {"UP", "DOWN"},
     metadata : {"plain", "amended"}]

ASSUME InstanceAssumption == NoInstance \notin Instance

RepoTypeOK ==
    /\ namespaceStore \in [NamespaceKeys -> Ids \cup {NoId}]
    /\ instanceStore \in [Ids -> Instance \cup {NoInstance}]
    /\ customInstanceStore \in [Ids -> Instance \cup {NoInstance}]

StoreKey(k, i) == namespaceStore' = [namespaceStore EXCEPT ![k] = i]
DropKey(k) == namespaceStore' = [namespaceStore EXCEPT ![k] = NoId]

StoreInstance(i, ins) == instanceStore' = [instanceStore EXCEPT ![i] = ins]
DropInstance(i) == instanceStore' = [instanceStore EXCEPT ![i] = NoInstance]

DropCustom(i) ==
    customInstanceStore' = [customInstanceStore EXCEPT ![i] = NoInstance]

(* ins and the structure in store are one.  A structure built from a pod  *)
(* is stored once, by Register, and dropped before it is marked; one built *)
(* from a request can be copied between the maps.                          *)
SameObject(ins, other) ==
    other # NoInstance /\ other.object = ins.object /\ ins.object > 0

(* store with the structure ins, if it is stored under i, marked DOWN.     *)
MarkedDown(store, i, ins) ==
    IF SameObject(ins, store[i])
    THEN [store EXCEPT ![i].status = "DOWN"] ELSE store

(* ins.Status = DOWN, seen through every map that holds the same pointer.  *)
MarkDown(i, ins) ==
    /\ instanceStore' = MarkedDown(instanceStore, i, ins)
    /\ customInstanceStore' = MarkedDown(customInstanceStore, i, ins)

=============================================================================
