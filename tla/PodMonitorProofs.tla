-------------------------- MODULE PodMonitorProofs --------------------------
(***************************************************************************)
(* Theorems about PodMonitor, for every set of pods, ids and workers and   *)
(* any number of changes to the pods.                                      *)
(***************************************************************************)
EXTENDS PodMonitor, WorkQueueProofs

USE RepositoryAssumption, MonitorAssumption

-----------------------------------------------------------------------------
(* Type correctness.                                                       *)

(* What each state of a pod in the cache looks like.                       *)
LEMMA PodStatesFacts ==
    /\ Absent \in PodStates
    /\ \A p \in Pods : Present(p) \subseteq PodStates
    /\ \A s \in PodStates :
        /\ s.state \in {"absent", "unlabelled", "noStatus", "notReady", "ready"}
        /\ s.state = "ready" => s.id \in Ids
        /\ s.state = "absent" => s = Absent
BY DEF PodStates, Present, Absent, Unready, Ready

(* The instances the program stores are instances.                         *)
LEMMA InstanceFacts ==
    /\ RestoredInstance \in Instance
    /\ \A p \in Pods : PodInstance(p) \in Instance
    /\ NoEntries \in [Ids -> Instance \cup {NoInstance}]
    /\ NoCopy \in ConfigMap
BY DEF RestoredInstance, PodInstance, Instance, NoEntries, NoCopy, ConfigMap

(* Writing the config map without an entry leaves a config map.            *)
LEMMA WriteCMType ==
    ASSUME NEW i \in Ids, NEW copy \in ConfigMap, registerCM \in ConfigMap,
           WriteCM(Without(copy.data, i)) \/ UNCHANGED registerCM
    PROVE  registerCM' \in ConfigMap
<1>1. Without(copy.data, i) \in [Ids -> Instance \cup {NoInstance}]
    BY DEF Without, ConfigMap
<1>2. registerCM.version + 1 \in Nat
    BY DEF ConfigMap
<1> QED BY <1>1, <1>2 DEF WriteCM, ConfigMap

(* The initial states are well typed.                                      *)
LEMMA TypeInit == Init => TypeOK
<1> SUFFICES ASSUME Init PROVE TypeOK
    OBVIOUS
<1> USE DEF Init, PodInit
<1>1. customInstanceStore \in [Ids -> Instance \cup {NoInstance}]
    BY InstanceFacts
<1>2. RepoTypeOK
    <2>1. namespaceStore \in [NamespaceKeys -> Ids \cup {NoId}]
        <3> SUFFICES ASSUME NEW k \in NamespaceKeys
                     PROVE  namespaceStore[k] \in Ids \cup {NoId}
            OBVIOUS
        <3>1. CASE \E i \in Ids : k = CustomKey(i)
            BY <3>1
        <3>2. CASE ~\E i \in Ids : k = CustomKey(i)
            BY <3>2
        <3> QED BY <3>1, <3>2
    <2> QED BY <1>1, <2>1, InstanceFacts DEF RepoTypeOK
<1>3. registerCM \in ConfigMap
    BY <1>1 DEF ConfigMap
<1>4. pods \in [Pods -> PodStates]
    BY PodStatesFacts
<1>5. workQueue \in QueueType(Pods)
    BY EmptyQueueOK
<1>6. \A w \in Workers :
        /\ item[w] = NoPod <=> pc[w] \in {"get", "stopped"}
        /\ pc[w] \in UsesId => insId[w] \in Ids
    BY DEF UsesId
<1>7. /\ pc \in [Workers -> Labels]
      /\ item \in [Workers -> Pods \cup {NoPod}]
      /\ insId \in [Workers -> Ids \cup {NoId}]
      /\ loaded \in [Workers -> Instance \cup {NoInstance}]
      /\ cmCopy \in [Workers -> ConfigMap]
    BY InstanceFacts DEF Labels
<1> QED BY <1>2, <1>3, <1>4, <1>5, <1>6, <1>7 DEF TypeOK

(* Every step keeps the types.                                             *)
LEMMA TypeNext == TypeOK /\ QueueOK /\ [Next]_vars => TypeOK'
<1> SUFFICES ASSUME TypeOK, QueueOK, [Next]_vars PROVE TypeOK'
    OBVIOUS
<1> USE DEF TypeOK, RepoTypeOK, Labels, UsesId, At, Goto,
            storeVars, clusterVars, localVars, repoVars
<1>1. ASSUME NEW p \in Pods, NEW pod \in PodStates, CacheChange(p, pod),
             waiting' \subseteq Pods
      PROVE  TypeOK'
    BY <1>1 DEF CacheChange
<1>2. ASSUME NEW p \in Pods, PodAdded(p) PROVE TypeOK'
    BY <1>1, <1>2, PodStatesFacts DEF PodAdded, enqueuePod
<1>3. ASSUME NEW p \in Pods, PodUpdated(p) PROVE TypeOK'
    BY <1>1, <1>3, PodStatesFacts DEF PodUpdated, enqueuePod
<1>4. ASSUME NEW p \in Pods, PodDeleted(p) PROVE TypeOK'
    BY <1>1, <1>4, PodStatesFacts DEF PodDeleted, enqueuePod
<1>5. ASSUME NEW p \in Pods, PodDeletionMissed(p) PROVE TypeOK'
    BY <1>1, <1>5, PodStatesFacts DEF PodDeletionMissed
<1>6. ASSUME NEW p \in Pods, AddReady(p) PROVE TypeOK'
    BY <1>6, QAddFields DEF AddReady
<1>7. ASSUME ShutDown PROVE TypeOK'
    BY <1>7, QShutDownFields DEF ShutDown
<1>8. ASSUME NEW w \in Workers, Get(w) PROVE TypeOK'
    <2>1. Head(workQueue.queue) \in Pods /\ workQueue' \in QueueType(Pods)
        BY <1>8, QGetFields DEF Get, QueueOK
    <2> QED BY <1>8, <2>1 DEF Get
<1>9. ASSUME NEW w \in Workers, Exit(w) PROVE TypeOK'
    BY <1>9 DEF Exit
<1>10. ASSUME NEW w \in Workers, SyncHandler(w) PROVE TypeOK'
    <2>1. item[w] \in Pods
        BY <1>10 DEF SyncHandler
    <2>2. /\ Verdict(item[w]) \in {"ignore", "register", "delete"}
          /\ Verdict(item[w]) = "register" => pods[item[w]].id \in Ids
        BY <2>1, PodStatesFacts DEF Verdict
    <2> QED BY <1>10, <2>1, <2>2 DEF SyncHandler
<1>11. ASSUME NEW w \in Workers, RegisterLoadKey(w) PROVE TypeOK'
    BY <1>11 DEF RegisterLoadKey
<1>12. ASSUME NEW w \in Workers, RegisterStoreKey(w) PROVE TypeOK'
    BY <1>12 DEF RegisterStoreKey, StoreKey
<1>13. ASSUME NEW w \in Workers, RegisterStoreInstance(w) PROVE TypeOK'
    <2>1. PodInstance(item[w]) \in Instance
        BY <1>13, InstanceFacts DEF RegisterStoreInstance
    <2> QED BY <1>13, <2>1 DEF RegisterStoreInstance, StoreInstance
<1>14. ASSUME NEW w \in Workers, DeleteLoadKey(w) PROVE TypeOK'
    <2>1. namespaceStore[item[w]] \in Ids \cup {NoId}
        BY <1>14 DEF DeleteLoadKey, NamespaceKeys
    <2> QED BY <1>14, <2>1 DEF DeleteLoadKey
<1>15. ASSUME NEW w \in Workers, DeleteDropCustom(w) PROVE TypeOK'
    BY <1>15 DEF DeleteDropCustom, DropCustom
<1>16. ASSUME NEW w \in Workers, DeleteDropKey(w) PROVE TypeOK'
    BY <1>16 DEF DeleteDropKey, DropKey
<1>17. ASSUME NEW w \in Workers, DeleteLoadInstance(w) PROVE TypeOK'
    BY <1>17 DEF DeleteLoadInstance
<1>18. ASSUME NEW w \in Workers, DeleteDropInstance(w) PROVE TypeOK'
    BY <1>18 DEF DeleteDropInstance, DropInstance
<1>19. ASSUME NEW w \in Workers, DeleteGetCM(w) PROVE TypeOK'
    BY <1>19 DEF DeleteGetCM
<1>20. ASSUME NEW w \in Workers, DeleteUpdateCM(w) PROVE TypeOK'
    <2>1. PICK i \in Ids, copy \in ConfigMap :
            WriteCM(Without(copy.data, i)) \/ UNCHANGED registerCM
        BY <1>20 DEF DeleteUpdateCM
    <2>2. registerCM' \in ConfigMap
        BY <2>1, WriteCMType
    <2> QED BY <1>20, <2>2 DEF DeleteUpdateCM
<1>21. ASSUME NEW w \in Workers, DeleteMarkDown(w) PROVE TypeOK'
    <2>1. /\ instanceStore' \in [Ids -> Instance \cup {NoInstance}]
          /\ customInstanceStore' \in [Ids -> Instance \cup {NoInstance}]
        BY <1>21 DEF DeleteMarkDown, MarkDown, MarkedDown, SameObject, Instance
    <2> QED BY <1>21, <2>1 DEF DeleteMarkDown
<1>22. ASSUME NEW w \in Workers, Done(w) PROVE TypeOK'
    <2>1. item[w] \in Pods
        BY <1>22 DEF Done
    <2>2. workQueue' \in QueueType(Pods)
        BY <1>22, <2>1, QDoneFields DEF Done
    <2> QED BY <1>22, <2>2, InstanceFacts DEF Done
<1>23. CASE UNCHANGED vars
    BY <1>23 DEF vars
<1> QED
    BY <1>2, <1>3, <1>4, <1>5, <1>6, <1>7, <1>8, <1>9, <1>10, <1>11, <1>12,
       <1>13, <1>14, <1>15, <1>16, <1>17, <1>18, <1>19, <1>20, <1>21, <1>22,
       <1>23 DEF Next, PodStep, WorkerStep

-----------------------------------------------------------------------------
(* The queue and the workers.  The keys in processing are those the        *)
(* workers hold, each held once: with this, QueueOK is inductive.          *)
Holding ==
    /\ \A p \in Pods :
        p \in workQueue.processing <=> \E w \in Workers : item[w] = p
    /\ \A v, w \in Workers : item[v] = item[w] /\ item[v] # NoPod => v = w

(* A worker stops only after the shutdown, and the last one leaves an      *)
(* empty queue.                                                            *)
Stopping ==
    /\ \A w \in Workers : pc[w] = "stopped" => workQueue.shuttingDown
    /\ (\A w \in Workers : pc[w] = "stopped") => workQueue.queue = <<>>

WorkInv == TypeOK /\ QueueOK /\ Holding /\ Stopping

(* Steps inside syncHandler: those that neither touch the queue nor the    *)
(* keys in the workers' hands.                                             *)
Handling(w) ==
    \/ SyncHandler(w)
    \/ RegisterLoadKey(w) \/ RegisterStoreKey(w) \/ RegisterStoreInstance(w)
    \/ DeleteLoadKey(w) \/ DeleteDropCustom(w) \/ DeleteDropKey(w)
    \/ DeleteLoadInstance(w) \/ DeleteDropInstance(w)
    \/ DeleteGetCM(w) \/ DeleteUpdateCM(w) \/ DeleteMarkDown(w)

CacheStep(p) ==
    PodAdded(p) \/ PodUpdated(p) \/ PodDeleted(p) \/ PodDeletionMissed(p)

(* A step inside syncHandler leaves the cluster, the queue and the items   *)
(* alone, and the worker neither idle nor stopped.                         *)
LEMMA HandlingFrame ==
    ASSUME TypeOK, NEW w \in Workers, Handling(w)
    PROVE  /\ UNCHANGED <<clusterVars, workQueue, item>>
           /\ item[w] \in Pods
           /\ pc[w] \notin {"get", "stopped", "done"}
           /\ pc'[w] \notin {"get", "stopped", "sync"}
           /\ \A v \in Workers \ {w} : pc'[v] = pc[v] /\ insId'[v] = insId[v]
<1> USE DEF TypeOK, At, Goto, clusterVars, localVars
<1>1. CASE SyncHandler(w)
    <2>1. Verdict(item[w]) \in {"ignore", "register", "delete"}
        BY DEF Verdict
    <2> QED BY <1>1, <2>1 DEF SyncHandler
<1>2. CASE RegisterLoadKey(w) \/ RegisterStoreKey(w) \/ RegisterStoreInstance(w)
    BY <1>2 DEF RegisterLoadKey, RegisterStoreKey, RegisterStoreInstance
<1>3. CASE DeleteLoadKey(w) \/ DeleteDropCustom(w) \/ DeleteDropKey(w)
    BY <1>3 DEF DeleteLoadKey, DeleteDropCustom, DeleteDropKey
<1>4. CASE DeleteLoadInstance(w) \/ DeleteDropInstance(w)
    BY <1>4 DEF DeleteLoadInstance, DeleteDropInstance
<1>5. CASE DeleteGetCM(w) \/ DeleteUpdateCM(w) \/ DeleteMarkDown(w)
    BY <1>5 DEF DeleteGetCM, DeleteUpdateCM, DeleteMarkDown
<1> QED BY <1>1, <1>2, <1>3, <1>4, <1>5 DEF Handling

(* A change in the cache leaves the queue, the stores and the workers      *)
(* alone.                                                                  *)
LEMMA CacheFrame ==
    ASSUME TypeOK, NEW p \in Pods, CacheStep(p)
    PROVE  /\ UNCHANGED <<storeVars, workQueue, pc, localVars>>
           /\ \E pod \in Present(p) \cup {Absent} : pods' = [pods EXCEPT ![p] = pod]
           /\ \/ enqueuePod(p)
              \/ p \in Missed /\ UNCHANGED waiting
BY PodStatesFacts DEF CacheStep, PodAdded, PodUpdated, PodDeleted,
    PodDeletionMissed, CacheChange, TypeOK

(* The steps of the monitor, as the proofs below split them.               *)
LEMMA NextCases ==
    ASSUME [Next]_vars
    PROVE  \/ \E p \in Pods : CacheStep(p)
           \/ \E p \in Pods : AddReady(p)
           \/ ShutDown
           \/ \E w \in Workers : Get(w)
           \/ \E w \in Workers : Exit(w)
           \/ \E w \in Workers : Handling(w)
           \/ \E w \in Workers : Done(w)
           \/ UNCHANGED vars
BY DEF Next, PodStep, WorkerStep, CacheStep, Handling

(* No worker holds a key, and none has stopped, at the start.              *)
LEMMA WorkInit == Init => WorkInv
<1> SUFFICES ASSUME Init PROVE WorkInv
    OBVIOUS
<1>1. TypeOK
    BY TypeInit
<1>2. QueueOK
    BY EmptyQueueOK DEF Init, PodInit, QueueOK
<1>3. Holding
    BY DEF Init, PodInit, Holding, EmptyQueue
<1>4. Stopping
    BY DEF Init, PodInit, Stopping, EmptyQueue
<1> QED BY <1>1, <1>2, <1>3, <1>4 DEF WorkInv

(* Every step keeps the invariant of the queue and the workers.            *)
LEMMA WorkNext == WorkInv /\ [Next]_vars => WorkInv'
<1> SUFFICES ASSUME WorkInv, [Next]_vars PROVE WorkInv'
    OBVIOUS
<1>0. TypeOK /\ QueueOK /\ Holding /\ Stopping /\ TypeOK'
    BY TypeNext DEF WorkInv
<1> SUFFICES QueueOK' /\ Holding' /\ Stopping'
    BY <1>0 DEF WorkInv
<1>1. CASE UNCHANGED <<workQueue, item, pc>>
    BY <1>0, <1>1 DEF QueueOK, Holding, Stopping
<1>2. ASSUME NEW p \in Pods, AddReady(p) PROVE QueueOK' /\ Holding' /\ Stopping'
    <2>1. workQueue \in QueueType(Pods) /\ QWellFormed(workQueue)
        BY <1>0 DEF TypeOK, QueueOK
    <2>2. workQueue' = QAdd(workQueue, p) /\ UNCHANGED <<item, pc>>
        BY <1>2 DEF AddReady, localVars
    <2>3. QWellFormed(workQueue')
        BY <2>1, <2>2, QAddWellFormed
    <2>4. /\ workQueue'.processing = workQueue.processing
          /\ workQueue'.shuttingDown = workQueue.shuttingDown
          /\ workQueue.shuttingDown => workQueue' = workQueue
        BY <1>2, <2>1, <2>2, QAddFields, QAddClosed
    <2> QED BY <1>0, <2>2, <2>3, <2>4 DEF QueueOK, Holding, Stopping
<1>3. ASSUME ShutDown PROVE QueueOK' /\ Holding' /\ Stopping'
    <2>1. /\ workQueue'.dirty = workQueue.dirty
          /\ workQueue'.processing = workQueue.processing
          /\ workQueue'.queue = workQueue.queue
          /\ workQueue'.shuttingDown
          /\ UNCHANGED <<item, pc>>
        BY <1>0, <1>3, QShutDownFields DEF ShutDown, TypeOK, localVars
    <2> QED BY <1>0, <2>1 DEF QueueOK, QWellFormed, Holding, Stopping
<1>4. ASSUME NEW w \in Workers, Get(w) PROVE QueueOK' /\ Holding' /\ Stopping'
    <2> DEFINE k == Head(workQueue.queue)
    <2>1. /\ workQueue \in QueueType(Pods) /\ QWellFormed(workQueue)
          /\ QHasItem(workQueue) /\ workQueue' = QGet(workQueue)
          /\ item \in [Workers -> Pods \cup {NoPod}] /\ pc \in [Workers -> Labels]
          /\ item' = [item EXCEPT ![w] = k] /\ pc' = [pc EXCEPT ![w] = "sync"]
          /\ item[w] = NoPod
        BY <1>0, <1>4 DEF Get, TypeOK, QueueOK, At, Goto
    <2>2. /\ k \in Pods /\ k \notin workQueue.processing
          /\ workQueue'.processing = workQueue.processing \cup {k}
          /\ workQueue'.shuttingDown = workQueue.shuttingDown
        BY <2>1, QGetFields
    <2>3. \A v \in Workers : item[v] # k
        BY <1>0, <2>2 DEF Holding
    <2> HIDE DEF k
    <2>4. QueueOK'
        BY <2>1, QGetWellFormed DEF QueueOK
    <2>5. Holding'
        BY <1>0, <2>1, <2>2, <2>3 DEF Holding
    <2>6. Stopping'
        BY <1>0, <2>1, <2>2 DEF Stopping
    <2> QED BY <2>4, <2>5, <2>6
<1>5. ASSUME NEW w \in Workers, Exit(w) PROVE QueueOK' /\ Holding' /\ Stopping'
    <2>1. /\ UNCHANGED <<workQueue, item>> /\ workQueue.shuttingDown
          /\ workQueue.queue = <<>>
          /\ pc \in [Workers -> Labels] /\ pc' = [pc EXCEPT ![w] = "stopped"]
        BY <1>0, <1>5 DEF Exit, TypeOK, Goto, QHasItem, localVars
    <2> QED BY <1>0, <2>1 DEF QueueOK, Holding, Stopping
<1>6. ASSUME NEW w \in Workers, Handling(w) PROVE QueueOK' /\ Holding' /\ Stopping'
    <2>1. /\ UNCHANGED <<workQueue, item>>
          /\ pc[w] # "stopped" /\ pc'[w] # "stopped"
          /\ \A v \in Workers \ {w} : pc'[v] = pc[v]
        BY <1>0, <1>6, HandlingFrame
    <2> QED BY <1>0, <2>1 DEF QueueOK, Holding, Stopping
<1>7. ASSUME NEW w \in Workers, Done(w) PROVE QueueOK' /\ Holding' /\ Stopping'
    <2> DEFINE k == item[w]
    <2>1. /\ workQueue \in QueueType(Pods) /\ QWellFormed(workQueue)
          /\ workQueue' = QDone(workQueue, k)
          /\ item \in [Workers -> Pods \cup {NoPod}] /\ pc \in [Workers -> Labels]
          /\ item' = [item EXCEPT ![w] = NoPod] /\ pc' = [pc EXCEPT ![w] = "get"]
          /\ k \in Pods /\ pc[w] = "done"
        BY <1>0, <1>7 DEF Done, TypeOK, QueueOK, At, Goto
    <2>2. /\ k \in workQueue.processing
          /\ workQueue'.processing = workQueue.processing \ {k}
          /\ workQueue'.shuttingDown = workQueue.shuttingDown
        BY <1>0, <2>1, QDoneFields DEF Holding
    <2>3. QueueOK'
        BY <2>1, <2>2, QDoneWellFormed DEF QueueOK
    <2>4. Holding'
        BY <1>0, <2>1, <2>2 DEF Holding
    <2>5. Stopping'
        BY <1>0, <2>1, <2>2 DEF Stopping
    <2> QED BY <2>3, <2>4, <2>5
<1> QED
    <2>1. ASSUME NEW p \in Pods, CacheStep(p) PROVE UNCHANGED <<workQueue, item, pc>>
        BY <1>0, <2>1, CacheFrame DEF localVars
    <2>2. UNCHANGED vars => UNCHANGED <<workQueue, item, pc>>
        BY DEF vars, localVars
    <2> QED BY <1>1, <1>2, <1>3, <1>4, <1>5, <1>6, <1>7, <2>1, <2>2, NextCases

(* TypeOK, QueueOK: types and the well-formedness of the queue hold in     *)
(* every reachable state.                                                  *)
THEOREM WorkInvariant == Spec => []WorkInv
<1>1. Init => WorkInv
    BY WorkInit
<1>2. WorkInv /\ [Next]_vars => WorkInv'
    BY WorkNext
<1> QED BY <1>1, <1>2, PTL DEF Spec

(* Every variable keeps its type.                                          *)
THEOREM TypeCorrect == Spec => []TypeOK
<1>1. WorkInv => TypeOK
    BY DEF WorkInv
<1> QED BY <1>1, WorkInvariant, PTL

(* The work queue never loses, nor doubles, a key.                         *)
THEOREM QueueCorrect == Spec => []QueueOK
<1>1. WorkInv => QueueOK
    BY DEF WorkInv
<1> QED BY <1>1, WorkInvariant, PTL

(* When all workers have stopped, no key was left behind.                  *)
THEOREM StopsDrained == Spec => []StoppedIsDrained
<1>1. WorkInv => StoppedIsDrained
    <2> SUFFICES ASSUME WorkInv, \A w \in Workers : pc[w] = "stopped"
                 PROVE  workQueue.dirty = {} /\ workQueue.processing = {}
        BY DEF StoppedIsDrained
    <2>1. \A w \in Workers : item[w] = NoPod
        BY DEF WorkInv, TypeOK
    <2>2. workQueue.processing = {}
        BY <2>1 DEF WorkInv, Holding, TypeOK, QueueType
    <2>3. Range(workQueue.queue) = {}
        BY DEF WorkInv, Stopping, Range
    <2> QED BY <2>2, <2>3 DEF WorkInv, QueueOK, QWellFormed
<1> QED BY <1>1, WorkInvariant, PTL

-----------------------------------------------------------------------------
(* The monitor implements KeyedWork.                                       *)

(* The monitor starts in an initial state of KeyedWork.                    *)
LEMMA AbstractInit == Init => Abstract!Init
BY DEF Init, PodInit, Abstract!Init, Announced, EmptyQueue

(* Each step is one of KeyedWork, or leaves its variables as they are.     *)
LEMMA AbstractNext ==
    WorkInv /\ [Next]_vars => [Abstract!Next]_(Abstract!vars)
<1> SUFFICES ASSUME WorkInv, [Next]_vars
             PROVE  Abstract!Next \/ UNCHANGED Abstract!vars
    BY Zenon
<1> DEFINE Idle == UNCHANGED <<Announced, item, workQueue.shuttingDown>>
<1>0. TypeOK /\ QueueOK /\ Holding
    BY DEF WorkInv
<1>1. ASSUME UNCHANGED <<waiting, workQueue, item>> PROVE Idle
    BY <1>1 DEF Announced
<1>2. ASSUME NEW p \in Pods, CacheStep(p) PROVE Abstract!Announce(p) \/ Idle
    <2>1. UNCHANGED <<workQueue, item>>
        BY <1>0, <1>2, CacheFrame DEF localVars
    <2>2. CASE UNCHANGED waiting
        BY <1>1, <2>1, <2>2
    <2>3. CASE enqueuePod(p)
        BY <1>1, <2>1, <2>3 DEF enqueuePod, Abstract!Announce, Announced
    <2> QED BY <1>0, <1>2, <2>2, <2>3, CacheFrame
<1>3. ASSUME NEW p \in Pods, AddReady(p) PROVE Abstract!Drop(p) \/ Idle
    <2>1. /\ p \in waiting /\ waiting' = waiting \ {p}
          /\ workQueue' = QAdd(workQueue, p) /\ UNCHANGED item
          /\ workQueue \in QueueType(Pods)
        BY <1>0, <1>3 DEF AddReady, localVars, TypeOK
    <2>2. workQueue'.shuttingDown = workQueue.shuttingDown
        BY <1>3, <2>1, QAddFields
    <2>3. CASE workQueue.shuttingDown
        <3>1. workQueue' = workQueue
            BY <2>1, <2>3, QAddClosed
        <3>2. Announced' \in {Announced, Announced \ {p}}
            BY <2>1, <3>1 DEF Announced
        <3> QED BY <2>1, <2>3, <3>1, <3>2 DEF Abstract!Drop
    <2>4. CASE ~workQueue.shuttingDown
        <3>1. workQueue'.dirty = workQueue.dirty \cup {p}
            BY <1>3, <2>1, <2>4, QAddOpen
        <3>2. Announced' = Announced
            BY <2>1, <3>1 DEF Announced
        <3> QED BY <2>1, <2>2, <3>2
    <2> QED BY <2>3, <2>4
<1>4. ASSUME ShutDown PROVE Abstract!Close
    <2>1. /\ workQueue'.dirty = workQueue.dirty /\ workQueue'.shuttingDown
          /\ UNCHANGED <<waiting, item>>
        BY <1>0, <1>4, QShutDownFields DEF ShutDown, TypeOK, clusterVars, localVars
    <2>2. workQueue'.shuttingDown = TRUE
        BY <1>0, <1>4 DEF ShutDown, QShutDown, TypeOK, QueueType
    <2> QED BY <2>1, <2>2 DEF Abstract!Close, Announced
<1>5. ASSUME NEW w \in Workers, Get(w) PROVE \E p \in Pods : Abstract!Start(w, p)
    <2> DEFINE k == Head(workQueue.queue)
    <2>1. /\ workQueue \in QueueType(Pods) /\ QWellFormed(workQueue)
          /\ QHasItem(workQueue) /\ workQueue' = QGet(workQueue)
          /\ item' = [item EXCEPT ![w] = k] /\ item[w] = NoPod
          /\ UNCHANGED waiting
        BY <1>0, <1>5 DEF Get, TypeOK, QueueOK, At, clusterVars
    <2>2. /\ k \in Pods /\ k \in workQueue.dirty /\ k \notin workQueue.processing
          /\ workQueue'.dirty = workQueue.dirty \ {k}
          /\ workQueue'.shuttingDown = workQueue.shuttingDown
        BY <2>1, QGetFields
    <2>3. \A v \in Workers : item[v] # k
        BY <1>0, <2>2 DEF Holding
    <2> HIDE DEF k
    <2>4. k \in Announced /\ Announced' \in {Announced, Announced \ {k}}
        BY <2>1, <2>2 DEF Announced
    <2>5. Abstract!Start(w, k)
        BY <2>1, <2>2, <2>3, <2>4 DEF Abstract!Start
    <2> QED BY <2>2, <2>5
<1>6. ASSUME NEW w \in Workers, Exit(w) PROVE Idle
    BY <1>1, <1>6 DEF Exit, clusterVars, localVars
<1>7. ASSUME NEW w \in Workers, Handling(w) PROVE Idle
    BY <1>0, <1>1, <1>7, HandlingFrame DEF clusterVars
<1>8. ASSUME NEW w \in Workers, Done(w) PROVE Abstract!Finish(w)
    <2>1. /\ workQueue' = QDone(workQueue, item[w]) /\ item[w] \in Pods
          /\ item' = [item EXCEPT ![w] = NoPod] /\ item[w] # NoPod
          /\ workQueue \in QueueType(Pods) /\ UNCHANGED waiting
        BY <1>0, <1>8 DEF Done, TypeOK, At, clusterVars
    <2>2. /\ workQueue'.dirty = workQueue.dirty
          /\ workQueue'.shuttingDown = workQueue.shuttingDown
        BY <2>1, QDoneFields
    <2> QED BY <2>1, <2>2 DEF Abstract!Finish, Announced
<1>9. UNCHANGED vars => Idle
    BY <1>1 DEF vars, clusterVars, localVars
<1> QED
    <2>1. Idle => UNCHANGED Abstract!vars
        BY DEF Abstract!vars
    <2> HIDE DEF Idle
    <2> QED
        BY <1>2, <1>3, <1>4, <1>5, <1>6, <1>7, <1>8, <1>9, <2>1, NextCases
        DEF Abstract!Next

(* No two workers on one key, no announced key forgotten.                  *)
THEOREM ImplementsKeyedWork == Spec => KeyedWorkSpec
<1>1. Init => Abstract!Init
    BY AbstractInit
<1>2. WorkInv /\ [Next]_vars => [Abstract!Next]_(Abstract!vars)
    BY AbstractNext
<1> QED BY <1>1, <1>2, WorkInvariant, PTL DEF Spec, KeyedWorkSpec, Abstract!Spec

-----------------------------------------------------------------------------
(* What the pod monitor does to the registry: the key of a pod follows its *)
(* state in the cache, every instance has an owner, and the config map's   *)
(* entries only go.                                                        *)

(* A key's entry changes only in the hands of the worker that holds it,    *)
(* and a worker knows what the entry is from the calls it has made.        *)
KeyKnown(w) ==
    /\ pc[w] = "storeKey" => namespaceStore[item[w]] = NoId
    /\ pc[w] \in {"storeInstance", "dropCustom", "dropKey"} =>
            namespaceStore[item[w]] = insId[w]
    /\ pc[w] \in {"loadInstance", "dropInstance", "getCM", "updateCM", "markDown"} =>
            namespaceStore[item[w]] = NoId

KeysKnown == \A w \in Workers : KeyKnown(w)

(* What a step does to the entries of pods: nothing, or a worker inside    *)
(* syncHandler writes that of the key it holds.                            *)
LEMMA KeyFrame ==
    ASSUME TypeOK, NEW w \in Workers, Handling(w)
    PROVE  \A p \in Pods \ {item[w]} : namespaceStore'[p] = namespaceStore[p]
<1> USE DEF TypeOK, RepoTypeOK, NamespaceKeys, storeVars, repoVars
<1>1. CASE RegisterStoreKey(w)
    BY <1>1 DEF RegisterStoreKey, StoreKey
<1>2. CASE DeleteDropKey(w)
    BY <1>2 DEF DeleteDropKey, DropKey
<1>3. CASE UNCHANGED namespaceStore
    BY <1>3
<1>4. CASE SyncHandler(w) \/ RegisterLoadKey(w) \/ RegisterStoreInstance(w)
    BY <1>3, <1>4 DEF SyncHandler, RegisterLoadKey, RegisterStoreInstance
<1>5. CASE DeleteLoadKey(w) \/ DeleteDropCustom(w) \/ DeleteLoadInstance(w)
    BY <1>3, <1>5 DEF DeleteLoadKey, DeleteDropCustom, DeleteLoadInstance
<1>6. CASE DeleteDropInstance(w) \/ DeleteGetCM(w) \/ DeleteUpdateCM(w)
            \/ DeleteMarkDown(w)
    BY <1>3, <1>6 DEF DeleteDropInstance, DeleteGetCM, DeleteUpdateCM,
        DeleteMarkDown
<1> QED BY <1>1, <1>2, <1>4, <1>5, <1>6 DEF Handling

(* What the worker knows after its step.                                   *)
LEMMA KeyStep ==
    ASSUME TypeOK, NEW w \in Workers, Handling(w), KeyKnown(w)
    PROVE  KeyKnown(w)'
<1> USE DEF TypeOK, RepoTypeOK, NamespaceKeys, At, Goto, KeyKnown, UsesId,
            storeVars, repoVars, localVars
<1>0. item[w] \in Pods /\ item' = item
    BY HandlingFrame
<1>1. CASE SyncHandler(w)
    <2>1. Verdict(item[w]) \in {"ignore", "register", "delete"}
        BY DEF Verdict
    <2> QED BY <1>0, <1>1, <2>1 DEF SyncHandler
<1>2. CASE RegisterLoadKey(w)
    BY <1>0, <1>2 DEF RegisterLoadKey
<1>3. CASE RegisterStoreKey(w)
    BY <1>0, <1>3 DEF RegisterStoreKey, StoreKey
<1>4. CASE RegisterStoreInstance(w)
    BY <1>0, <1>4 DEF RegisterStoreInstance
<1>5. CASE DeleteLoadKey(w)
    BY <1>0, <1>5 DEF DeleteLoadKey
<1>6. CASE DeleteDropCustom(w)
    BY <1>0, <1>6 DEF DeleteDropCustom
<1>7. CASE DeleteDropKey(w)
    BY <1>0, <1>7 DEF DeleteDropKey, DropKey
<1>8. CASE DeleteLoadInstance(w)
    BY <1>0, <1>8 DEF DeleteLoadInstance
<1>9. CASE DeleteDropInstance(w)
    BY <1>0, <1>9 DEF DeleteDropInstance
<1>10. CASE DeleteGetCM(w) \/ DeleteUpdateCM(w) \/ DeleteMarkDown(w)
    BY <1>0, <1>10 DEF DeleteGetCM, DeleteUpdateCM, DeleteMarkDown
<1> QED BY <1>1, <1>2, <1>3, <1>4, <1>5, <1>6, <1>7, <1>8, <1>9, <1>10
        DEF Handling

(* What the workers know stays true under every step.                      *)
LEMMA KeysKnownNext == WorkInv /\ KeysKnown /\ [Next]_vars => KeysKnown'
<1> SUFFICES ASSUME WorkInv, KeysKnown, [Next]_vars, NEW v \in Workers
             PROVE  KeyKnown(v)'
    BY DEF KeysKnown
<1>0. TypeOK /\ Holding /\ KeyKnown(v)
    BY DEF WorkInv, KeysKnown
<1>1. ASSUME UNCHANGED namespaceStore,
             pc'[v] \in {"get", "sync", "stopped"}
                \/ UNCHANGED <<pc[v], item[v], insId[v]>>
      PROVE  KeyKnown(v)'
    BY <1>0, <1>1 DEF KeyKnown
<1>2. ASSUME NEW p \in Pods, CacheStep(p) PROVE KeyKnown(v)'
    BY <1>0, <1>1, <1>2, CacheFrame DEF storeVars, localVars
<1>3. ASSUME NEW p \in Pods, AddReady(p) PROVE KeyKnown(v)'
    BY <1>1, <1>3 DEF AddReady, storeVars, localVars
<1>4. ASSUME ShutDown PROVE KeyKnown(v)'
    BY <1>1, <1>4 DEF ShutDown, storeVars, localVars
<1>5. ASSUME NEW w \in Workers, Get(w) \/ Exit(w) \/ Done(w) PROVE KeyKnown(v)'
    BY <1>0, <1>1, <1>5 DEF Get, Exit, Done, Goto, TypeOK, storeVars, localVars
<1>6. ASSUME NEW w \in Workers, Handling(w) PROVE KeyKnown(v)'
    <2>1. CASE v = w
        BY <1>0, <1>6, <2>1, KeyStep
    <2>2. CASE v # w /\ item[v] = NoPod
        <3>1. pc[v] \in {"get", "stopped"}
            BY <1>0, <2>2 DEF TypeOK
        <3>2. pc'[v] \in {"get", "stopped"}
            BY <1>0, <1>6, <2>2, <3>1, HandlingFrame
        <3> QED BY <3>2 DEF KeyKnown
    <2>3. CASE v # w /\ item[v] # NoPod
        <3>1. item[v] \in Pods \ {item[w]}
            BY <1>0, <2>3 DEF TypeOK, Holding
        <3>2. /\ namespaceStore'[item[v]] = namespaceStore[item[v]]
              /\ UNCHANGED <<pc[v], item[v], insId[v]>>
            BY <1>0, <1>6, <2>3, <3>1, KeyFrame, HandlingFrame
        <3> QED BY <1>0, <3>2 DEF KeyKnown
    <2> QED BY <2>1, <2>2, <2>3
<1>7. CASE UNCHANGED vars
    BY <1>1, <1>7 DEF vars, storeVars, localVars
<1> QED BY <1>2, <1>3, <1>4, <1>5, <1>6, <1>7, NextCases

(* No pod's key is registered at the start.                                *)
LEMMA KeysKnownInit == Init => KeysKnown
BY DEF Init, PodInit, KeysKnown, KeyKnown

(* What the workers know is an invariant.                                  *)
LEMMA KeysInvariant == Spec => [](WorkInv /\ KeysKnown)
<1>1. Init => WorkInv /\ KeysKnown
    BY WorkInit, KeysKnownInit
<1>2. WorkInv /\ KeysKnown /\ [Next]_vars => (WorkInv /\ KeysKnown)'
    BY WorkNext, KeysKnownNext
<1> QED BY <1>1, <1>2, PTL DEF Spec

-----------------------------------------------------------------------------
(* The key of a pod follows its state in the cache.  A worker decides on   *)
(* what the cache held when it read it; as long as the key is not          *)
(* announced again, the cache still holds that.                            *)
DecidedWell(w) ==
    /\ pc[w] \in {"register", "storeKey", "storeInstance"} =>
            Verdict(item[w]) = "register"
    /\ pc[w] \in {"delete", "dropCustom", "dropKey", "loadInstance",
                  "dropInstance", "getCM", "updateCM", "markDown"} =>
            Verdict(item[w]) = "delete"
    /\ pc[w] = "done" => Agrees(item[w])

FollowInv ==
    workQueue.shuttingDown = FALSE =>
        /\ \A p \in Pods : p \notin Announced \cup workQueue.processing => Agrees(p)
        /\ \A w \in Workers : item[w] \notin Announced => DecidedWell(w)

(* After its step a worker has acted as the cache asks, if it had before.  *)
LEMMA DecidedStep ==
    ASSUME TypeOK, NEW w \in Workers, Handling(w), KeyKnown(w), DecidedWell(w)
    PROVE  DecidedWell(w)'
<1> USE DEF TypeOK, RepoTypeOK, NamespaceKeys, At, Goto, UsesId,
            storeVars, repoVars, localVars
<1>0. item[w] \in Pods /\ UNCHANGED <<item, pods>>
    BY HandlingFrame DEF clusterVars
<1>1. /\ Verdict(item[w]) \in {"ignore", "register", "delete"}
      /\ Verdict(item[w])' = Verdict(item[w])
    BY <1>0 DEF Verdict
<1>2. CASE SyncHandler(w)
    <2>1. pc'[w] = IF Verdict(item[w]) = "ignore" THEN "done" ELSE Verdict(item[w])
        BY <1>2 DEF SyncHandler
    <2> QED BY <1>0, <1>1, <2>1 DEF DecidedWell, Agrees
<1>3. CASE RegisterLoadKey(w)
    <2>1. pc[w] = "register" /\ UNCHANGED namespaceStore
        BY <1>3 DEF RegisterLoadKey
    <2>2. pc'[w] = IF namespaceStore[item[w]] = NoId THEN "storeKey" ELSE "done"
        BY <1>3 DEF RegisterLoadKey
    <2>3. Verdict(item[w]) = "register"
        BY <2>1 DEF DecidedWell
    <2> QED BY <1>0, <1>1, <2>1, <2>2, <2>3 DEF DecidedWell, Agrees
<1>4. CASE RegisterStoreKey(w)
    <2>1. Verdict(item[w]) = "register" /\ pc'[w] = "storeInstance"
        BY <1>4 DEF RegisterStoreKey, DecidedWell
    <2> QED BY <1>0, <1>1, <2>1 DEF DecidedWell
<1>5. CASE RegisterStoreInstance(w)
    <2>1. pc[w] = "storeInstance" /\ pc'[w] = "done" /\ UNCHANGED namespaceStore
        BY <1>5 DEF RegisterStoreInstance
    <2>2. namespaceStore[item[w]] = insId[w] /\ insId[w] \in Ids
        BY <2>1 DEF KeyKnown
    <2>3. Verdict(item[w]) = "register"
        BY <2>1 DEF DecidedWell
    <2> QED BY <1>0, <1>1, <2>1, <2>2, <2>3 DEF DecidedWell, Agrees
<1>6. CASE DeleteLoadKey(w)
    <2>1. /\ pc[w] = "delete" /\ UNCHANGED namespaceStore
          /\ insId'[w] = namespaceStore[item[w]]
        BY <1>6 DEF DeleteLoadKey
    <2>2. pc'[w] = IF insId'[w] = NoId THEN "done" ELSE "dropCustom"
        BY <1>6 DEF DeleteLoadKey
    <2>3. Verdict(item[w]) = "delete"
        BY <2>1 DEF DecidedWell
    <2> QED BY <1>0, <1>1, <2>1, <2>2, <2>3 DEF DecidedWell, Agrees
<1>7. CASE DeleteLoadInstance(w) \/ DeleteMarkDown(w)
    <2>1. /\ Verdict(item[w]) = "delete" /\ UNCHANGED namespaceStore
          /\ pc'[w] \in {"dropInstance", "done"} /\ namespaceStore[item[w]] = NoId
        BY <1>7 DEF DeleteLoadInstance, DeleteMarkDown, DecidedWell, KeyKnown
    <2> QED BY <1>0, <1>1, <2>1 DEF DecidedWell, Agrees
<1>8. CASE DeleteDropCustom(w) \/ DeleteDropKey(w) \/ DeleteDropInstance(w)
            \/ DeleteGetCM(w) \/ DeleteUpdateCM(w)
    <2>1. /\ Verdict(item[w]) = "delete"
          /\ pc'[w] \in {"dropKey", "loadInstance", "getCM", "updateCM", "markDown"}
        BY <1>8 DEF DeleteDropCustom, DeleteDropKey, DeleteDropInstance,
            DeleteGetCM, DeleteUpdateCM, DecidedWell
    <2> QED BY <1>0, <1>1, <2>1 DEF DecidedWell
<1> QED BY <1>2, <1>3, <1>4, <1>5, <1>6, <1>7, <1>8 DEF Handling

(* The invariant behind KeyFollowsPod holds at the start: no pod is there  *)
(* and none is registered.                                                 *)
LEMMA FollowInit == Init => FollowInv
<1> SUFFICES ASSUME Init PROVE FollowInv
    OBVIOUS
<1>1. \A p \in Pods : Verdict(p) # "register"
    BY DEF Init, PodInit, Verdict, Absent
<1>2. ASSUME NEW p \in Pods PROVE namespaceStore[p] = NoId
    <2>1. ~\E i \in Ids : p = CustomKey(i)
        BY RepositoryAssumption
    <2>2. p \in NamespaceKeys
        BY DEF NamespaceKeys
    <2> QED BY <2>1, <2>2 DEF Init
<1>3. \A w \in Workers : DecidedWell(w)
    BY DEF Init, PodInit, DecidedWell
<1> QED BY <1>1, <1>2, <1>3 DEF FollowInv, Agrees

(* Every step keeps FollowInv, if the watch misses no deletion.            *)
LEMMA FollowNext ==
    ASSUME Missed = {}, WorkInv, KeysKnown, FollowInv, [Next]_vars
    PROVE  FollowInv'
<1>0. TypeOK /\ QueueOK /\ Holding
    BY DEF WorkInv
<1> SUFFICES ASSUME workQueue'.shuttingDown = FALSE
             PROVE  /\ \A p \in Pods : p \notin Announced' \cup workQueue'.processing
                            => Agrees(p)'
                    /\ \A w \in Workers : item'[w] \notin Announced' => DecidedWell(w)'
    BY DEF FollowInv
<1> DEFINE Goal ==
        /\ \A p \in Pods : p \notin Announced' \cup workQueue'.processing => Agrees(p)'
        /\ \A w \in Workers : item'[w] \notin Announced' => DecidedWell(w)'
<1> DEFINE Hyp ==
        /\ \A p \in Pods : p \notin Announced \cup workQueue.processing => Agrees(p)
        /\ \A w \in Workers : item[w] \notin Announced => DecidedWell(w)
<1>1. ASSUME workQueue.shuttingDown = FALSE PROVE Hyp
    BY <1>1 DEF FollowInv
<1>2. ASSUME NEW p \in Pods, CacheStep(p) PROVE Goal
    <2>1. UNCHANGED <<namespaceStore, workQueue, pc, item>>
        BY <1>0, <1>2, CacheFrame DEF storeVars, localVars
    <2>2. Hyp
        BY <1>1, <2>1
    <2>3. enqueuePod(p)
        BY <1>0, <1>2, CacheFrame
    <2>4. Announced' = Announced \cup {p}
        BY <2>1, <2>3 DEF enqueuePod, Announced
    <2>5. \A q \in Pods \ {p} : pods'[q] = pods[q]
        BY <1>0, <1>2, CacheFrame DEF TypeOK
    <2>6. \A q \in Pods \ {p} : Verdict(q)' = Verdict(q) /\ Agrees(q)' = Agrees(q)
        BY <2>1, <2>5 DEF Verdict, Agrees
    <2>7. ASSUME NEW w \in Workers, item'[w] \notin Announced' PROVE DecidedWell(w)'
        <3>1. DecidedWell(w) /\ item[w] # p
            BY <2>1, <2>2, <2>4, <2>7
        <3>2. item[w] \in Pods \ {p} \/ pc[w] \in {"get", "stopped"}
            BY <1>0, <3>1 DEF TypeOK
        <3> QED BY <2>1, <2>6, <3>1, <3>2 DEF DecidedWell
    <2> QED BY <2>1, <2>2, <2>4, <2>6, <2>7
<1>3. ASSUME UNCHANGED <<pods, namespaceStore, pc, item, Announced,
                         workQueue.processing, workQueue.shuttingDown>>
      PROVE  Goal
    BY <1>1, <1>3 DEF Agrees, DecidedWell, Verdict
<1>4. ASSUME NEW p \in Pods, AddReady(p) PROVE Goal
    <2>1. /\ p \in waiting /\ waiting' = waiting \ {p}
          /\ workQueue' = QAdd(workQueue, p) /\ workQueue \in QueueType(Pods)
          /\ UNCHANGED <<pods, namespaceStore, pc, item>>
        BY <1>0, <1>4 DEF AddReady, TypeOK, storeVars, localVars
    <2>2. /\ workQueue'.shuttingDown = workQueue.shuttingDown
          /\ workQueue'.processing = workQueue.processing
        BY <1>4, <2>1, QAddFields
    <2>3. workQueue'.dirty = workQueue.dirty \cup {p}
        BY <1>4, <2>1, <2>2, QAddOpen
    <2>4. Announced' = Announced
        BY <2>1, <2>3 DEF Announced
    <2> QED BY <1>3, <2>1, <2>2, <2>4
<1>5. ASSUME ShutDown PROVE Goal
    BY <1>0, <1>5, QShutDownFields DEF ShutDown, TypeOK
<1>6. ASSUME NEW w \in Workers, Get(w) PROVE Goal
    <2> DEFINE k == Head(workQueue.queue)
    <2>1. /\ workQueue \in QueueType(Pods) /\ QWellFormed(workQueue)
          /\ QHasItem(workQueue) /\ workQueue' = QGet(workQueue)
          /\ item \in [Workers -> Pods \cup {NoPod}] /\ pc \in [Workers -> Labels]
          /\ item' = [item EXCEPT ![w] = k] /\ pc' = [pc EXCEPT ![w] = "sync"]
          /\ UNCHANGED <<waiting, pods, namespaceStore>>
        BY <1>0, <1>6 DEF Get, TypeOK, QueueOK, Goto, clusterVars, storeVars
    <2>2. /\ k \in Pods /\ k \notin workQueue.processing
          /\ workQueue'.dirty = workQueue.dirty \ {k}
          /\ workQueue'.processing = workQueue.processing \cup {k}
          /\ workQueue'.shuttingDown = workQueue.shuttingDown
        BY <2>1, QGetFields
    <2>3. \A v \in Workers : item[v] # k
        BY <1>0, <2>2 DEF Holding
    <2> HIDE DEF k
    <2>4. Announced \subseteq Announced' \cup {k} /\ Hyp
        BY <1>1, <2>1, <2>2 DEF Announced
    <2>5. \A p \in Pods : Agrees(p)' = Agrees(p)
        BY <2>1 DEF Agrees, Verdict
    <2>6. ASSUME NEW v \in Workers, item'[v] \notin Announced' PROVE DecidedWell(v)'
        <3>1. CASE v = w
            BY <2>1, <3>1 DEF DecidedWell
        <3>2. CASE v # w
            <4>1. DecidedWell(v) /\ UNCHANGED <<item[v], pc[v]>>
                BY <2>1, <2>3, <2>4, <2>6, <3>2
            <4> QED BY <2>1, <4>1 DEF DecidedWell, Agrees, Verdict
        <3> QED BY <3>1, <3>2
    <2> QED BY <2>2, <2>4, <2>5, <2>6
<1>7. ASSUME NEW w \in Workers, Exit(w) PROVE Goal
    BY <1>7, <1>0 DEF Exit
<1>8. ASSUME NEW w \in Workers, Handling(w) PROVE Goal
    <2>1. /\ UNCHANGED <<pods, waiting, workQueue, item>> /\ item[w] \in Pods
          /\ \A v \in Workers \ {w} : pc'[v] = pc[v]
        BY <1>0, <1>8, HandlingFrame DEF clusterVars
    <2>2. Announced' = Announced /\ Hyp
        BY <1>1, <2>1 DEF Announced
    <2>3. \A p \in Pods \ {item[w]} :
            namespaceStore'[p] = namespaceStore[p] /\ Verdict(p)' = Verdict(p)
        BY <1>0, <1>8, <2>1, KeyFrame DEF Verdict
    <2>4. item[w] \in workQueue.processing
        BY <1>0, <2>1 DEF Holding
    <2>5. ASSUME NEW p \in Pods, p \notin Announced' \cup workQueue'.processing
          PROVE  Agrees(p)'
        BY <2>1, <2>2, <2>3, <2>4, <2>5 DEF Agrees
    <2>6. ASSUME NEW v \in Workers, item'[v] \notin Announced' PROVE DecidedWell(v)'
        <3>1. DecidedWell(v)
            BY <2>1, <2>2, <2>6
        <3>2. CASE v = w
            BY <1>0, <1>8, <3>1, <3>2, DecidedStep DEF KeysKnown
        <3>3. CASE v # w
            <4>1. item[v] \in Pods \ {item[w]} \/ pc[v] \in {"get", "stopped"}
                BY <1>0, <2>1, <3>3 DEF TypeOK, Holding
            <4> QED BY <2>1, <2>3, <3>1, <3>3, <4>1 DEF DecidedWell, Agrees
        <3> QED BY <3>2, <3>3
    <2> QED BY <2>5, <2>6
<1>9. ASSUME NEW w \in Workers, Done(w) PROVE Goal
    <2>1. /\ workQueue \in QueueType(Pods) /\ pc[w] = "done"
          /\ workQueue' = QDone(workQueue, item[w]) /\ item[w] \in Pods
          /\ item \in [Workers -> Pods \cup {NoPod}] /\ pc \in [Workers -> Labels]
          /\ item' = [item EXCEPT ![w] = NoPod] /\ pc' = [pc EXCEPT ![w] = "get"]
          /\ UNCHANGED <<waiting, pods, namespaceStore>>
        BY <1>0, <1>9 DEF Done, TypeOK, At, Goto, clusterVars, storeVars
    <2>2. /\ workQueue'.dirty = workQueue.dirty
          /\ workQueue'.processing = workQueue.processing \ {item[w]}
          /\ workQueue'.shuttingDown = workQueue.shuttingDown
        BY <2>1, QDoneFields
    <2>3. Announced' = Announced /\ Hyp
        BY <1>1, <2>1, <2>2 DEF Announced
    <2>4. \A p \in Pods : Agrees(p)' = Agrees(p)
        BY <2>1 DEF Agrees, Verdict
    <2>5. item[w] \notin Announced => Agrees(item[w])
        BY <2>1, <2>3 DEF DecidedWell
    <2>6. ASSUME NEW v \in Workers, item'[v] \notin Announced' PROVE DecidedWell(v)'
        <3>1. CASE v = w
            BY <2>1, <3>1 DEF DecidedWell
        <3>2. CASE v # w
            <4>1. DecidedWell(v) /\ UNCHANGED <<item[v], pc[v]>>
                BY <2>1, <2>3, <2>6, <3>2
            <4> QED BY <2>1, <4>1 DEF DecidedWell, Agrees, Verdict
        <3> QED BY <3>1, <3>2
    <2> QED BY <2>2, <2>3, <2>4, <2>5, <2>6
<1>10. CASE UNCHANGED vars
    <2>1. UNCHANGED <<pods, namespaceStore, pc, item, waiting, workQueue>>
        BY <1>10 DEF vars, storeVars, clusterVars, localVars
    <2> QED BY <1>3, <2>1 DEF Announced
<1> QED BY <1>2, <1>4, <1>5, <1>6, <1>7, <1>8, <1>9, <1>10, NextCases

(* When the watch misses no deletion, a monitored pod that is neither      *)
(* announced nor in hand is registered as the cache says.                  *)
THEOREM RegistryFollowsCache ==
    ASSUME Missed = {}
    PROVE  Spec => []KeyFollowsPod
<1>1. Init => FollowInv
    BY FollowInit
<1>2. WorkInv /\ KeysKnown /\ FollowInv /\ [Next]_vars => FollowInv'
    BY FollowNext
<1>3. WorkInv /\ FollowInv => KeyFollowsPod
    BY DEF FollowInv, KeyFollowsPod, WorkInv, TypeOK, QueueType
<1> QED BY <1>1, <1>2, <1>3, KeysInvariant, PTL DEF Spec

-----------------------------------------------------------------------------
(* Steps outside syncHandler leave the stores alone, and move no worker    *)
(* but into or out of it.                                                  *)
LEMMA OuterFrame ==
    ASSUME WorkInv, [Next]_vars, ~\E w \in Workers : Handling(w)
    PROVE  /\ UNCHANGED storeVars
           /\ \A v \in Workers :
                \/ UNCHANGED <<pc[v], item[v], insId[v], cmCopy[v]>>
                \/ pc'[v] \in {"get", "sync", "stopped"} /\ pc[v] \in {"get", "done"}
<1> USE DEF localVars
<1>0. TypeOK
    BY DEF WorkInv
<1>1. ASSUME NEW p \in Pods, CacheStep(p) PROVE UNCHANGED <<storeVars, pc, localVars>>
    BY <1>0, <1>1, CacheFrame
<1>2. ASSUME NEW p \in Pods, AddReady(p) PROVE UNCHANGED <<storeVars, pc, localVars>>
    BY <1>2 DEF AddReady
<1>3. ASSUME ShutDown PROVE UNCHANGED <<storeVars, pc, localVars>>
    BY <1>3 DEF ShutDown
<1>4. CASE UNCHANGED <<storeVars, pc, localVars>>
    BY <1>4
<1>5. ASSUME NEW w \in Workers, Get(w) \/ Exit(w) \/ Done(w)
      PROVE  /\ UNCHANGED storeVars
             /\ pc[w] \in {"get", "done"} /\ pc'[w] \in {"get", "sync", "stopped"}
             /\ \A v \in Workers \ {w} :
                    UNCHANGED <<pc[v], item[v], insId[v], cmCopy[v]>>
    BY <1>0, <1>5 DEF Get, Exit, Done, At, Goto, TypeOK
<1>6. CASE \E w \in Workers : Get(w) \/ Exit(w) \/ Done(w)
    BY <1>5, <1>6
<1>7. UNCHANGED vars => UNCHANGED <<storeVars, pc, localVars>>
    BY DEF vars
<1> QED BY <1>1, <1>2, <1>3, <1>4, <1>6, <1>7, NextCases

(* Every instance in the registry keeps an owner.                          *)
LEMMA OwnedStep ==
    ASSUME TypeOK, Holding, KeysKnown, InstanceIsOwned, NEW w \in Workers, Handling(w)
    PROVE  InstanceIsOwned'
<1> DEFINE Dropping(v, i) == pc[v] \in {"loadInstance", "dropInstance"} /\ insId[v] = i
<1>0. /\ item[w] \in Pods
      /\ \A v \in Workers \ {w} : pc'[v] = pc[v] /\ insId'[v] = insId[v]
      /\ \A p \in Pods \ {item[w]} : namespaceStore'[p] = namespaceStore[p]
    BY HandlingFrame, KeyFrame
<1> SUFFICES ASSUME NEW i \in Ids, instanceStore'[i] # NoInstance
             PROVE  \/ \E p \in Pods : namespaceStore'[p] = i
                    \/ \E v \in Workers : Dropping(v, i)'
    BY DEF InstanceIsOwned
<1> USE DEF TypeOK, RepoTypeOK, NamespaceKeys, At, Goto, UsesId, storeVars,
            repoVars, localVars
<1>1. CASE SyncHandler(w) \/ RegisterLoadKey(w) \/ DeleteLoadKey(w)
            \/ DeleteDropCustom(w) \/ DeleteGetCM(w) \/ DeleteUpdateCM(w)
    <2>1. /\ UNCHANGED <<namespaceStore, instanceStore>>
          /\ pc[w] \notin {"loadInstance", "dropInstance"}
        BY <1>1 DEF SyncHandler, RegisterLoadKey, DeleteLoadKey, DeleteDropCustom,
            DeleteGetCM, DeleteUpdateCM
    <2> QED BY <1>0, <2>1 DEF InstanceIsOwned
<1>2. CASE RegisterStoreKey(w)
    <2>1. /\ UNCHANGED instanceStore /\ pc[w] = "storeKey"
          /\ namespaceStore[item[w]] = NoId
        BY <1>2 DEF RegisterStoreKey, KeysKnown, KeyKnown
    <2> QED BY <1>0, <2>1 DEF InstanceIsOwned
<1>3. CASE RegisterStoreInstance(w)
    <2>1. /\ UNCHANGED namespaceStore /\ pc[w] = "storeInstance"
          /\ namespaceStore[item[w]] = insId[w]
          /\ i # insId[w] => instanceStore'[i] = instanceStore[i]
        BY <1>3 DEF RegisterStoreInstance, StoreInstance, KeysKnown, KeyKnown
    <2> QED BY <1>0, <2>1 DEF InstanceIsOwned
<1>4. CASE DeleteDropKey(w)
    <2>1. /\ UNCHANGED <<instanceStore, insId>> /\ pc[w] = "dropKey"
          /\ pc'[w] = "loadInstance"
        BY <1>4 DEF DeleteDropKey
    <2>2. namespaceStore[item[w]] = insId[w]
        BY <2>1 DEF KeysKnown, KeyKnown
    <2> QED BY <1>0, <2>1, <2>2 DEF InstanceIsOwned
<1>5. CASE DeleteLoadInstance(w)
    <2>1. /\ UNCHANGED <<namespaceStore, instanceStore, insId>>
          /\ loaded'[w] = instanceStore[insId[w]]
        BY <1>5 DEF DeleteLoadInstance
    <2>2. pc'[w] = IF loaded'[w] = NoInstance THEN "done" ELSE "dropInstance"
        BY <1>5 DEF DeleteLoadInstance
    <2> QED BY <1>0, <2>1, <2>2 DEF InstanceIsOwned
<1>6. CASE DeleteDropInstance(w)
    <2>1. /\ UNCHANGED namespaceStore /\ i # insId[w]
          /\ instanceStore'[i] = instanceStore[i]
        BY <1>6 DEF DeleteDropInstance, DropInstance
    <2> QED BY <1>0, <2>1 DEF InstanceIsOwned
<1>7. CASE DeleteMarkDown(w)
    <2>1. UNCHANGED namespaceStore /\ pc[w] = "markDown"
        BY <1>7 DEF DeleteMarkDown
    <2>2. instanceStore[i] # NoInstance
        BY <1>7 DEF DeleteMarkDown, MarkDown, MarkedDown, SameObject
    <2> QED BY <1>0, <2>1, <2>2 DEF InstanceIsOwned
<1> QED BY <1>1, <1>2, <1>3, <1>4, <1>5, <1>6, <1>7 DEF Handling

(* No instance is left in the registry that nothing would remove.          *)
THEOREM InstancesAreOwned == Spec => []InstanceIsOwned
<1>1. Init => InstanceIsOwned
    BY DEF Init, InstanceIsOwned, NoEntries
<1>2. ASSUME WorkInv, KeysKnown, InstanceIsOwned, [Next]_vars PROVE InstanceIsOwned'
    <2>1. CASE \E w \in Workers : Handling(w)
        BY <1>2, <2>1, OwnedStep DEF WorkInv
    <2>2. CASE ~\E w \in Workers : Handling(w)
        BY <1>2, <2>2, OuterFrame DEF InstanceIsOwned, storeVars
    <2> QED BY <2>1, <2>2
<1>3. WorkInv /\ KeysKnown /\ InstanceIsOwned /\ [Next]_vars => InstanceIsOwned'
    BY <1>2
<1> QED BY <1>1, <1>3, KeysInvariant, PTL DEF Spec

-----------------------------------------------------------------------------
(* A copy of the config map about to be written is no newer than the map,  *)
(* and the same as the map if it is of the same version.                   *)
CopyFresh(w) ==
    pc[w] = "updateCM" =>
        /\ cmCopy[w].version <= registerCM.version
        /\ cmCopy[w].version = registerCM.version => cmCopy[w].data = registerCM.data

CopiesFresh == \A w \in Workers : CopyFresh(w)

(* A step inside syncHandler writes the config map, if at all, with an     *)
(* entry taken out of the current map, as a new version.                   *)
LEMMA CMStep ==
    ASSUME TypeOK, CopiesFresh, NEW w \in Workers, Handling(w)
    PROVE  \/ UNCHANGED registerCM
           \/ /\ registerCM'.version = registerCM.version + 1
              /\ \E i \in Ids : registerCM'.data = Without(registerCM.data, i)
              /\ pc'[w] = "markDown"
<1>1. CASE DeleteUpdateCM(w)
    <2>1. \/ UNCHANGED registerCM
          \/ /\ pc[w] = "updateCM" /\ insId[w] \in Ids /\ pc'[w] = "markDown"
             /\ Current(cmCopy[w]) /\ WriteCM(Without(cmCopy[w].data, insId[w]))
        BY <1>1 DEF DeleteUpdateCM, TypeOK, UsesId, At, Goto
    <2> QED BY <2>1 DEF CopiesFresh, CopyFresh, Current, WriteCM
<1>2. CASE SyncHandler(w) \/ RegisterLoadKey(w) \/ RegisterStoreKey(w)
            \/ RegisterStoreInstance(w) \/ DeleteLoadKey(w) \/ DeleteDropCustom(w)
    BY <1>2 DEF SyncHandler, RegisterLoadKey, RegisterStoreKey,
        RegisterStoreInstance, DeleteLoadKey, DeleteDropCustom, storeVars
<1>3. CASE DeleteDropKey(w) \/ DeleteLoadInstance(w) \/ DeleteDropInstance(w)
            \/ DeleteGetCM(w) \/ DeleteMarkDown(w)
    BY <1>3 DEF DeleteDropKey, DeleteLoadInstance, DeleteDropInstance,
        DeleteGetCM, DeleteMarkDown, storeVars
<1> QED BY <1>1, <1>2, <1>3 DEF Handling

(* The worker that makes the step has a fresh copy when it goes to write.  *)
LEMMA CopyStep ==
    ASSUME TypeOK, NEW w \in Workers, Handling(w), pc'[w] = "updateCM"
    PROVE  cmCopy'[w] = registerCM /\ UNCHANGED registerCM
<1> USE DEF TypeOK, At, Goto, storeVars
<1>1. CASE DeleteGetCM(w)
    BY <1>1 DEF DeleteGetCM
<1>2. CASE SyncHandler(w)
    <2>1. Verdict(item[w]) \in {"ignore", "register", "delete"}
        BY DEF Verdict
    <2> QED BY <1>2, <2>1 DEF SyncHandler
<1>3. CASE RegisterLoadKey(w) \/ RegisterStoreKey(w) \/ RegisterStoreInstance(w)
            \/ DeleteLoadKey(w) \/ DeleteDropCustom(w)
    BY <1>3 DEF RegisterLoadKey, RegisterStoreKey, RegisterStoreInstance,
        DeleteLoadKey, DeleteDropCustom
<1>4. CASE DeleteDropKey(w) \/ DeleteLoadInstance(w) \/ DeleteDropInstance(w)
            \/ DeleteUpdateCM(w) \/ DeleteMarkDown(w)
    BY <1>4 DEF DeleteDropKey, DeleteLoadInstance, DeleteDropInstance,
        DeleteUpdateCM, DeleteMarkDown
<1> QED BY <1>1, <1>2, <1>3, <1>4 DEF Handling

(* The copies of the other workers are left alone.                         *)
LEMMA CopyFrame ==
    ASSUME TypeOK, NEW w \in Workers, Handling(w), NEW v \in Workers \ {w}
    PROVE  cmCopy'[v] = cmCopy[v]
<1>1. CASE DeleteGetCM(w)
    BY <1>1 DEF DeleteGetCM, TypeOK
<1>2. CASE SyncHandler(w) \/ RegisterLoadKey(w) \/ RegisterStoreKey(w)
            \/ RegisterStoreInstance(w) \/ DeleteLoadKey(w) \/ DeleteDropCustom(w)
    BY <1>2 DEF SyncHandler, RegisterLoadKey, RegisterStoreKey,
        RegisterStoreInstance, DeleteLoadKey, DeleteDropCustom, localVars
<1>3. CASE DeleteDropKey(w) \/ DeleteLoadInstance(w) \/ DeleteDropInstance(w)
            \/ DeleteUpdateCM(w) \/ DeleteMarkDown(w)
    BY <1>3 DEF DeleteDropKey, DeleteLoadInstance, DeleteDropInstance,
        DeleteUpdateCM, DeleteMarkDown, localVars
<1> QED BY <1>1, <1>2, <1>3 DEF Handling

(* Every step keeps the copies fresh.                                      *)
LEMMA CopiesFreshNext ==
    ASSUME WorkInv, CopiesFresh, [Next]_vars
    PROVE  CopiesFresh'
<1>0. TypeOK
    BY DEF WorkInv
<1>1. ASSUME NEW w \in Workers, Handling(w), NEW v \in Workers PROVE CopyFresh(v)'
    <2>1. CASE v = w
        BY <1>0, <1>1, <2>1, CopyStep DEF CopyFresh, TypeOK, ConfigMap
    <2>2. CASE v # w
        <3>1. UNCHANGED <<pc[v], cmCopy[v]>> /\ CopyFresh(v)
            BY <1>0, <1>1, <2>2, HandlingFrame, CopyFrame DEF CopiesFresh
        <3>2. /\ registerCM.version \in Nat /\ cmCopy[v].version \in Nat
              /\ UNCHANGED registerCM \/ registerCM'.version = registerCM.version + 1
            BY <1>0, <1>1, CMStep DEF TypeOK, ConfigMap
        <3> QED BY <3>1, <3>2 DEF CopyFresh
    <2> QED BY <2>1, <2>2
<1>2. CASE ~\E w \in Workers : Handling(w)
    BY <1>2, OuterFrame DEF CopiesFresh, CopyFresh, storeVars
<1> QED BY <1>1, <1>2 DEF CopiesFresh

(* An entry that was removed from the config map does not come back.       *)
THEOREM EntriesStayRemoved == Spec => RemovedEntryStaysRemoved
<1> DEFINE Shrinks == \A i \in Ids :
            registerCM.data[i] = NoInstance => registerCM'.data[i] = NoInstance
<1>1. Init => CopiesFresh
    BY DEF Init, PodInit, CopiesFresh, CopyFresh
<1>2. WorkInv /\ CopiesFresh /\ [Next]_vars => CopiesFresh'
    BY CopiesFreshNext
<1>3. ASSUME WorkInv, CopiesFresh, [Next]_vars PROVE Shrinks
    <2>1. TypeOK /\ registerCM.data \in [Ids -> Instance \cup {NoInstance}]
        BY <1>3 DEF WorkInv, TypeOK, ConfigMap
    <2>2. ASSUME NEW w \in Workers, Handling(w) PROVE Shrinks
        BY <1>3, <2>1, <2>2, CMStep DEF Without
    <2>3. CASE ~\E w \in Workers : Handling(w)
        BY <1>3, <2>3, OuterFrame DEF storeVars
    <2> QED BY <2>2, <2>3
<1>4. WorkInv /\ CopiesFresh /\ [Next]_vars => [Shrinks]_vars
    BY <1>3
<1> HIDE DEF Shrinks
<1>5. Spec => [][Shrinks]_vars
    BY <1>1, <1>2, <1>4, WorkInvariant, PTL DEF Spec
<1> QED BY <1>5 DEF Shrinks, RemovedEntryStaysRemoved

-----------------------------------------------------------------------------
(* Where no two pods share an id, a registered pod has its own instance.   *)
DistinctIds == \A p, q \in Pods : p # q => IdsOf[p] \cap IdsOf[q] = {}

(* The ids in the cache, in the keys and in the workers' hands are those   *)
(* of the pod they stand for.                                              *)
OwnIdsOnly ==
    /\ \A p \in Pods :
        /\ pods[p].state = "ready" => pods[p].id \in IdsOf[p]
        /\ namespaceStore[p] # NoId => namespaceStore[p] \in IdsOf[p]
    /\ \A w \in Workers : pc[w] \in UsesId => insId[w] \in IdsOf[item[w]]

(* The instance is there, unless a worker is between storing the key and   *)
(* storing the instance.                                                   *)
Served ==
    \A p \in Pods :
        \/ namespaceStore[p] = NoId
        \/ \E w \in Workers : item[w] = p /\ pc[w] = "storeInstance"
        \/ instanceStore[namespaceStore[p]] = PodInstance(p)

(* What a step inside syncHandler does to the id its worker uses.          *)
LEMMA IdStep ==
    ASSUME TypeOK, KeysKnown, OwnIdsOnly, NEW w \in Workers, Handling(w)
    PROVE  /\ pc'[w] \in UsesId => insId'[w] \in IdsOf[item[w]]
           /\ namespaceStore'[item[w]] # NoId =>
                    namespaceStore'[item[w]] \in IdsOf[item[w]]
<1> USE DEF TypeOK, RepoTypeOK, NamespaceKeys, At, Goto, UsesId, storeVars,
            repoVars, localVars, OwnIdsOnly
<1>0. item[w] \in Pods
    BY HandlingFrame
<1>1. CASE SyncHandler(w)
    <2>1. UNCHANGED namespaceStore
        BY <1>1 DEF SyncHandler
    <2>2. CASE Verdict(item[w]) = "register"
        <3>1. insId'[w] = pods[item[w]].id /\ pods[item[w]].state = "ready"
            BY <1>0, <1>1, <2>2 DEF SyncHandler, Verdict
        <3> QED BY <1>0, <2>1, <3>1
    <2>3. CASE Verdict(item[w]) # "register"
        <3>1. pc'[w] \in {"done", "delete"}
            BY <1>0, <1>1, <2>3 DEF SyncHandler, Verdict
        <3> QED BY <1>0, <2>1, <3>1
    <2> QED BY <2>2, <2>3
<1>2. CASE RegisterStoreKey(w)
    BY <1>0, <1>2 DEF RegisterStoreKey, StoreKey
<1>3. CASE DeleteLoadKey(w)
    <2>1. UNCHANGED namespaceStore /\ insId'[w] = namespaceStore[item[w]]
        BY <1>3 DEF DeleteLoadKey
    <2>2. pc'[w] \in UsesId => insId'[w] # NoId
        BY <1>3 DEF DeleteLoadKey
    <2> QED BY <1>0, <2>1, <2>2
<1>4. CASE DeleteDropKey(w)
    BY <1>0, <1>4 DEF DeleteDropKey, DropKey
<1>5. CASE RegisterLoadKey(w) \/ RegisterStoreInstance(w) \/ DeleteDropCustom(w)
            \/ DeleteLoadInstance(w)
    BY <1>0, <1>5 DEF RegisterLoadKey, RegisterStoreInstance, DeleteDropCustom,
        DeleteLoadInstance
<1>6. CASE DeleteDropInstance(w) \/ DeleteGetCM(w) \/ DeleteUpdateCM(w)
            \/ DeleteMarkDown(w)
    BY <1>0, <1>6 DEF DeleteDropInstance, DeleteGetCM, DeleteUpdateCM,
        DeleteMarkDown
<1> QED BY <1>1, <1>2, <1>3, <1>4, <1>5, <1>6 DEF Handling

(* The states of pods a step leaves in the cache have ids of their own.    *)
LEMMA CacheIds ==
    ASSUME TypeOK, OwnIdsOnly, [Next]_vars, NEW p \in Pods
    PROVE  pods'[p].state = "ready" => pods'[p].id \in IdsOf[p]
<1>1. CASE UNCHANGED pods
    BY <1>1 DEF OwnIdsOnly
<1>2. ASSUME NEW q \in Pods, CacheStep(q)
      PROVE  pods'[p].state = "ready" => pods'[p].id \in IdsOf[p]
    <2>1. PICK pod \in Present(q) \cup {Absent} : pods' = [pods EXCEPT ![q] = pod]
        BY <1>2, CacheFrame
    <2>2. pod.state = "ready" => pod.id \in IdsOf[q]
        BY DEF Present, Absent, Unready, Ready
    <2> QED BY <2>1, <2>2 DEF OwnIdsOnly, TypeOK
<1>3. CASE \E q \in Pods : AddReady(q)
    BY <1>1, <1>3 DEF AddReady
<1>4. CASE ShutDown \/ \E w \in Workers : Get(w) \/ Exit(w) \/ Done(w)
    BY <1>1, <1>4 DEF ShutDown, Get, Exit, Done, clusterVars
<1>5. CASE \E w \in Workers : Handling(w)
    BY <1>1, <1>5, HandlingFrame DEF clusterVars
<1>6. CASE UNCHANGED vars
    BY <1>1, <1>6 DEF vars, clusterVars
<1> QED BY <1>2, <1>3, <1>4, <1>5, <1>6, NextCases

(* Every step keeps the invariant behind RegisteredIsServed.               *)
LEMMA OwnIdsNext ==
    ASSUME WorkInv, KeysKnown, OwnIdsOnly, [Next]_vars
    PROVE  OwnIdsOnly'
<1>0. TypeOK /\ Holding
    BY DEF WorkInv
<1>1. ASSUME NEW w \in Workers, Handling(w) PROVE OwnIdsOnly'
    <2>1. /\ UNCHANGED item /\ item[w] \in Pods
          /\ \A v \in Workers \ {w} : pc'[v] = pc[v] /\ insId'[v] = insId[v]
          /\ \A p \in Pods \ {item[w]} : namespaceStore'[p] = namespaceStore[p]
        BY <1>0, <1>1, HandlingFrame, KeyFrame
    <2> QED BY <1>0, <1>1, <2>1, IdStep, CacheIds DEF OwnIdsOnly
<1>2. CASE ~\E w \in Workers : Handling(w)
    <2>1. /\ UNCHANGED namespaceStore
          /\ \A v \in Workers :
                \/ UNCHANGED <<pc[v], item[v], insId[v]>>
                \/ pc'[v] \notin UsesId
        BY <1>2, OuterFrame DEF storeVars, UsesId
    <2> QED BY <1>0, <2>1, CacheIds DEF OwnIdsOnly
<1> QED BY <1>1, <1>2

(* A step inside syncHandler keeps the instances of registered pods.       *)
LEMMA ServedStep ==
    ASSUME DistinctIds, TypeOK, Holding, KeysKnown, OwnIdsOnly, Served,
           NEW w \in Workers, Handling(w)
    PROVE  Served'
<1> DEFINE k == item[w]
<1>0. /\ k \in Pods /\ UNCHANGED item
      /\ \A v \in Workers \ {w} : pc'[v] = pc[v]
      /\ \A p \in Pods \ {k} : namespaceStore'[p] = namespaceStore[p]
    BY HandlingFrame, KeyFrame
<1> DEFINE Fine(p) ==
        \/ namespaceStore[p] = NoId
        \/ \E v \in Workers : item[v] = p /\ pc[v] = "storeInstance"
        \/ instanceStore[namespaceStore[p]] = PodInstance(p)
<1>1. ASSUME pc[w] \in UsesId, \A i \in Ids \ {insId[w]} : instanceStore'[i] = instanceStore[i]
      PROVE  \A p \in Pods \ {k} : Fine(p)'
    <2> SUFFICES ASSUME NEW p \in Pods \ {k}, namespaceStore[p] # NoId
                 PROVE  Fine(p)'
        BY <1>0
    <2>1. insId[w] \in IdsOf[k] /\ namespaceStore[p] \in IdsOf[p]
        BY <1>1 DEF OwnIdsOnly
    <2>2. namespaceStore[p] \in Ids \ {insId[w]}
        BY <1>0, <2>1 DEF DistinctIds
    <2>3. CASE instanceStore[namespaceStore[p]] = PodInstance(p)
        BY <1>0, <1>1, <2>2, <2>3 DEF PodInstance
    <2>4. CASE \E v \in Workers : item[v] = p /\ pc[v] = "storeInstance"
        BY <1>0, <2>4
    <2> QED BY <2>3, <2>4 DEF Served
<1>2. ASSUME UNCHANGED instanceStore, NEW p \in Pods \ {k} PROVE Fine(p)'
    <2>1. CASE \E v \in Workers : item[v] = p /\ pc[v] = "storeInstance"
        BY <1>0, <2>1
    <2>2. CASE namespaceStore[p] = NoId
        BY <1>0, <2>2
    <2>3. CASE instanceStore[namespaceStore[p]] = PodInstance(p)
        BY <1>0, <1>2, <2>3 DEF PodInstance
    <2> QED BY <2>1, <2>2, <2>3 DEF Served
<1>3. ASSUME UNCHANGED <<instanceStore, namespaceStore>>, pc[w] # "storeInstance"
      PROVE  Fine(k)'
    <2>1. \A v \in Workers : item[v] = k => pc[v] # "storeInstance"
        BY <1>0, <1>3 DEF Holding, TypeOK
    <2> QED BY <1>0, <1>3, <2>1 DEF Served, PodInstance
<1> SUFFICES (\A p \in Pods \ {k} : Fine(p)') /\ Fine(k)'
    BY <1>0 DEF Served
<1> HIDE DEF Fine
<1> USE DEF TypeOK, RepoTypeOK, NamespaceKeys, At, Goto, UsesId, storeVars,
            repoVars, localVars
<1>4. CASE SyncHandler(w) \/ RegisterLoadKey(w) \/ DeleteLoadKey(w)
            \/ DeleteDropCustom(w) \/ DeleteLoadInstance(w) \/ DeleteGetCM(w)
            \/ DeleteUpdateCM(w)
    <2>1. UNCHANGED <<instanceStore, namespaceStore>> /\ pc[w] # "storeInstance"
        BY <1>4 DEF SyncHandler, RegisterLoadKey, DeleteLoadKey, DeleteDropCustom,
            DeleteLoadInstance, DeleteGetCM, DeleteUpdateCM
    <2> QED BY <1>2, <1>3, <2>1
<1>5. CASE RegisterStoreKey(w)
    <2>1. UNCHANGED instanceStore /\ pc'[w] = "storeInstance"
        BY <1>5 DEF RegisterStoreKey
    <2>2. Fine(k)'
        BY <1>0, <2>1 DEF Fine
    <2> QED BY <1>2, <2>1, <2>2
<1>6. CASE RegisterStoreInstance(w)
    <2>1. /\ pc[w] = "storeInstance" /\ UNCHANGED namespaceStore
          /\ instanceStore' = [instanceStore EXCEPT ![insId[w]] = PodInstance(k)]
        BY <1>6 DEF RegisterStoreInstance, StoreInstance
    <2>2. namespaceStore[k] = insId[w]
        BY <2>1 DEF KeysKnown, KeyKnown
    <2>3. Fine(k)'
        BY <1>0, <2>1, <2>2 DEF Fine, PodInstance
    <2> QED BY <1>1, <2>1, <2>3
<1>7. CASE DeleteDropKey(w)
    <2>1. UNCHANGED instanceStore /\ namespaceStore'[k] = NoId
        BY <1>0, <1>7 DEF DeleteDropKey, DropKey
    <2>2. Fine(k)'
        BY <1>0, <2>1 DEF Fine
    <2> QED BY <1>2, <2>1, <2>2
<1>8. CASE DeleteDropInstance(w) \/ DeleteMarkDown(w)
    <2>1. /\ pc[w] \in {"dropInstance", "markDown"} /\ UNCHANGED namespaceStore
          /\ \A i \in Ids \ {insId[w]} : instanceStore'[i] = instanceStore[i]
        BY <1>8 DEF DeleteDropInstance, DropInstance, DeleteMarkDown, MarkDown,
            MarkedDown
    <2>2. namespaceStore[k] = NoId
        BY <2>1 DEF KeysKnown, KeyKnown
    <2>3. Fine(k)'
        BY <1>0, <2>1, <2>2 DEF Fine
    <2> QED BY <1>1, <2>1, <2>3
<1> QED BY <1>4, <1>5, <1>6, <1>7, <1>8 DEF Handling

(* Where no two pods share an id, a pod that is registered and in no       *)
(* worker's hands has its own instance in the registry.                    *)
THEOREM RegisteredPodsAreServed ==
    ASSUME DistinctIds
    PROVE  Spec => []RegisteredIsServed
<1> DEFINE Inv == OwnIdsOnly /\ Served
<1>1. Init => Inv
    <2> SUFFICES ASSUME Init PROVE Inv
        OBVIOUS
    <2>1. \A p \in Pods : namespaceStore[p] = NoId
        <3> SUFFICES ASSUME NEW p \in Pods PROVE namespaceStore[p] = NoId
            OBVIOUS
        <3>1. p \in NamespaceKeys /\ ~\E i \in Ids : p = CustomKey(i)
            BY DEF NamespaceKeys
        <3> QED BY <3>1 DEF Init
    <2>2. OwnIdsOnly
        BY <2>1 DEF Init, PodInit, OwnIdsOnly, Absent, UsesId
    <2> QED BY <2>1, <2>2 DEF Served
<1>2. ASSUME WorkInv, KeysKnown, Inv, [Next]_vars PROVE Inv'
    <2>1. OwnIdsOnly'
        BY <1>2, OwnIdsNext
    <2>2. CASE \E w \in Workers : Handling(w)
        BY <1>2, <2>1, <2>2, ServedStep DEF WorkInv
    <2>3. CASE ~\E w \in Workers : Handling(w)
        <3>1. /\ UNCHANGED <<namespaceStore, instanceStore>>
              /\ \A v \in Workers :
                    pc[v] = "storeInstance" => UNCHANGED <<pc[v], item[v]>>
            BY <1>2, <2>3, OuterFrame DEF storeVars
        <3>2. ASSUME NEW p \in Pods, NEW v \in Workers,
                     item[v] = p, pc[v] = "storeInstance"
              PROVE  item'[v] = p /\ pc'[v] = "storeInstance"
            BY <3>1, <3>2
        <3>3. Served'
            BY <1>2, <3>1, <3>2 DEF Served, PodInstance
        <3> QED BY <2>1, <3>3
    <2> QED BY <2>2, <2>3
<1>3. WorkInv /\ KeysKnown /\ Inv /\ [Next]_vars => Inv'
    BY <1>2
<1>4. WorkInv /\ Inv => RegisteredIsServed
    BY DEF WorkInv, Holding, Served, RegisteredIsServed, TypeOK
<1> HIDE DEF Inv
<1> QED BY <1>1, <1>3, <1>4, KeysInvariant, PTL DEF Spec
=============================================================================
