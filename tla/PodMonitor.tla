----------------------------- MODULE PodMonitor -----------------------------
(***************************************************************************)
(* The pod monitor (pkg/k8s/pod.go): informer events announce the keys of  *)
(* pods that changed, and workers bring the registry in line with what     *)
(* the informer's cache holds for a key when they handle it.               *)
(***************************************************************************)
EXTENDS RegisterConfigMap, WorkQueue, FiniteSets

CONSTANTS
    Monitored,      \* the pods in the namespaces the server registers
    Workers,
    IdsOf,          \* the ids a pod of this name can have: shared between
                    \* pods when an address is reused, several for one pod
                    \* when it is recreated under its name
    Missed,         \* the pods whose deletions the watch can miss
    MaxPodChanges   \* bound on the changes to pods

ASSUME MonitorAssumption ==
    /\ Monitored \subseteq Pods
    /\ IdsOf \in [Pods -> SUBSET Ids]
    /\ Workers # {}
    /\ Missed \subseteq Pods
    /\ MaxPodChanges \in Nat

VARIABLES
    pods,       \* the informer's cache, by key
    waiting,    \* keys on their way to the queue: the handler's call is
                \* due, or the rate limiter holds the key back
    workQueue,
    pc,         \* where each worker is in processNextWorkItem
    item,       \* the key it holds
    insId,      \* the instance id it works on
    loaded,     \* the instance DeleteInstance took from instanceStore
    cmCopy,     \* its copy of the config map
    changes     \* number of changes to pods so far

clusterVars == <<pods, waiting, changes>>
localVars == <<item, insId, loaded, cmCopy>>
vars == <<storeVars, clusterVars, workQueue, pc, localVars>>

(* What syncHandler tells apart in a pod: whether it has the three labels, *)
(* container statuses, and a ready and running first container.            *)
Absent == [state |-> "absent", id |-> NoId]
Unready(s) == [state |-> s, id |-> NoId]
Ready(i) == [state |-> "ready", id |-> i]

Present(p) ==
    {Unready(s) : s \in {"unlabelled", "noStatus", "notReady"}}
        \cup {Ready(i) : i \in IdsOf[p]}

PodStates == {Absent} \cup UNION {Present(p) : p \in Pods}

PodInstance(p) ==
    [object |-> 0, podSelfLink |-> p, status |-> "UP", metadata |-> "plain"]

NoCopy == [version |-> 0, data |-> NoEntries]

PodInit ==
    /\ pods = [p \in Pods |-> Absent]
    /\ waiting = {}
    /\ workQueue = EmptyQueue
    /\ pc = [w \in Workers |-> "get"]
    /\ item = [w \in Workers |-> NoPod]
    /\ insId = [w \in Workers |-> NoId]
    /\ loaded = [w \in Workers |-> NoInstance]
    /\ cmCopy = [w \in Workers |-> NoCopy]
    /\ changes = 0

(* An entry InitCustomAppFromConfigMap found in the config map; the        *)
(* monitor does not look into it.                                          *)
RestoredInstance ==
    [object |-> 1, podSelfLink |-> NoPod, status |-> "UP", metadata |-> "plain"]

Init ==
    /\ PodInit
    /\ instanceStore = NoEntries
    /\ customInstanceStore \in [Ids -> {RestoredInstance, NoInstance}]
    /\ namespaceStore = [k \in NamespaceKeys |->
            IF \E i \in Ids : k = CustomKey(i) /\ customInstanceStore[i] # NoInstance
            THEN CHOOSE i \in Ids : k = CustomKey(i) ELSE NoId]
    /\ registerCM = [version |-> 1, data |-> customInstanceStore]

-----------------------------------------------------------------------------
(* Informer events.  The cache changes, then the handler calls enqueuePod; *)
(* AddRateLimited refuses a key once the queue is shutting down.  A        *)
(* periodic resync delivers an update whose two pods have one resource     *)
(* version: it is ignored, and is not a step here.  Two pods are never     *)
(* ready at one address at a time.                                         *)
enqueuePod(p) ==
    waiting' = IF workQueue.shuttingDown THEN waiting ELSE waiting \cup {p}

CacheChange(p, pod) ==
    /\ changes < MaxPodChanges
    /\ pod.state = "ready" => \A q \in Pods \ {p} : pods[q] # pod
    /\ changes' = changes + 1
    /\ pods' = [pods EXCEPT ![p] = pod]
    /\ UNCHANGED <<storeVars, workQueue, pc, localVars>>

PodAdded(p) ==
    /\ pods[p] = Absent
    /\ \E pod \in Present(p) : CacheChange(p, pod)
    /\ enqueuePod(p)

(* An update, of the pod seen before or of a new one of the same name when *)
(* the watch restarted in between.                                         *)
PodUpdated(p) ==
    /\ pods[p] # Absent
    /\ \E pod \in Present(p) : CacheChange(p, pod)
    /\ enqueuePod(p)

(* Faulty variant: no handler for deletions.                               *)
PodDeletedUnheard(p) ==
    /\ pods[p] # Absent
    /\ CacheChange(p, Absent)
    /\ UNCHANGED waiting

PodDeleted(p) ==
    /\ pods[p] # Absent
    /\ CacheChange(p, Absent)
    /\ enqueuePod(p)

(* A deletion the watch missed reaches the handler as a tombstone, of      *)
(* which MetaNamespaceKeyFunc makes no key: nothing is enqueued.           *)
PodDeletionMissed(p) ==
    /\ p \in Missed
    /\ pods[p] # Absent
    /\ CacheChange(p, Absent)
    /\ UNCHANGED waiting

(* The delay of AddRateLimited ends.                                       *)
AddReady(p) ==
    /\ p \in waiting
    /\ waiting' = waiting \ {p}
    /\ workQueue' = QAdd(workQueue, p)
    /\ UNCHANGED <<storeVars, pods, changes, pc, localVars>>

(* StartMonitor returns.                                                   *)
ShutDown ==
    /\ ~workQueue.shuttingDown
    /\ workQueue' = QShutDown(workQueue)
    /\ UNCHANGED <<storeVars, clusterVars, pc, localVars>>

-----------------------------------------------------------------------------
At(w, label) == pc[w] = label
Goto(w, label) == pc' = [pc EXCEPT ![w] = label]

Get(w) ==
    /\ At(w, "get")
    /\ QHasItem(workQueue)
    /\ item' = [item EXCEPT ![w] = Head(workQueue.queue)]
    /\ workQueue' = QGet(workQueue)
    /\ Goto(w, "sync")
    /\ UNCHANGED <<storeVars, clusterVars, insId, loaded, cmCopy>>

(* Faulty variant: a worker leaves as soon as the queue is shutting down.  *)
ExitAtOnce(w) ==
    /\ At(w, "get")
    /\ workQueue.shuttingDown
    /\ Goto(w, "stopped")
    /\ UNCHANGED <<storeVars, clusterVars, workQueue, localVars>>

Exit(w) ==
    /\ At(w, "get")
    /\ ~QHasItem(workQueue)
    /\ workQueue.shuttingDown
    /\ Goto(w, "stopped")
    /\ UNCHANGED <<storeVars, clusterVars, workQueue, localVars>>

(* What syncHandler does about pod p.                                      *)
Verdict(p) ==
    IF p \notin Monitored \/ pods[p].state \in {"unlabelled", "noStatus"}
    THEN "ignore"
    ELSE IF pods[p].state = "ready" THEN "register" ELSE "delete"

(* syncHandler reads the cache.  Its lister fails only with NotFound, so   *)
(* the branch that returns an error to retry is never taken.               *)
SyncHandler(w) ==
    LET p == item[w] IN
    /\ At(w, "sync")
    /\ Goto(w, IF Verdict(p) = "ignore" THEN "done" ELSE Verdict(p))
    /\ insId' = [insId EXCEPT ![w] =
                    IF Verdict(p) = "register" THEN pods[p].id ELSE NoId]
    /\ UNCHANGED <<storeVars, clusterVars, workQueue, item, loaded, cmCopy>>

(* Faulty variant: Register overwrites the key.                            *)
RegisterAnyway(w) ==
    /\ At(w, "register")
    /\ Goto(w, "storeKey")
    /\ UNCHANGED <<storeVars, clusterVars, workQueue, localVars>>

(* Register: a pod whose key is present is left as it is.                  *)
RegisterLoadKey(w) ==
    /\ At(w, "register")
    /\ Goto(w, IF namespaceStore[item[w]] = NoId THEN "storeKey" ELSE "done")
    /\ UNCHANGED <<storeVars, clusterVars, workQueue, localVars>>

RegisterStoreKey(w) ==
    /\ At(w, "storeKey")
    /\ StoreKey(item[w], insId[w])
    /\ Goto(w, "storeInstance")
    /\ UNCHANGED <<instanceStore, customInstanceStore, registerCM,
                   clusterVars, workQueue, localVars>>

RegisterStoreInstance(w) ==
    /\ At(w, "storeInstance")
    /\ StoreInstance(insId[w], PodInstance(item[w]))
    /\ Goto(w, "done")
    /\ UNCHANGED <<namespaceStore, customInstanceStore, registerCM,
                   clusterVars, workQueue, localVars>>

(* Faulty variant: a key that is not there is not looked for.              *)
DeleteAnyKey(w) ==
    /\ At(w, "delete")
    /\ insId' = [insId EXCEPT ![w] = namespaceStore[item[w]]]
    /\ Goto(w, "dropCustom")
    /\ UNCHANGED <<storeVars, clusterVars, workQueue, item, loaded, cmCopy>>

(* DeleteInstance                                                          *)
DeleteLoadKey(w) ==
    /\ At(w, "delete")
    /\ insId' = [insId EXCEPT ![w] = namespaceStore[item[w]]]
    /\ Goto(w, IF insId'[w] = NoId THEN "done" ELSE "dropCustom")
    /\ UNCHANGED <<storeVars, clusterVars, workQueue, item, loaded, cmCopy>>

DeleteDropCustom(w) ==
    /\ At(w, "dropCustom")
    /\ DropCustom(insId[w])
    /\ Goto(w, "dropKey")
    /\ UNCHANGED <<namespaceStore, instanceStore, registerCM,
                   clusterVars, workQueue, localVars>>

DeleteDropKey(w) ==
    /\ At(w, "dropKey")
    /\ DropKey(item[w])
    /\ Goto(w, "loadInstance")
    /\ UNCHANGED <<instanceStore, customInstanceStore, registerCM,
                   clusterVars, workQueue, localVars>>

DeleteLoadInstance(w) ==
    /\ At(w, "loadInstance")
    /\ loaded' = [loaded EXCEPT ![w] = instanceStore[insId[w]]]
    /\ Goto(w, IF loaded'[w] = NoInstance THEN "done" ELSE "dropInstance")
    /\ UNCHANGED <<storeVars, clusterVars, workQueue, item, insId, cmCopy>>

DeleteDropInstance(w) ==
    /\ At(w, "dropInstance")
    /\ DropInstance(insId[w])
    /\ Goto(w, "getCM")
    /\ UNCHANGED <<namespaceStore, customInstanceStore, registerCM,
                   clusterVars, workQueue, localVars>>

(* DeleteInstanceFromConfigMap: an error of either call is only logged.    *)
DeleteGetCM(w) ==
    /\ At(w, "getCM")
    /\ \/ /\ cmCopy' = [cmCopy EXCEPT ![w] = registerCM]
          /\ Goto(w, "updateCM")
       \/ /\ ApiErrors
          /\ Goto(w, "markDown")
          /\ UNCHANGED cmCopy
    /\ UNCHANGED <<storeVars, clusterVars, workQueue, item, insId, loaded>>

(* Faulty variant: an Update that carries no resource version.             *)
DeleteUpdateCMUnversioned(w) ==
    /\ At(w, "updateCM")
    /\ WriteCM(Without(cmCopy[w].data, insId[w]))
    /\ Goto(w, "markDown")
    /\ UNCHANGED <<repoVars, clusterVars, workQueue, localVars>>

DeleteUpdateCM(w) ==
    /\ At(w, "updateCM")
    /\ \/ Current(cmCopy[w]) /\ WriteCM(Without(cmCopy[w].data, insId[w]))
       \/ Refused(cmCopy[w]) /\ UNCHANGED registerCM
    /\ Goto(w, "markDown")
    /\ UNCHANGED <<repoVars, clusterVars, workQueue, localVars>>

DeleteMarkDown(w) ==
    /\ At(w, "markDown")
    /\ MarkDown(insId[w], loaded[w])
    /\ Goto(w, "done")
    /\ UNCHANGED <<namespaceStore, registerCM, clusterVars, workQueue, localVars>>

(* Forget and the deferred Done; the handler's locals are gone.            *)
Done(w) ==
    /\ At(w, "done")
    /\ workQueue' = QDone(workQueue, item[w])
    /\ Goto(w, "get")
    /\ item' = [item EXCEPT ![w] = NoPod]
    /\ insId' = [insId EXCEPT ![w] = NoId]
    /\ loaded' = [loaded EXCEPT ![w] = NoInstance]
    /\ cmCopy' = [cmCopy EXCEPT ![w] = NoCopy]
    /\ UNCHANGED <<storeVars, clusterVars>>

WorkerStep(w) ==
    \/ Get(w) \/ Exit(w) \/ SyncHandler(w)
    \/ RegisterLoadKey(w) \/ RegisterStoreKey(w) \/ RegisterStoreInstance(w)
    \/ DeleteLoadKey(w) \/ DeleteDropCustom(w) \/ DeleteDropKey(w)
    \/ DeleteLoadInstance(w) \/ DeleteDropInstance(w)
    \/ DeleteGetCM(w) \/ DeleteUpdateCM(w) \/ DeleteMarkDown(w)
    \/ Done(w)

PodStep(p) ==
    \/ PodAdded(p) \/ PodUpdated(p) \/ PodDeleted(p) \/ PodDeletionMissed(p)
    \/ AddReady(p)

Next ==
    \/ \E p \in Pods : PodStep(p)
    \/ \E w \in Workers : WorkerStep(w)
    \/ ShutDown

Spec == Init /\ [][Next]_vars

(* Workers and the queue's timer run; pods change and the server stops     *)
(* when they please.                                                       *)
Fairness ==
    /\ \A w \in Workers : WF_vars(WorkerStep(w))
    /\ \A p \in Pods : WF_vars(AddReady(p))

FairSpec == Spec /\ Fairness

-----------------------------------------------------------------------------
Labels == {"get", "sync", "register", "storeKey", "storeInstance", "delete",
           "dropCustom", "dropKey", "loadInstance", "dropInstance", "getCM",
           "updateCM", "markDown", "done", "stopped"}

UsesId == {"register", "storeKey", "storeInstance", "dropCustom", "dropKey",
           "loadInstance", "dropInstance", "getCM", "updateCM", "markDown"}

(* Every variable has the type its declaration says, and a worker has the  *)
(* key and the id its next call takes.                                     *)
TypeOK ==
    /\ RepoTypeOK
    /\ registerCM \in ConfigMap
    /\ pods \in [Pods -> PodStates]
    /\ waiting \subseteq Pods
    /\ workQueue \in QueueType(Pods)
    /\ pc \in [Workers -> Labels]
    /\ item \in [Workers -> Pods \cup {NoPod}]
    /\ insId \in [Workers -> Ids \cup {NoId}]
    /\ loaded \in [Workers -> Instance \cup {NoInstance}]
    /\ cmCopy \in [Workers -> ConfigMap]
    /\ changes \in 0 .. MaxPodChanges
    /\ \A w \in Workers :
        /\ item[w] = NoPod <=> pc[w] \in {"get", "stopped"}
        /\ pc[w] \in UsesId => insId[w] \in Ids

(* The queue never loses a dirty key that no worker holds and never has it *)
(* twice, whatever Adds, Gets and Dones come between: the invariant the    *)
(* comments on the queue's fields state.                                   *)
QueueOK == QWellFormed(workQueue)

Announced == waiting \cup workQueue.dirty

(* A monitored pod whose registration is neither announced nor in hand     *)
(* agrees with the cache: a ready pod is registered, a pod that is gone or *)
(* not ready is not.  Events that arrive while a worker is between its     *)
(* read of the cache and Done, on either worker, must not be lost.         *)
(* (A pod that lost its labels or statuses keeps what it had.)             *)
Agrees(p) ==
    /\ Verdict(p) = "register" => namespaceStore[p] # NoId
    /\ Verdict(p) = "delete" => namespaceStore[p] = NoId

KeyFollowsPod ==
    ~workQueue.shuttingDown =>
        \A p \in Pods : p \notin Announced \cup workQueue.processing => Agrees(p)

(* An instance clients can see has an owner: a key maps to it, or a worker *)
(* that has dropped the key is about to drop the instance.  Otherwise      *)
(* nothing would ever remove it.                                           *)
InstanceIsOwned ==
    \A i \in Ids : instanceStore[i] # NoInstance =>
        \/ \E p \in Pods : namespaceStore[p] = i
        \/ \E w \in Workers :
            pc[w] \in {"loadInstance", "dropInstance"} /\ insId[w] = i

(* Where no two pods share an id, a pod whose key is present and in no     *)
(* worker's hands has its own instance in the registry.                    *)
RegisteredIsServed ==
    \A p \in Pods :
        namespaceStore[p] # NoId /\ p \notin workQueue.processing =>
            instanceStore[namespaceStore[p]] = PodInstance(p)

(* No worker stops with work left in the queue.                            *)
StoppedIsDrained ==
    (\A w \in Workers : pc[w] = "stopped") =>
        workQueue.dirty = {} /\ workQueue.processing = {}

(* Two workers that remove entries from the config map at once do not      *)
(* bring back what the other removed: an entry that is gone stays gone, as *)
(* the monitor only removes.                                               *)
RemovedEntryStaysRemoved ==
    [][\A i \in Ids :
        registerCM.data[i] = NoInstance => registerCM'.data[i] = NoInstance]_vars

(* The monitor hands out keys as KeyedWork promises: no two workers on one *)
(* key, no announcement lost while it is open.                             *)
Abstract ==
    INSTANCE KeyedWork WITH
        Keys <- Pods, NoKey <- NoPod,
        announced <- Announced, current <- item,
        closed <- workQueue.shuttingDown

KeyedWorkSpec == Abstract!Spec

(* As long as the server runs, an announced key is taken up by a worker.   *)
AnnouncedIsHandled ==
    \A p \in Pods :
        p \in Announced ~> (workQueue.shuttingDown \/ \E w \in Workers : item[w] = p)

(* While the server runs, a pod that stays ready is in the end registered  *)
(* for good, and one that stays gone or not ready is in the end out of the *)
(* registry for good, whatever deletions of other pods the watch misses.   *)
RegistryConverges ==
    []~workQueue.shuttingDown =>
        \A p \in Monitored :
            /\ <>[](Verdict(p) = "register") =>
                    <>[](namespaceStore[p] # NoId
                         /\ instanceStore[namespaceStore[p]] = PodInstance(p))
            /\ p \notin Missed /\ <>[](Verdict(p) = "delete") =>
                    <>[](\A i \in Ids : instanceStore[i] # PodInstance(p))

(* After a shutdown the workers drain the queue and stop.                  *)
WorkersStop ==
    workQueue.shuttingDown ~> \A w \in Workers : pc[w] = "stopped"

=============================================================================
