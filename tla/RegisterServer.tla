--------------------------- MODULE RegisterServer ---------------------------
(***************************************************************************)
(* The registration centre: the pod monitor, the HTTP service, start-up,   *)
(* readers and updateInstance on one registry and one config map, beside   *)
(* other replicas that write the config map, and crashes after which the   *)
(* server starts anew.                                                     *)
(***************************************************************************)
EXTENDS PodMonitor, EurekaService

CONSTANTS
    Requests,       \* kinds of requests clients make
    Payloads,       \* the statuses and metadata they register with
    MaxRequests,    \* bounds on requests, on writes by other replicas
    MaxForeign,     \* and on restarts
    MaxRestarts,
    StartEntries,   \* what the config map can hold at the first start
    Objects         \* numbers for structures; more than can be in use at once

ASSUME ServerAssumption ==
    /\ Requests \subseteq {"register", "delete", "metadata"}
    /\ Payloads \subseteq [status : {"UP", "DOWN"}, metadata : {"plain", "amended"}]
    /\ MaxRequests \in Nat /\ MaxForeign \in Nat /\ MaxRestarts \in Nat
    /\ StartEntries \subseteq [Ids -> Instance \cup {NoInstance}]
    /\ Objects \subseteq Nat \ {0}

VARIABLES requests, foreign, restarts   \* how many there have been

monitorVars == <<clusterVars, workQueue, pc, localVars>>
bounds == <<requests, foreign, restarts>>
serverVars == <<storeVars, monitorVars, serviceVars, bounds>>

ServerInit ==
    /\ PodInit /\ ServiceInit
    /\ namespaceStore = [k \in NamespaceKeys |-> NoId]
    /\ instanceStore = NoEntries
    /\ customInstanceStore = NoEntries
    /\ \E data \in StartEntries : registerCM = [version |-> 1, data |-> data]
    /\ requests = 0 /\ foreign = 0 /\ restarts = 0

(* A structure that nothing refers to any more is as good as a new one, so *)
(* a new one is given the least number that is not in use.                 *)
InUse ==
    {instanceStore[i].object : i \in {j \in Ids : instanceStore[j] # NoInstance}}
        \cup {customInstanceStore[i].object :
                i \in {j \in Ids : customInstanceStore[j] # NoInstance}}
        \cup {loaded[w].object : w \in {v \in Workers : loaded[v] # NoInstance}}
        \cup {reqIns[t].object : t \in {u \in Threads : reqIns[u] # NoInstance}}
        \cup {reading[r].ins.object : r \in {q \in Readers : reading[q] # NotReading}}

NewObjects == {n \in Objects \ InUse : \A m \in Objects \ InUse : n <= m}

(* Faulty variant: a change while updateInstance runs is not announced.    *)
WatchIdle ==
    cmAnnounced' = (cmAnnounced \/ (registerCM' # registerCM /\ update.pc = "idle"))

(* The informer announces a change of the config map.                      *)
Watch == cmAnnounced' = (cmAnnounced \/ registerCM' # registerCM)

-----------------------------------------------------------------------------
(* A step of the pod monitor.  The structure it marks DOWN can also be in  *)
(* a request's or a reader's hands.                                        *)
AlsoMarked(w) ==
    LET Marked(ins) == IF SameObject(loaded[w], ins)
                       THEN [ins EXCEPT !.status = "DOWN"] ELSE ins IN
    /\ reqIns' = [t \in Threads |-> Marked(reqIns[t])]
    /\ reading' = [r \in Readers |->
            [reading[r] EXCEPT !.ins = Marked(@)]]
    /\ UNCHANGED <<step, reqId, reqCopy, boot, update>>

PodTurn(p) ==
    /\ PodStep(p)
    /\ Watch
    /\ UNCHANGED <<threadVars, boot, reading, update, bounds>>

WorkerTurn(w) ==
    /\ WorkerStep(w)
    /\ IF At(w, "markDown") THEN AlsoMarked(w)
       ELSE UNCHANGED <<threadVars, boot, reading, update>>
    /\ Watch
    /\ UNCHANGED bounds

ThreadStep(t) ==
    /\ RegisterStep(t) \/ DeleteStep(t) \/ MetaStep(t)
    /\ Watch
    /\ UNCHANGED <<monitorVars, bounds>>

Existing == {p \in Pods : pods[p] # Absent}

BootStep ==
    /\ \/ InitGetCM \/ InitPutCM
       \/ \E i \in Ids, n \in NewObjects : InitNext(i, Existing, n)
    /\ Watch
    /\ UNCHANGED <<monitorVars, bounds>>

Read(r, i) ==
    /\ ReadLoad(r, i)
    /\ Watch
    /\ UNCHANGED <<monitorVars, bounds>>

ReadStep(r) ==
    /\ ReadStore(r)
    /\ Watch
    /\ UNCHANGED <<monitorVars, bounds>>

UpdateStep ==
    /\ \/ UpdateStart
       \/ /\ \/ UpdateGetCM \/ UpdateEnd
             \/ \E i \in Ids : UpdateRange(i) \/ UpdateRemove(i)
             \/ \E i \in Ids, n \in NewObjects : UpdateStore(i, n)
          /\ Watch
    /\ UNCHANGED <<monitorVars, bounds>>

(* A client's request.                                                     *)
Request(t, i) ==
    /\ requests < MaxRequests
    /\ requests' = requests + 1
    /\ \/ /\ "register" \in Requests
          /\ \E payload \in Payloads, n \in NewObjects : Register(t, i, payload, n)
       \/ "delete" \in Requests /\ Delete(t, i)
       \/ "metadata" \in Requests /\ \E n \in NewObjects : UpdateMateData(t, i, n)
    /\ Watch
    /\ UNCHANGED <<monitorVars, foreign, restarts>>

(* Another replica registers or deletes an instance.                       *)
Foreign(i) ==
    /\ foreign < MaxForeign
    /\ foreign' = foreign + 1
    /\ \E entry \in {NoInstance, Entry(RestoredInstance)} :
            WriteCM([registerCM.data EXCEPT ![i] = entry])
    /\ Watch
    /\ UNCHANGED <<repoVars, threadVars, boot, reading, update,
                   monitorVars, requests, restarts>>

(* The process ends and is started anew: its memory is empty, start-up     *)
(* begins and the informers announce what there is.                        *)
StartAnew(announced) ==
    /\ restarts < MaxRestarts
    /\ restarts' = restarts + 1
    /\ namespaceStore' = [k \in NamespaceKeys |-> NoId]
    /\ instanceStore' = NoEntries
    /\ customInstanceStore' = NoEntries
    /\ waiting' = announced
    /\ workQueue' = EmptyQueue
    /\ pc' = [w \in Workers |-> "get"]
    /\ item' = [w \in Workers |-> NoPod]
    /\ insId' = [w \in Workers |-> NoId]
    /\ loaded' = [w \in Workers |-> NoInstance]
    /\ cmCopy' = [w \in Workers |-> NoCopy]
    /\ step' = [t \in Threads |-> IF t = Boot THEN "initGetCM" ELSE "idle"]
    /\ reqId' = [t \in Threads |-> NoId]
    /\ reqIns' = [t \in Threads |-> NoInstance]
    /\ reqCopy' = [t \in Threads |-> EmptyCopy]
    /\ boot' = [copy |-> EmptyCopy, todo |-> {}, remove |-> {}]
    /\ reading' = [r \in Readers |-> NotReading]
    /\ update' = UpdateIdle
    /\ cmAnnounced' = TRUE
    /\ UNCHANGED <<registerCM, pods, changes, requests, foreign>>

(* Faulty variant: the pods there were before are not announced.           *)
RestartUnheard == StartAnew({})

Restart == StartAnew(Existing)

ServerNext ==
    \/ \E p \in Pods : PodTurn(p)
    \/ \E w \in Workers : WorkerTurn(w)
    \/ \E t \in Threads : ThreadStep(t)
    \/ BootStep
    \/ \E r \in Readers : ReadStep(r) \/ \E i \in Ids : Read(r, i)
    \/ UpdateStep
    \/ \E t \in Handlers, i \in Ids : Request(t, i)
    \/ \E i \in Ids : Foreign(i)
    \/ Restart

ServerSpec == ServerInit /\ [][ServerNext]_serverVars

(* What has begun goes on; clients, other replicas, pods and crashes come  *)
(* when they please.                                                       *)
ServerFairness ==
    /\ \A p \in Pods :
        WF_serverVars(AddReady(p) /\ PodTurn(p))
    /\ \A w \in Workers : WF_serverVars(WorkerTurn(w))
    /\ \A t \in Threads : WF_serverVars(ThreadStep(t))
    /\ WF_serverVars(BootStep)
    /\ \A r \in Readers : WF_serverVars(ReadStep(r))
    /\ WF_serverVars(UpdateStep)

FairServerSpec == ServerSpec /\ ServerFairness

-----------------------------------------------------------------------------
StepLabels ==
    {"idle", "loadInstance", "loadCustom", "storeKey", "storeCustom", "getCM",
     "putCM", "delGetCM", "delPutCM", "delLoadKey", "delDropCustom",
     "delDropKey", "delLoadInstance", "delDropInstance", "metaGetCM",
     "metaLoadCustom", "metaLoadInstance", "metaStoreCustom", "metaPutCM",
     "initGetCM", "initNext"}

(* Every variable has the type its declaration says; a structure that is   *)
(* stored has a number unless it was built from a pod.                     *)
ServerTypeOK ==
    /\ TypeOK
    /\ step \in [Threads -> StepLabels]
    /\ reqId \in [Threads -> Ids \cup {NoId}]
    /\ reqIns \in [Threads -> Instance \cup {NoInstance}]
    /\ reqCopy \in [Threads -> ConfigMap]
    /\ boot \in [copy : ConfigMap, todo : SUBSET Ids, remove : SUBSET Ids]
    /\ reading \in [Readers -> [id : Ids \cup {NoId},
                                ins : Instance \cup {NoInstance}]]
    /\ update \in [pc : {"idle", "getCM", "range", "apply"}, copy : ConfigMap,
                   look : SUBSET Ids, remove : SUBSET Ids, store : SUBSET Ids]
    /\ cmAnnounced \in BOOLEAN
    /\ requests \in 0 .. MaxRequests
    /\ foreign \in 0 .. MaxForeign
    /\ restarts \in 0 .. MaxRestarts
    /\ \A i \in Ids : customInstanceStore[i] # NoInstance =>
            customInstanceStore[i].object > 0

(* Nobody who writes the config map undoes what another wrote meanwhile:   *)
(* however requests, start-up, workers and replicas interleave, an entry   *)
(* changes only by an Update of someone at work on that entry's id, or by  *)
(* start-up removing an entry it marked.                                   *)
EntriesAreIsolated ==
    [][\A i \in Ids : registerCM'.data[i] # registerCM.data[i] =>
        \/ \E w \in Workers : At(w, "updateCM") /\ ~At(w, "updateCM")' /\ insId[w] = i
        \/ \E t \in Threads :
            /\ step[t] \in {"putCM", "delPutCM", "metaPutCM"} /\ step'[t] # step[t]
            /\ reqId[t] = i
        \/ i \in boot.remove /\ boot'.remove = {}
        \/ foreign' # foreign]_serverVars

(* When requests, writes by others and restarts are over, the custom       *)
(* instances in memory are for good those of the config map.               *)
MemorySettles ==
    <>[](\A i \in Ids :
            IF customInstanceStore[i] = NoInstance
            THEN registerCM.data[i] = NoInstance
            ELSE registerCM.data[i] = Entry(customInstanceStore[i]))

(* An instance that is gone from the config map for good, and that no pod  *)
(* has, is in the end no longer served.                                    *)
RemovedIsForgotten ==
    \A i \in Ids :
        <>[](registerCM.data[i] = NoInstance /\ \A p \in Pods : pods[p].id # i)
            => <>[](instanceStore[i] = NoInstance)

(* A pod that stays ready is in the end served under its id for good,      *)
(* whatever is registered over HTTP at its address.                        *)
ReadyPodIsServed ==
    \A p \in Monitored :
        <>[](Verdict(p) = "register") =>
            <>[](namespaceStore[p] # NoId
                 /\ instanceStore[namespaceStore[p]] # NoInstance)
=============================================================================
