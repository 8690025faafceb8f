---------------------------- MODULE EurekaService ----------------------------
(***************************************************************************)
(* What happens to the registry and its config map besides the pod         *)
(* monitor: the HTTP handlers that register, delete and amend instances    *)
(* (pkg/api/service/eureka_server_service.go), the start-up that restores  *)
(* instances from the config map, the reads that copy custom instances     *)
(* into the registry (pkg/api/repository/pod.go), and the config map       *)
(* monitor's updateInstance (pkg/k8s/config_map.go).                       *)
(*                                                                         *)
(* A step that makes a new structure takes its number n as a parameter.    *)
(***************************************************************************)
EXTENDS RegisterConfigMap

CONSTANTS
    Handlers,   \* goroutines that serve requests
    Boot,       \* the goroutine that runs InitCustomAppFromConfigMap
    Readers     \* goroutines that read the registry

ASSUME ServiceAssumption == Boot \notin Handlers

Threads == Handlers \cup {Boot}

VARIABLES
    step,       \* where each thread is
    reqId,      \* the id it works on
    reqIns,     \* the instance it is about to store
    reqCopy,    \* its copy of the config map
    boot,       \* InitCustomAppFromConfigMap's own copy of the config map,
                \* the entries it has to visit and those to remove
    reading,    \* the custom instance each reader is about to copy
    update,     \* updateInstance: where it is, its copy of the config map,
                \* the ids it has yet to look at, to drop and to store
    cmAnnounced \* the config map's key is due to be handled

threadVars == <<step, reqId, reqIns, reqCopy>>
serviceVars == <<threadVars, boot, reading, update, cmAnnounced>>

NotReading == [id |-> NoId, ins |-> NoInstance]
EmptyCopy == [version |-> 0, data |-> NoEntries]
UpdateIdle == [pc |-> "idle", copy |-> EmptyCopy, look |-> {}, remove |-> {}, store |-> {}]

ServiceInit ==
    /\ step = [t \in Threads |-> IF t = Boot THEN "initGetCM" ELSE "idle"]
    /\ reqId = [t \in Threads |-> NoId]
    /\ reqIns = [t \in Threads |-> NoInstance]
    /\ reqCopy = [t \in Threads |-> EmptyCopy]
    /\ boot = [copy |-> EmptyCopy, todo |-> {}, remove |-> {}]
    /\ reading = [r \in Readers |-> NotReading]
    /\ update = UpdateIdle
    /\ cmAnnounced = TRUE

(* An instance as its JSON text, and back: the structure is a new one.     *)
Entry(ins) == [ins EXCEPT !.object = 0]
Parsed(entry, n) == [entry EXCEPT !.object = n]

InStep(t, label) == step[t] = label
StepTo(t, label) == step' = [step EXCEPT ![t] = label]

(* Where a thread goes when StoreCustomApp returns or its request ends;    *)
(* the handler's locals are gone.                                          *)
End(t) ==
    /\ StepTo(t, IF t = Boot THEN "initNext" ELSE "idle")
    /\ reqId' = [reqId EXCEPT ![t] = NoId]
    /\ reqIns' = [reqIns EXCEPT ![t] = NoInstance]
    /\ reqCopy' = [reqCopy EXCEPT ![t] = EmptyCopy]

restVars == <<boot, reading, update>>

(* The server listens once start-up is over.                               *)
Listening == step[Boot] = "idle"

Begin(t, label, i, ins) ==
    /\ Listening /\ InStep(t, "idle")
    /\ StepTo(t, label)
    /\ reqId' = [reqId EXCEPT ![t] = i]
    /\ reqIns' = [reqIns EXCEPT ![t] = ins]
    /\ UNCHANGED <<storeVars, reqCopy, restVars>>

(* A Get of the config map, and where an error leads.                      *)
GetCM(t, label) ==
    \/ /\ reqCopy' = [reqCopy EXCEPT ![t] = registerCM]
       /\ StepTo(t, label)
       /\ UNCHANGED <<reqId, reqIns>>
    \/ ApiErrors /\ End(t)

-----------------------------------------------------------------------------
(* Register and StoreCustomApp.                                            *)
Register(t, i, payload, n) ==
    Begin(t, "loadInstance", i,
          [object |-> n, podSelfLink |-> NoPod, status |-> payload.status,
           metadata |-> payload.metadata])

(* Faulty variant: the structure found is amended in place, not a copy.    *)
AmendedInPlace(ins, request) ==
    [ins EXCEPT !.status = request.status,
                !.metadata = IF request.metadata = "amended" THEN "amended" ELSE @]

(* A copy of the instance with the request's metadata and status.  It      *)
(* takes the number of the request's own structure, which is not stored.   *)
Amended(ins, request) ==
    [ins EXCEPT !.object = request.object, !.status = request.status,
                !.metadata = IF request.metadata = "amended" THEN "amended" ELSE @]

StoreLoadInstance(t) ==
    LET ins == instanceStore[reqId[t]] IN
    /\ InStep(t, "loadInstance")
    /\ \/ /\ ins = NoInstance
          /\ StepTo(t, "loadCustom")
          /\ UNCHANGED reqIns
       \/ /\ ins # NoInstance
          /\ reqIns' = [reqIns EXCEPT ![t] = Amended(ins, @)]
          /\ StepTo(t, "storeCustom")
    /\ UNCHANGED <<storeVars, reqId, reqCopy, restVars>>

(* Of an instance registered before only the time stamp is kept.           *)
StoreLoadCustom(t) ==
    /\ InStep(t, "loadCustom")
    /\ StepTo(t, IF customInstanceStore[reqId[t]] = NoInstance
             THEN "storeKey" ELSE "storeCustom")
    /\ UNCHANGED <<storeVars, reqId, reqIns, reqCopy, restVars>>

StoreCustomKey(t) ==
    /\ InStep(t, "storeKey")
    /\ StoreKey(CustomKey(reqId[t]), reqId[t])
    /\ StepTo(t, "storeCustom")
    /\ UNCHANGED <<instanceStore, customInstanceStore, registerCM,
                   reqId, reqIns, reqCopy, restVars>>

StoreCustom(i, ins) ==
    customInstanceStore' = [customInstanceStore EXCEPT ![i] = ins]

StoreCustomInstance(t) ==
    /\ InStep(t, "storeCustom")
    /\ StoreCustom(reqId[t], reqIns[t])
    /\ StepTo(t, "getCM")
    /\ UNCHANGED <<namespaceStore, instanceStore, registerCM,
                   reqId, reqIns, reqCopy, restVars>>

(* StorageCustomAppToConfigMap                                             *)
StorageGetCM(t) ==
    /\ InStep(t, "getCM")
    /\ GetCM(t, "putCM")
    /\ UNCHANGED <<storeVars, restVars>>

(* Faulty variant: the config map is not sent with its resource version.   *)
StoragePutCMUnversioned(t) ==
    /\ InStep(t, "putCM")
    /\ TouchCM([reqCopy[t].data EXCEPT ![reqId[t]] = Entry(reqIns[t])])
    /\ End(t)
    /\ UNCHANGED <<repoVars, restVars>>

StoragePutCM(t) ==
    LET data == [reqCopy[t].data EXCEPT ![reqId[t]] = Entry(reqIns[t])] IN
    /\ InStep(t, "putCM")
    /\ \/ Current(reqCopy[t]) /\ (WriteCM(data) \/ TouchCM(data))
       \/ Refused(reqCopy[t]) /\ UNCHANGED registerCM
    /\ End(t)
    /\ UNCHANGED <<repoVars, restVars>>

RegisterStep(t) ==
    \/ StoreLoadInstance(t) \/ StoreLoadCustom(t) \/ StoreCustomKey(t)
    \/ StoreCustomInstance(t) \/ StorageGetCM(t) \/ StoragePutCM(t)

-----------------------------------------------------------------------------
(* Delete: the config map first, then DeleteInstance of the key custom/id. *)
Delete(t, i) == Begin(t, "delGetCM", i, NoInstance)

DelGetCM(t) ==
    /\ InStep(t, "delGetCM")
    /\ GetCM(t, "delPutCM")
    /\ UNCHANGED <<storeVars, restVars>>

(* An Update that is answered with an error may have been carried out.     *)
DelPutCM(t) ==
    /\ InStep(t, "delPutCM")
    /\ \/ /\ Current(reqCopy[t])
          /\ WriteCM(Without(reqCopy[t].data, reqId[t]))
          /\ \/ StepTo(t, "delLoadKey") /\ UNCHANGED <<reqId, reqIns, reqCopy>>
             \/ ApiErrors /\ End(t)
       \/ Refused(reqCopy[t]) /\ End(t) /\ UNCHANGED registerCM
    /\ UNCHANGED <<repoVars, restVars>>

DelLoadKey(t) ==
    /\ InStep(t, "delLoadKey")
    /\ IF namespaceStore[CustomKey(reqId[t])] = NoId THEN End(t)
       ELSE StepTo(t, "delDropCustom") /\ UNCHANGED <<reqId, reqIns, reqCopy>>
    /\ UNCHANGED <<storeVars, restVars>>

DelDropCustom(t) ==
    /\ InStep(t, "delDropCustom")
    /\ DropCustom(reqId[t])
    /\ StepTo(t, "delDropKey")
    /\ UNCHANGED <<namespaceStore, instanceStore, registerCM,
                   reqId, reqIns, reqCopy, restVars>>

DelDropKey(t) ==
    /\ InStep(t, "delDropKey")
    /\ DropKey(CustomKey(reqId[t]))
    /\ StepTo(t, "delLoadInstance")
    /\ UNCHANGED <<instanceStore, customInstanceStore, registerCM,
                   reqId, reqIns, reqCopy, restVars>>

DelLoadInstance(t) ==
    /\ InStep(t, "delLoadInstance")
    /\ IF instanceStore[reqId[t]] = NoInstance THEN End(t)
       ELSE StepTo(t, "delDropInstance") /\ UNCHANGED <<reqId, reqIns, reqCopy>>
    /\ UNCHANGED <<storeVars, restVars>>

DelDropInstance(t) ==
    /\ InStep(t, "delDropInstance")
    /\ DropInstance(reqId[t])
    /\ End(t)
    /\ UNCHANGED <<namespaceStore, customInstanceStore, registerCM, restVars>>

DeleteStep(t) ==
    \/ DelGetCM(t) \/ DelPutCM(t) \/ DelLoadKey(t) \/ DelDropCustom(t)
    \/ DelDropKey(t) \/ DelLoadInstance(t) \/ DelDropInstance(t)

-----------------------------------------------------------------------------
(* UpdateMateData of one instance.  Its structure, if it makes one, has    *)
(* the number of the request's.                                            *)
UpdateMateData(t, i, n) ==
    Begin(t, "metaGetCM", i,
          [object |-> n, podSelfLink |-> NoPod, status |-> "UP",
           metadata |-> "amended"])

MetaGetCM(t) ==
    /\ InStep(t, "metaGetCM")
    /\ GetCM(t, "metaLoadCustom")
    /\ UNCHANGED <<storeVars, restVars>>

(* The copy is edited to hold ins under the request's id.  A config map    *)
(* without entries has no map to write to: the handler panics there.       *)
EditCopy(t, ins) ==
    IF reqCopy[t].data = NoEntries THEN End(t)
    ELSE /\ reqCopy' = [reqCopy EXCEPT ![t].data[reqId[t]] = Entry(ins)]
         /\ StepTo(t, "metaPutCM")
         /\ UNCHANGED <<reqId, reqIns>>

(* An instance found among the custom ones is changed in the config map    *)
(* alone.                                                                  *)
MetaLoadCustom(t) ==
    LET ins == customInstanceStore[reqId[t]] IN
    /\ InStep(t, "metaLoadCustom")
    /\ \/ /\ ins # NoInstance
          /\ EditCopy(t, [ins EXCEPT !.metadata = "amended"])
       \/ /\ ins = NoInstance
          /\ StepTo(t, "metaLoadInstance")
          /\ UNCHANGED <<reqId, reqIns, reqCopy>>
    /\ UNCHANGED <<storeVars, restVars>>

MetaLoadInstance(t) ==
    LET ins == instanceStore[reqId[t]] IN
    /\ InStep(t, "metaLoadInstance")
    /\ \/ /\ ins # NoInstance
          /\ reqIns' = [reqIns EXCEPT ![t] =
                  [ins EXCEPT !.object = reqIns[t].object, !.metadata = "amended"]]
          /\ StepTo(t, "metaStoreCustom")
       \/ /\ ins = NoInstance
          /\ StepTo(t, "metaPutCM")
          /\ UNCHANGED reqIns
    /\ UNCHANGED <<storeVars, reqId, reqCopy, restVars>>

MetaStoreCustom(t) ==
    /\ InStep(t, "metaStoreCustom")
    /\ StoreCustom(reqId[t], reqIns[t])
    /\ EditCopy(t, reqIns[t])
    /\ UNCHANGED <<namespaceStore, instanceStore, registerCM, restVars>>

(* The outcome of the Update is not looked at.                             *)
MetaPutCM(t) ==
    /\ InStep(t, "metaPutCM")
    /\ \/ Current(reqCopy[t]) /\ WriteCM(reqCopy[t].data)
       \/ Refused(reqCopy[t]) /\ UNCHANGED registerCM
    /\ End(t)
    /\ UNCHANGED <<repoVars, restVars>>

MetaStep(t) ==
    \/ MetaGetCM(t) \/ MetaLoadCustom(t) \/ MetaLoadInstance(t)
    \/ MetaStoreCustom(t) \/ MetaPutCM(t)

-----------------------------------------------------------------------------
(* InitCustomAppFromConfigMap                                              *)
InitGetCM ==
    /\ InStep(Boot, "initGetCM")
    /\ \/ /\ boot' = [copy |-> registerCM, remove |-> {},
                      todo |-> {i \in Ids : registerCM.data[i] # NoInstance}]
          /\ StepTo(Boot, "initNext")
       \/ /\ ApiErrors
          /\ StepTo(Boot, "idle")
          /\ UNCHANGED boot
    /\ UNCHANGED <<storeVars, reqId, reqIns, reqCopy, reading, update>>

(* The loop over the entries, in any order.  The first entry of a pod that *)
(* is found not to exist is to be removed, and ends the loop.              *)
InitStore(i, n) ==
    LET entry == boot.copy.data[i] IN
    /\ boot' = [boot EXCEPT !.todo = @ \ {i}]
    /\ StepTo(Boot, "loadInstance")
    /\ reqId' = [reqId EXCEPT ![Boot] = i]
    /\ reqIns' = [reqIns EXCEPT ![Boot] = Parsed(entry, n)]
    /\ UNCHANGED reqCopy

InitNext(i, existing, n) ==
    LET pod == boot.copy.data[i].podSelfLink
        gone == pod # NoPod /\ pod \notin existing IN
    /\ InStep(Boot, "initNext")
    /\ i \in boot.todo
    /\ \/ /\ gone
          /\ boot' = [boot EXCEPT !.todo = {}, !.remove = {i}]
          /\ UNCHANGED threadVars
       \/ (gone => ApiErrors) /\ InitStore(i, n)
    /\ UNCHANGED <<storeVars, reading, update>>

(* The copy is the one read at the start.                                  *)
InitPutCM ==
    /\ InStep(Boot, "initNext")
    /\ boot.todo = {}
    /\ \/ /\ Current(boot.copy)
          /\ WriteCM([i \in Ids |-> IF i \in boot.remove THEN NoInstance
                                    ELSE boot.copy.data[i]])
       \/ Refused(boot.copy) /\ UNCHANGED registerCM
    /\ StepTo(Boot, "idle")
    /\ boot' = [copy |-> EmptyCopy, todo |-> {}, remove |-> {}]
    /\ UNCHANGED <<repoVars, reqId, reqIns, reqCopy, reading, update>>

-----------------------------------------------------------------------------
(* GetApplicationResources, GetInstancesByService and                      *)
(* GetInstanceIpsByService copy each custom instance into the registry     *)
(* before they range over it.                                              *)
ReadLoad(r, i) ==
    /\ reading[r] = NotReading
    /\ customInstanceStore[i] # NoInstance
    /\ reading' = [reading EXCEPT ![r] = [id |-> i, ins |-> customInstanceStore[i]]]
    /\ UNCHANGED <<storeVars, threadVars, boot, update>>

ReadStore(r) ==
    /\ reading[r] # NotReading
    /\ StoreInstance(reading[r].id, reading[r].ins)
    /\ reading' = [reading EXCEPT ![r] = NotReading]
    /\ UNCHANGED <<namespaceStore, customInstanceStore, registerCM,
                   threadVars, boot, update>>

-----------------------------------------------------------------------------
(* updateInstance.  The work queue keeps two workers off the key and keeps *)
(* what is announced while one of them is at it.                           *)
UpdateStart ==
    /\ update.pc = "idle"
    /\ cmAnnounced
    /\ cmAnnounced' = FALSE
    /\ update' = [update EXCEPT !.pc = "getCM"]
    /\ UNCHANGED <<storeVars, threadVars, boot, reading>>

UpdateGetCM ==
    /\ update.pc = "getCM"
    /\ \/ update' = [update EXCEPT !.pc = "range", !.copy = registerCM,
                                       !.look = Ids]
       \/ ApiErrors /\ update' = UpdateIdle
    /\ UNCHANGED <<storeVars, threadVars, boot, reading>>

(* Range takes each id of the store by itself, in any order, as it is at   *)
(* that moment; then what the copy holds is due.                           *)
UpdateRange(i) ==
    LET entries == update.copy.data
        look == update.look \ {i} IN
    /\ update.pc = "range"
    /\ i \in update.look
    /\ update' = [update EXCEPT
            !.look = look,
            !.pc = IF look = {} THEN "apply" ELSE @,
            !.remove = @ \cup {j \in {i} : customInstanceStore[j] # NoInstance
                                          /\ entries[j] = NoInstance},
            !.store = {j \in Ids : look = {} /\ entries[j] # NoInstance}]
    /\ UNCHANGED <<storeVars, threadVars, boot, reading>>

UpdateRemove(i) ==
    /\ update.pc = "apply"
    /\ i \in update.remove
    /\ DropCustom(i)
    /\ update' = [update EXCEPT !.remove = @ \ {i}]
    /\ UNCHANGED <<namespaceStore, instanceStore, registerCM,
                   threadVars, boot, reading>>

UpdateStore(i, n) ==
    /\ update.remove = {}
    /\ i \in update.store
    /\ StoreCustom(i, Parsed(update.copy.data[i], n))
    /\ update' = [update EXCEPT !.store = @ \ {i}]
    /\ UNCHANGED <<namespaceStore, instanceStore, registerCM,
                   threadVars, boot, reading>>

UpdateEnd ==
    /\ update.pc = "apply"
    /\ update.remove = {} /\ update.store = {}
    /\ update' = UpdateIdle
    /\ UNCHANGED <<storeVars, threadVars, boot, reading>>

=============================================================================
