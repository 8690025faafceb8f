---------------------------- MODULE ServerProofs ----------------------------
(***************************************************************************)
(* Theorems about RegisterServer, for any sets of pods, ids, workers,      *)
(* handlers and readers, any requests and any number of restarts.          *)
(***************************************************************************)
EXTENDS RegisterServer, PodMonitorProofs

USE RepositoryAssumption, InstanceAssumption, MonitorAssumption,
    ServiceAssumption, ServerAssumption

-----------------------------------------------------------------------------
(* Types.  A structure made for a request or from the config map has a     *)
(* number; a thread on its way has an id and, until it stores it, an       *)
(* instance.                                                               *)
Numbered == {ins \in Instance : ins.object > 0}

HasId == StepLabels \ {"idle", "initGetCM", "initNext"}

HasInstance ==
    {"loadInstance", "loadCustom", "storeKey", "storeCustom", "getCM", "putCM",
     "metaGetCM", "metaLoadCustom", "metaLoadInstance", "metaStoreCustom"}

ThreadsOK ==
    /\ step \in [Threads -> StepLabels]
    /\ reqId \in [Threads -> Ids \cup {NoId}]
    /\ reqIns \in [Threads -> Numbered \cup {NoInstance}]
    /\ reqCopy \in [Threads -> ConfigMap]
    /\ \A t \in Threads :
        /\ step[t] \in HasId => reqId[t] \in Ids
        /\ step[t] \in HasInstance => reqIns[t] \in Numbered

StoresOK ==
    /\ RepoTypeOK
    /\ registerCM \in ConfigMap
    /\ customInstanceStore \in [Ids -> Numbered \cup {NoInstance}]

BootOK ==
    /\ boot \in [copy : ConfigMap, todo : SUBSET Ids, remove : SUBSET Ids]
    /\ \A i \in boot.todo : boot.copy.data[i] \in Instance

ReadersOK ==
    /\ reading \in [Readers -> [id : Ids \cup {NoId}, ins : Numbered \cup {NoInstance}]]
    /\ \A r \in Readers : reading[r] # NotReading =>
            reading[r].id \in Ids /\ reading[r].ins \in Numbered

UpdateOK ==
    /\ update \in [pc : {"idle", "getCM", "range", "apply"}, copy : ConfigMap,
                   look : SUBSET Ids, remove : SUBSET Ids, store : SUBSET Ids]
    /\ update.pc # "apply" => update.store = {}
    /\ \A i \in update.store : update.copy.data[i] \in Instance

BoundsOK ==
    /\ requests \in 0 .. MaxRequests
    /\ foreign \in 0 .. MaxForeign
    /\ restarts \in 0 .. MaxRestarts

ServerInv ==
    /\ WorkInv
    /\ StoresOK /\ ThreadsOK /\ BootOK /\ ReadersOK /\ UpdateOK
    /\ cmAnnounced \in BOOLEAN
    /\ BoundsOK

(* Instances that are numbered, amended, parsed or written as entries.     *)
LEMMA NumberedFacts ==
    /\ Numbered \subseteq Instance
    /\ NoInstance \notin Numbered
    /\ \A ins \in Instance :
        /\ Entry(ins) \in Instance
        /\ \A n \in Objects : Parsed(ins, n) \in Numbered
        /\ \A request \in Numbered : Amended(ins, request) \in Numbered
        /\ \A request \in Numbered :
                [ins EXCEPT !.object = request.object, !.metadata = "amended"] \in Numbered
    /\ \A ins \in Instance : [ins EXCEPT !.metadata = "amended"] \in Instance
    /\ RestoredInstance \in Instance
<1>1. \A ins \in Instance : \A n \in Nat :
        [ins EXCEPT !.object = n] \in Instance /\ [ins EXCEPT !.object = n].object = n
    BY DEF Instance
<1>2. \A ins \in Instance : [ins EXCEPT !.metadata = "amended"] \in Instance
    BY DEF Instance
<1>3. ASSUME NEW ins \in Instance, NEW request \in Numbered
      PROVE  /\ Amended(ins, request) \in Numbered
             /\ [ins EXCEPT !.object = request.object, !.metadata = "amended"] \in Numbered
    <2>1. /\ request.object \in Nat /\ request.object > 0
          /\ request.status \in {"UP", "DOWN"}
        BY DEF Numbered, Instance
    <2>2. [ins EXCEPT !.object = request.object, !.metadata = "amended"] \in Numbered
        BY <2>1 DEF Numbered, Instance
    <2>3. CASE request.metadata = "amended"
        BY <2>1, <2>3 DEF Amended, Numbered, Instance
    <2>4. CASE request.metadata # "amended"
        BY <2>1, <2>4 DEF Amended, Numbered, Instance
    <2> QED BY <2>2, <2>3, <2>4
<1>4. RestoredInstance \in Instance
    BY InstanceFacts
<1>5. \A n \in Objects : n \in Nat /\ n > 0
    OBVIOUS
<1> QED BY <1>1, <1>2, <1>3, <1>4, <1>5 DEF Numbered, Entry, Parsed

(* A new structure's number is one of Objects.                             *)
LEMMA NewObjectsFacts == NewObjects \subseteq Objects
BY DEF NewObjects

(* Configuration maps: the empty one, and one with an entry set.           *)
LEMMA ConfigMapFacts ==
    /\ EmptyCopy \in ConfigMap
    /\ \A copy \in ConfigMap :
        /\ copy.version \in Nat
        /\ copy.data \in [Ids -> Instance \cup {NoInstance}]
    /\ \A version \in Nat, data \in [Ids -> Instance \cup {NoInstance}] :
            [version |-> version, data |-> data] \in ConfigMap
BY DEF EmptyCopy, ConfigMap, NoEntries

(* What is written to the config map is a config map, of the next version  *)
(* if anything changed.                                                    *)
LEMMA WriteFacts ==
    ASSUME registerCM \in ConfigMap,
           NEW data \in [Ids -> Instance \cup {NoInstance}],
           WriteCM(data) \/ TouchCM(data)
    PROVE  /\ registerCM' \in ConfigMap
           /\ registerCM'.data = data
           /\ registerCM' = registerCM \/ registerCM'.version = registerCM.version + 1
<1>1. registerCM.version + 1 \in Nat
    BY ConfigMapFacts
<1>2. CASE registerCM' = registerCM /\ data = registerCM.data
    BY <1>2
<1>3. CASE registerCM' = [version |-> registerCM.version + 1, data |-> data]
    BY <1>1, <1>3, ConfigMapFacts
<1> QED BY <1>2, <1>3 DEF WriteCM, TouchCM

-----------------------------------------------------------------------------
(* The threads.  A thread whose request ends is well typed.                *)
LEMMA EndOK ==
    ASSUME ThreadsOK, NEW t \in Threads, End(t)
    PROVE  ThreadsOK' /\ step'[t] \in {"idle", "initNext"}
<1>1. NoEntries \in [Ids -> Instance \cup {NoInstance}] /\ EmptyCopy \in ConfigMap
    BY InstanceFacts, ConfigMapFacts
<1> QED BY <1>1 DEF ThreadsOK, End, StepTo, StepLabels, HasId, HasInstance

(* So is one whose request begins.                                         *)
LEMMA BeginOK ==
    ASSUME ThreadsOK, StoresOK, NEW t \in Threads, NEW i \in Ids,
           NEW label \in StepLabels,
           NEW ins \in Numbered \cup {NoInstance}, Begin(t, label, i, ins),
           label \in HasInstance => ins \in Numbered
    PROVE  ThreadsOK'
BY DEF Begin, ThreadsOK, StepTo, HasId, HasInstance

(* A Get gives a copy, which is the config map, or ends the request.       *)
LEMMA GetCMOK ==
    ASSUME ThreadsOK, StoresOK, NEW t \in Threads,
           NEW label \in {"putCM", "delPutCM", "metaLoadCustom"}, GetCM(t, label),
           step[t] \in HasId,
           label \in HasInstance => step[t] \in HasInstance
    PROVE  ThreadsOK'
<1>1. CASE End(t)
    BY <1>1, EndOK
<1>2. CASE ~End(t)
    BY <1>2 DEF GetCM, ThreadsOK, StoresOK, StepTo, StepLabels, HasId, HasInstance
<1> QED BY <1>1, <1>2

(* A step of StoreCustomApp keeps the types.                               *)
LEMMA RegisterStepOK ==
    ASSUME StoresOK, ThreadsOK, NEW t \in Threads, RegisterStep(t)
    PROVE  StoresOK' /\ ThreadsOK' /\ UNCHANGED restVars
<1> USE DEF InStep, StepTo
<1>0. /\ t \in Threads /\ reqId[t] \in Ids \cup {NoId}
      /\ step[t] \in HasId => reqId[t] \in Ids
      /\ step[t] \in HasInstance => reqIns[t] \in Numbered
    BY DEF ThreadsOK
<1>1. CASE StoreLoadInstance(t)
    <2>1. reqId[t] \in Ids /\ reqIns[t] \in Numbered
        BY <1>0, <1>1 DEF StoreLoadInstance, HasId, HasInstance, StepLabels
    <2>2. instanceStore[reqId[t]] \in Instance \cup {NoInstance}
        BY <2>1 DEF StoresOK, RepoTypeOK
    <2>3. StoresOK' /\ UNCHANGED restVars
        BY <1>1 DEF StoreLoadInstance, StoresOK, RepoTypeOK, storeVars
    <2>4. ASSUME instanceStore[reqId[t]] = NoInstance PROVE ThreadsOK'
        BY <1>1, <2>1, <2>4 DEF StoreLoadInstance, ThreadsOK, HasId, HasInstance, StepLabels
    <2>5. ASSUME instanceStore[reqId[t]] # NoInstance PROVE ThreadsOK'
        <3>1. Amended(instanceStore[reqId[t]], reqIns[t]) \in Numbered
            BY <2>1, <2>2, <2>5, NumberedFacts
        <3> QED BY <1>1, <2>1, <2>5, <3>1
                DEF StoreLoadInstance, ThreadsOK, HasId, HasInstance, StepLabels
    <2> QED BY <2>3, <2>4, <2>5
<1>2. CASE StoreLoadCustom(t)
    <2>1. StoresOK' /\ UNCHANGED restVars
        BY <1>2 DEF StoreLoadCustom, StoresOK, RepoTypeOK, storeVars
    <2>2. ThreadsOK'
        BY <1>0, <1>2 DEF StoreLoadCustom, ThreadsOK, HasId, HasInstance, StepLabels
    <2> QED BY <2>1, <2>2
<1>3. CASE StoreCustomKey(t)
    <2>1. reqId[t] \in Ids
        BY <1>0, <1>3 DEF StoreCustomKey, HasId, StepLabels
    <2>2. StoresOK' /\ UNCHANGED restVars
        BY <1>3, <2>1 DEF StoreCustomKey, StoreKey, StoresOK, RepoTypeOK
    <2>3. ThreadsOK'
        BY <1>0, <1>3 DEF StoreCustomKey, ThreadsOK, HasId, HasInstance, StepLabels
    <2> QED BY <2>2, <2>3
<1>4. CASE StoreCustomInstance(t)
    <2>1. reqId[t] \in Ids /\ reqIns[t] \in Numbered
        BY <1>0, <1>4 DEF StoreCustomInstance, HasId, HasInstance, StepLabels
    <2>2. StoresOK' /\ UNCHANGED restVars
        BY <1>4, <2>1, NumberedFacts
        DEF StoreCustomInstance, StoreCustom, StoresOK, RepoTypeOK
    <2>3. ThreadsOK'
        BY <1>0, <1>4 DEF StoreCustomInstance, ThreadsOK, HasId, HasInstance, StepLabels
    <2> QED BY <2>2, <2>3
<1>5. CASE StorageGetCM(t)
    <2>1. StoresOK' /\ UNCHANGED restVars
        BY <1>5 DEF StorageGetCM, StoresOK, RepoTypeOK, storeVars
    <2>2. step[t] \in HasId /\ step[t] \in HasInstance
        BY <1>5 DEF StorageGetCM, HasId, HasInstance, StepLabels
    <2> QED BY <1>5, <2>1, <2>2, GetCMOK DEF StorageGetCM
<1>6. CASE StoragePutCM(t)
    <2> DEFINE data == [reqCopy[t].data EXCEPT ![reqId[t]] = Entry(reqIns[t])]
    <2>1. /\ reqId[t] \in Ids /\ reqIns[t] \in Numbered
          /\ reqCopy[t] \in ConfigMap
        BY <1>0, <1>6 DEF StoragePutCM, HasId, HasInstance, StepLabels, ThreadsOK
    <2>2. Entry(reqIns[t]) \in Instance
        BY <2>1, NumberedFacts
    <2>3. data \in [Ids -> Instance \cup {NoInstance}]
        BY <2>1, <2>2, ConfigMapFacts
    <2>4. /\ WriteCM(data) \/ TouchCM(data) \/ UNCHANGED registerCM
          /\ End(t) /\ UNCHANGED <<repoVars, restVars>>
        BY <1>6 DEF StoragePutCM
    <2> HIDE DEF data
    <2>5. registerCM' \in ConfigMap
        BY <2>3, <2>4, WriteFacts DEF StoresOK
    <2>6. StoresOK'
        BY <2>4, <2>5 DEF StoresOK, RepoTypeOK, repoVars
    <2> QED BY <2>4, <2>6, EndOK
<1> QED BY <1>1, <1>2, <1>3, <1>4, <1>5, <1>6 DEF RegisterStep

(* A step of Delete keeps the types.                                       *)
LEMMA DeleteStepOK ==
    ASSUME StoresOK, ThreadsOK, NEW t \in Threads, DeleteStep(t)
    PROVE  StoresOK' /\ ThreadsOK' /\ UNCHANGED restVars
<1> USE DEF InStep, StepTo
<1>0. /\ reqId[t] \in Ids \cup {NoId}
      /\ step[t] \in HasId => reqId[t] \in Ids
      /\ NoInstance \in Numbered \cup {NoInstance}
    BY DEF ThreadsOK
<1>1. CASE DelGetCM(t)
    <2>1. StoresOK' /\ UNCHANGED restVars
        BY <1>1 DEF DelGetCM, StoresOK, RepoTypeOK, storeVars
    <2>2. step[t] \in HasId /\ "delPutCM" \notin HasInstance
        BY <1>1 DEF DelGetCM, HasId, HasInstance, StepLabels
    <2> QED BY <1>1, <2>1, <2>2, GetCMOK DEF DelGetCM
<1>2. CASE DelPutCM(t)
    <2>1. reqId[t] \in Ids /\ reqCopy[t] \in ConfigMap
        BY <1>0, <1>2 DEF DelPutCM, HasId, StepLabels, ThreadsOK
    <2>2. Without(reqCopy[t].data, reqId[t]) \in [Ids -> Instance \cup {NoInstance}]
        BY <2>1, ConfigMapFacts DEF Without
    <2>3. registerCM' \in ConfigMap
        BY <1>2, <2>2, WriteFacts DEF DelPutCM, StoresOK
    <2>4. StoresOK' /\ UNCHANGED restVars
        BY <1>2, <2>3 DEF DelPutCM, StoresOK, RepoTypeOK, repoVars
    <2>5. CASE End(t)
        BY <2>4, <2>5, EndOK
    <2>6. CASE ~End(t)
        <3>1. ThreadsOK'
            BY <1>0, <1>2, <2>6 DEF DelPutCM, ThreadsOK, HasId, HasInstance, StepLabels
        <3> QED BY <2>4, <3>1
    <2> QED BY <2>5, <2>6
<1>3. CASE DelLoadKey(t) \/ DelLoadInstance(t)
    <2>1. StoresOK' /\ UNCHANGED restVars
        BY <1>3 DEF DelLoadKey, DelLoadInstance, StoresOK, RepoTypeOK, storeVars
    <2>2. CASE End(t)
        BY <2>1, <2>2, EndOK
    <2>3. CASE ~End(t)
        <3>1. ThreadsOK'
            BY <1>0, <1>3, <2>3
            DEF DelLoadKey, DelLoadInstance, ThreadsOK, HasId, HasInstance, StepLabels
        <3> QED BY <2>1, <3>1
    <2> QED BY <2>2, <2>3
<1>4. CASE DelDropCustom(t)
    <2>1. StoresOK' /\ UNCHANGED restVars
        BY <1>4 DEF DelDropCustom, DropCustom, StoresOK, RepoTypeOK
    <2>2. ThreadsOK'
        BY <1>0, <1>4 DEF DelDropCustom, ThreadsOK, HasId, HasInstance, StepLabels
    <2> QED BY <2>1, <2>2
<1>5. CASE DelDropKey(t)
    <2>1. StoresOK' /\ UNCHANGED restVars
        BY <1>5 DEF DelDropKey, DropKey, StoresOK, RepoTypeOK
    <2>2. ThreadsOK'
        BY <1>0, <1>5 DEF DelDropKey, ThreadsOK, HasId, HasInstance, StepLabels
    <2> QED BY <2>1, <2>2
<1>6. CASE DelDropInstance(t)
    <2>1. StoresOK' /\ UNCHANGED restVars
        BY <1>6 DEF DelDropInstance, DropInstance, StoresOK, RepoTypeOK
    <2> QED BY <1>6, <2>1, EndOK DEF DelDropInstance
<1> QED BY <1>1, <1>2, <1>3, <1>4, <1>5, <1>6 DEF DeleteStep

(* The copy a metadata request has edited is a config map.                 *)
LEMMA EditCopyOK ==
    ASSUME ThreadsOK, NEW t \in Threads, NEW ins \in Instance, EditCopy(t, ins),
           step[t] \in {"metaLoadCustom", "metaStoreCustom"}
    PROVE  ThreadsOK'
<1>1. CASE End(t)
    BY <1>1, EndOK
<1>2. CASE ~End(t)
    <2>1. /\ reqId[t] \in Ids /\ Entry(ins) \in Instance
          /\ reqCopy[t] \in ConfigMap
        BY NumberedFacts DEF ThreadsOK, HasId, StepLabels
    <2>2. [reqCopy[t] EXCEPT !.data[reqId[t]] = Entry(ins)] \in ConfigMap
        BY <2>1 DEF ConfigMap
    <2>3. /\ reqCopy' = [reqCopy EXCEPT ![t].data[reqId[t]] = Entry(ins)]
          /\ step' = [step EXCEPT ![t] = "metaPutCM"]
          /\ UNCHANGED <<reqId, reqIns>>
        BY <1>2 DEF EditCopy, StepTo
    <2>4. reqCopy' \in [Threads -> ConfigMap]
        BY <2>2, <2>3 DEF ThreadsOK
    <2> QED BY <2>1, <2>3, <2>4 DEF ThreadsOK, HasId, HasInstance, StepLabels
<1> QED BY <1>1, <1>2

(* A step of UpdateMateData keeps the types.                               *)
LEMMA MetaStepOK ==
    ASSUME StoresOK, ThreadsOK, NEW t \in Threads, MetaStep(t)
    PROVE  StoresOK' /\ ThreadsOK' /\ UNCHANGED restVars
<1> USE DEF InStep, StepTo
<1>0. /\ reqId[t] \in Ids \cup {NoId} /\ reqCopy[t] \in ConfigMap
      /\ step[t] \in HasId => reqId[t] \in Ids
      /\ step[t] \in HasInstance => reqIns[t] \in Numbered
    BY DEF ThreadsOK
<1>1. CASE MetaGetCM(t)
    <2>1. StoresOK' /\ UNCHANGED restVars
        BY <1>1 DEF MetaGetCM, StoresOK, RepoTypeOK, storeVars
    <2>2. step[t] \in HasId /\ step[t] \in HasInstance
        BY <1>1 DEF MetaGetCM, HasId, HasInstance, StepLabels
    <2> QED BY <1>1, <2>1, <2>2, GetCMOK DEF MetaGetCM
<1>2. CASE MetaLoadCustom(t)
    <2> DEFINE ins == customInstanceStore[reqId[t]]
    <2>1. StoresOK' /\ UNCHANGED restVars
        BY <1>2 DEF MetaLoadCustom, StoresOK, RepoTypeOK, storeVars
    <2>2. reqId[t] \in Ids /\ step[t] = "metaLoadCustom" /\ ins \in Numbered \cup {NoInstance}
        BY <1>0, <1>2 DEF MetaLoadCustom, HasId, StepLabels, StoresOK
    <2>3. CASE ins # NoInstance
        <3>1. [ins EXCEPT !.metadata = "amended"] \in Instance
            BY <2>2, <2>3, NumberedFacts
        <3>2. EditCopy(t, [ins EXCEPT !.metadata = "amended"])
            BY <1>2, <2>3 DEF MetaLoadCustom
        <3> HIDE DEF ins
        <3>3. ThreadsOK'
            BY <2>2, <3>1, <3>2, EditCopyOK
        <3> QED BY <2>1, <3>3
    <2>4. CASE ins = NoInstance
        <3>1. ThreadsOK'
            BY <1>0, <1>2, <2>2, <2>4
            DEF MetaLoadCustom, ThreadsOK, HasId, HasInstance, StepLabels
        <3> QED BY <2>1, <3>1
    <2> QED BY <2>3, <2>4
<1>3. CASE MetaLoadInstance(t)
    <2> DEFINE ins == instanceStore[reqId[t]]
               made == [ins EXCEPT !.object = reqIns[t].object, !.metadata = "amended"]
    <2>1. StoresOK' /\ UNCHANGED restVars
        BY <1>3 DEF MetaLoadInstance, StoresOK, RepoTypeOK, storeVars
    <2>2. /\ reqId[t] \in Ids /\ reqIns[t] \in Numbered
          /\ ins \in Instance \cup {NoInstance}
        BY <1>0, <1>3
        DEF MetaLoadInstance, HasId, HasInstance, StepLabels, StoresOK, RepoTypeOK
    <2>3. CASE ins # NoInstance
        <3>1. made \in Numbered
            BY <2>2, <2>3, NumberedFacts
        <3>2. /\ reqIns' = [reqIns EXCEPT ![t] = made]
              /\ step' = [step EXCEPT ![t] = "metaStoreCustom"]
              /\ UNCHANGED <<reqId, reqCopy>>
            BY <1>3, <2>3 DEF MetaLoadInstance
        <3> HIDE DEF ins, made
        <3>3. ThreadsOK'
            BY <2>2, <3>1, <3>2 DEF ThreadsOK, HasId, HasInstance, StepLabels
        <3> QED BY <2>1, <3>3
    <2>4. CASE ins = NoInstance
        <3>1. ThreadsOK'
            BY <1>0, <1>3, <2>2, <2>4
            DEF MetaLoadInstance, ThreadsOK, HasId, HasInstance, StepLabels
        <3> QED BY <2>1, <3>1
    <2> QED BY <2>3, <2>4
<1>4. CASE MetaStoreCustom(t)
    <2>1. reqId[t] \in Ids /\ reqIns[t] \in Numbered /\ step[t] = "metaStoreCustom"
        BY <1>0, <1>4 DEF MetaStoreCustom, HasId, HasInstance, StepLabels
    <2>2. StoresOK' /\ UNCHANGED restVars
        BY <1>4, <2>1, NumberedFacts
        DEF MetaStoreCustom, StoreCustom, StoresOK, RepoTypeOK
    <2> QED BY <1>4, <2>1, <2>2, EditCopyOK, NumberedFacts DEF MetaStoreCustom
<1>5. CASE MetaPutCM(t)
    <2>1. registerCM' \in ConfigMap
        BY <1>0, <1>5, ConfigMapFacts, WriteFacts DEF MetaPutCM, StoresOK
    <2>2. StoresOK' /\ UNCHANGED restVars
        BY <1>5, <2>1 DEF MetaPutCM, StoresOK, RepoTypeOK, repoVars
    <2> QED BY <1>5, <2>2, EndOK DEF MetaPutCM
<1> QED BY <1>1, <1>2, <1>3, <1>4, <1>5 DEF MetaStep

-----------------------------------------------------------------------------
(* A step of InitCustomAppFromConfigMap keeps the types.                   *)
LEMMA BootStepOK ==
    ASSUME StoresOK, ThreadsOK, BootOK, BootStep
    PROVE  StoresOK' /\ ThreadsOK' /\ BootOK' /\ UNCHANGED <<reading, update>>
<1> USE DEF InStep, StepTo
<1>0. Boot \in Threads
    BY DEF Threads
<1>1. CASE InitGetCM
    <2>1. /\ StoresOK' /\ UNCHANGED <<reading, update>>
          /\ UNCHANGED <<reqId, reqIns, reqCopy>>
          /\ step' = [step EXCEPT ![Boot] = "initNext"] \/ step' = [step EXCEPT ![Boot] = "idle"]
        BY <1>1 DEF InitGetCM, StoresOK, RepoTypeOK, storeVars
    <2>2. ThreadsOK'
        BY <1>0, <2>1 DEF ThreadsOK, HasId, HasInstance, StepLabels
    <2>3. \A i \in Ids : registerCM.data[i] \in Instance \cup {NoInstance}
        BY ConfigMapFacts DEF StoresOK
    <2>4. BootOK'
        BY <1>1, <2>3 DEF InitGetCM, BootOK, StoresOK
    <2> QED BY <2>1, <2>2, <2>4
<1>2. CASE InitPutCM
    <2> DEFINE data == [i \in Ids |-> IF i \in boot.remove THEN NoInstance
                                     ELSE boot.copy.data[i]]
    <2>1. data \in [Ids -> Instance \cup {NoInstance}]
        BY ConfigMapFacts DEF BootOK
    <2>2. WriteCM(data) \/ UNCHANGED registerCM
        BY <1>2 DEF InitPutCM
    <2> HIDE DEF data
    <2>3. registerCM' \in ConfigMap
        BY <2>1, <2>2, WriteFacts DEF StoresOK
    <2>4. StoresOK' /\ UNCHANGED <<reading, update>>
        BY <1>2, <2>3 DEF InitPutCM, StoresOK, RepoTypeOK, repoVars
    <2>5. ThreadsOK'
        BY <1>0, <1>2 DEF InitPutCM, ThreadsOK, HasId, HasInstance, StepLabels
    <2>6. BootOK'
        BY <1>2, ConfigMapFacts DEF InitPutCM, BootOK
    <2> QED BY <2>4, <2>5, <2>6
<1>3. ASSUME NEW i \in Ids, NEW n \in NewObjects, InitNext(i, Existing, n)
      PROVE  StoresOK' /\ ThreadsOK' /\ BootOK' /\ UNCHANGED <<reading, update>>
    <2>1. StoresOK' /\ UNCHANGED <<reading, update>>
        BY <1>3 DEF InitNext, StoresOK, RepoTypeOK, storeVars
    <2>2. i \in boot.todo /\ boot.copy.data[i] \in Instance /\ n \in Objects
        BY <1>3, NewObjectsFacts DEF InitNext, BootOK
    <2>3. CASE InitStore(i, n)
        <3>1. Parsed(boot.copy.data[i], n) \in Numbered
            BY <2>2, NumberedFacts
        <3>2. ThreadsOK'
            BY <1>0, <2>3, <3>1 DEF InitStore, ThreadsOK, HasId, HasInstance, StepLabels
        <3>3. BootOK'
            BY <2>3 DEF InitStore, BootOK
        <3> QED BY <2>1, <3>2, <3>3
    <2>4. CASE boot' = [boot EXCEPT !.todo = {}, !.remove = {i}] /\ UNCHANGED threadVars
        BY <2>1, <2>4 DEF threadVars, ThreadsOK, BootOK
    <2> QED BY <1>3, <2>3, <2>4 DEF InitNext
<1> QED BY <1>1, <1>2, <1>3 DEF BootStep

(* A step of a reader keeps the types.                                     *)
LEMMA ReadersStepOK ==
    ASSUME StoresOK, ReadersOK, NEW r \in Readers,
           ReadStore(r) \/ \E i \in Ids : ReadLoad(r, i)
    PROVE  StoresOK' /\ ReadersOK' /\ UNCHANGED <<threadVars, boot, update>>
<1>1. ASSUME NEW i \in Ids, ReadLoad(r, i)
      PROVE  StoresOK' /\ ReadersOK' /\ UNCHANGED <<threadVars, boot, update>>
    <2>1. customInstanceStore[i] \in Numbered
        BY <1>1 DEF ReadLoad, StoresOK
    <2> QED BY <1>1, <2>1, NumberedFacts
        DEF ReadLoad, StoresOK, RepoTypeOK, ReadersOK, storeVars, NotReading
<1>2. CASE ReadStore(r)
    <2>1. reading[r].id \in Ids /\ reading[r].ins \in Instance
        BY <1>2, NumberedFacts DEF ReadStore, ReadersOK
    <2>2. StoresOK' /\ UNCHANGED <<threadVars, boot, update>>
        BY <1>2, <2>1 DEF ReadStore, StoreInstance, StoresOK, RepoTypeOK
    <2>3. ReadersOK'
        BY <1>2 DEF ReadStore, ReadersOK, NotReading
    <2> QED BY <2>2, <2>3
<1> QED BY <1>1, <1>2

(* A step of updateInstance keeps the types.                               *)
LEMMA UpdateStepOK ==
    ASSUME StoresOK, UpdateOK, cmAnnounced \in BOOLEAN, UpdateStep
    PROVE  StoresOK' /\ UpdateOK' /\ cmAnnounced' \in BOOLEAN
           /\ UNCHANGED <<threadVars, boot, reading>>
<1>0. UpdateIdle \in [pc : {"idle", "getCM", "range", "apply"}, copy : ConfigMap,
                      look : SUBSET Ids, remove : SUBSET Ids, store : SUBSET Ids]
      /\ UpdateIdle.store = {}
    BY ConfigMapFacts DEF UpdateIdle
<1>1. cmAnnounced' \in BOOLEAN
    BY DEF UpdateStep, UpdateStart, Watch
<1>2. CASE UpdateStart \/ UpdateGetCM \/ UpdateEnd
    <2>1. StoresOK' /\ UNCHANGED <<threadVars, boot, reading>>
        BY <1>2 DEF UpdateStart, UpdateGetCM, UpdateEnd,
                    StoresOK, RepoTypeOK, storeVars
    <2>2. CASE UpdateStart
        BY <1>1, <2>1, <2>2 DEF UpdateStart, UpdateOK
    <2>3. CASE UpdateGetCM \/ UpdateEnd
        <3>1. CASE update' = UpdateIdle
            BY <1>0, <1>1, <2>1, <3>1 DEF UpdateOK
        <3>2. CASE update' # UpdateIdle
            <4>1. /\ update.pc = "getCM"
                  /\ update' = [update EXCEPT !.pc = "range", !.copy = registerCM,
                                              !.look = Ids]
                BY <2>3, <3>2 DEF UpdateGetCM, UpdateEnd
            <4> QED BY <1>1, <2>1, <4>1 DEF UpdateOK, StoresOK
        <3> QED BY <3>1, <3>2
    <2> QED BY <1>2, <2>2, <2>3
<1>3. ASSUME NEW i \in Ids, UpdateRemove(i)
      PROVE  StoresOK' /\ UpdateOK' /\ UNCHANGED <<threadVars, boot, reading>>
    BY <1>3 DEF UpdateRemove, DropCustom, StoresOK, RepoTypeOK, UpdateOK
<1>4. ASSUME NEW i \in Ids, NEW n \in NewObjects, UpdateStore(i, n)
      PROVE  StoresOK' /\ UpdateOK' /\ UNCHANGED <<threadVars, boot, reading>>
    <2>1. i \in update.store /\ update.copy.data[i] \in Instance /\ n \in Objects
        BY <1>4, NewObjectsFacts DEF UpdateStore, UpdateOK
    <2>2. Parsed(update.copy.data[i], n) \in Numbered
        BY <2>1, NumberedFacts
    <2>3. StoresOK' /\ UNCHANGED <<threadVars, boot, reading>>
        BY <1>4, <2>2, NumberedFacts
        DEF UpdateStore, StoreCustom, StoresOK, RepoTypeOK
    <2>4. UpdateOK'
        BY <1>4 DEF UpdateStore, UpdateOK
    <2> QED BY <2>3, <2>4
<1>5. ASSUME NEW i \in Ids, UpdateRange(i)
      PROVE  StoresOK' /\ UpdateOK' /\ UNCHANGED <<threadVars, boot, reading>>
    <2> DEFINE look == update.look \ {i}
               due == {j \in Ids : look = {} /\ update.copy.data[j] # NoInstance}
               gone == {j \in {i} : customInstanceStore[j] # NoInstance
                                    /\ update.copy.data[j] = NoInstance}
    <2>1. \A j \in Ids : update.copy.data[j] \in Instance \cup {NoInstance}
        BY ConfigMapFacts DEF UpdateOK
    <2>2. StoresOK' /\ UNCHANGED <<threadVars, boot, reading>>
        BY <1>5 DEF UpdateRange, StoresOK, RepoTypeOK, storeVars
    <2>3. /\ update.pc = "range"
          /\ update' = [update EXCEPT
                    !.look = look, !.pc = IF look = {} THEN "apply" ELSE @,
                    !.remove = @ \cup gone, !.store = due]
        BY <1>5 DEF UpdateRange
    <2>4. look \subseteq Ids /\ gone \subseteq Ids /\ due \subseteq Ids
        BY DEF UpdateOK
    <2>5. (look # {} => due = {}) /\ \A j \in due : update.copy.data[j] \in Instance
        BY <2>1
    <2> HIDE DEF look, due, gone
    <2>6. UpdateOK'
        BY <2>3, <2>4, <2>5 DEF UpdateOK
    <2> QED BY <2>2, <2>6
<1> QED BY <1>1, <1>2, <1>3, <1>4, <1>5 DEF UpdateStep
-----------------------------------------------------------------------------
(* The pod monitor.  A structure marked DOWN keeps its number.             *)
LEMMA MarkedFacts ==
    \A ins \in Numbered : [ins EXCEPT !.status = "DOWN"] \in Numbered
BY DEF Numbered, Instance

(* A worker's step keeps the types of the custom instances.                *)
LEMMA CustomsOK ==
    ASSUME TypeOK, StoresOK, NEW w \in Workers, WorkerStep(w)
    PROVE  customInstanceStore' \in [Ids -> Numbered \cup {NoInstance}]
<1>0. customInstanceStore \in [Ids -> Numbered \cup {NoInstance}]
    BY DEF StoresOK
<1>1. CASE UNCHANGED customInstanceStore
    BY <1>0, <1>1
<1>2. CASE DeleteDropCustom(w)
    BY <1>0, <1>2 DEF DeleteDropCustom, DropCustom
<1>3. CASE DeleteMarkDown(w)
    <2>1. CASE SameObject(loaded[w], customInstanceStore[insId[w]])
        <3>1. insId[w] \in Ids
            BY <1>3 DEF DeleteMarkDown, At, TypeOK, UsesId
        <3>2. customInstanceStore[insId[w]] \in Numbered
            BY <1>0, <2>1, <3>1 DEF SameObject
        <3>3. [customInstanceStore[insId[w]] EXCEPT !.status = "DOWN"] \in Numbered
            BY <3>2, MarkedFacts
        <3>4. customInstanceStore' = [customInstanceStore EXCEPT ![insId[w]] =
                    [customInstanceStore[insId[w]] EXCEPT !.status = "DOWN"]]
            BY <1>3, <2>1 DEF DeleteMarkDown, MarkDown, MarkedDown
        <3> QED BY <1>0, <3>1, <3>3, <3>4
    <2>2. CASE ~SameObject(loaded[w], customInstanceStore[insId[w]])
        BY <1>1, <1>3, <2>2 DEF DeleteMarkDown, MarkDown, MarkedDown
    <2> QED BY <2>1, <2>2
<1>4. CASE Get(w) \/ Exit(w) \/ Done(w) \/ SyncHandler(w) \/ RegisterLoadKey(w)
            \/ RegisterStoreKey(w) \/ RegisterStoreInstance(w)
    BY <1>1, <1>4 DEF Get, Exit, Done, SyncHandler, RegisterLoadKey,
        RegisterStoreKey, RegisterStoreInstance, storeVars
<1>5. CASE DeleteLoadKey(w) \/ DeleteDropKey(w) \/ DeleteLoadInstance(w)
            \/ DeleteDropInstance(w) \/ DeleteGetCM(w) \/ DeleteUpdateCM(w)
    BY <1>1, <1>5 DEF DeleteLoadKey, DeleteDropKey, DeleteLoadInstance,
        DeleteDropInstance, DeleteGetCM, DeleteUpdateCM, storeVars, repoVars
<1> QED BY <1>2, <1>3, <1>4, <1>5 DEF WorkerStep

(* What a worker's mark changes in the hands of others stays well typed.   *)
LEMMA AlsoMarkedOK ==
    ASSUME ThreadsOK, ReadersOK, NEW w \in Workers, AlsoMarked(w)
    PROVE  ThreadsOK' /\ ReadersOK' /\ UNCHANGED <<boot, update>>
<1> DEFINE Marked(ins) == IF SameObject(loaded[w], ins)
                          THEN [ins EXCEPT !.status = "DOWN"] ELSE ins
<1>1. \A ins \in Numbered : Marked(ins) \in Numbered
    BY MarkedFacts
<1>2. Marked(NoInstance) = NoInstance
    BY DEF SameObject
<1>3. /\ reqIns' = [t \in Threads |-> Marked(reqIns[t])]
      /\ reading' = [r \in Readers |-> [reading[r] EXCEPT !.ins = Marked(reading[r].ins)]]
      /\ UNCHANGED <<step, reqId, reqCopy, boot, update>>
    BY DEF AlsoMarked
<1> HIDE DEF Marked
<1>4. ThreadsOK'
    BY <1>1, <1>2, <1>3 DEF ThreadsOK
<1>5. ASSUME NEW r \in Readers
      PROVE  /\ reading'[r] \in [id : Ids \cup {NoId}, ins : Numbered \cup {NoInstance}]
             /\ reading'[r] # NotReading => reading'[r].id \in Ids /\ reading'[r].ins \in Numbered
    <2>1. reading'[r] = [reading[r] EXCEPT !.ins = Marked(reading[r].ins)]
        BY <1>3
    <2>2. CASE reading[r] = NotReading
        BY <1>2, <2>1, <2>2 DEF NotReading
    <2>3. CASE reading[r] # NotReading
        BY <1>1, <2>1, <2>3 DEF ReadersOK
    <2> QED BY <2>2, <2>3
<1>6. ReadersOK'
    BY <1>3, <1>5 DEF ReadersOK
<1> QED BY <1>3, <1>4, <1>6

(* Steps of others leave the monitor as it is, and what it knows of        *)
(* itself true.                                                            *)
LEMMA FrameWork ==
    ASSUME WorkInv, UNCHANGED monitorVars, RepoTypeOK', registerCM' \in ConfigMap
    PROVE  WorkInv'
<1> USE DEF monitorVars, clusterVars, localVars
<1>1. TypeOK'
    BY DEF WorkInv, TypeOK
<1> QED BY <1>1 DEF WorkInv, QueueOK, Holding, Stopping

(* A restart leaves the monitor with the types of its start.               *)
LEMMA RestartWork ==
    ASSUME WorkInv, Restart, RepoTypeOK', registerCM' \in ConfigMap
    PROVE  WorkInv'
<1> USE DEF Restart, StartAnew
<1>1. /\ workQueue' = EmptyQueue /\ waiting' = Existing
      /\ pc' = [w \in Workers |-> "get"] /\ item' = [w \in Workers |-> NoPod]
      /\ UNCHANGED <<pods, changes>>
    OBVIOUS
<1>2. EmptyQueue \in QueueType(Pods) /\ QWellFormed(EmptyQueue)
    BY EmptyQueueOK
<1>3. TypeOK'
    BY <1>1, <1>2, InstanceFacts DEF WorkInv, TypeOK, Existing, Labels, UsesId
<1>4. QueueOK'
    BY <1>1, <1>2 DEF QueueOK
<1>5. Holding' /\ Stopping'
    BY <1>1 DEF Holding, Stopping, EmptyQueue
<1> QED BY <1>3, <1>4, <1>5 DEF WorkInv

-----------------------------------------------------------------------------
(* The invariant holds at the start.                                       *)
LEMMA ServerInvInit == ServerInit => ServerInv
<1> SUFFICES ASSUME ServerInit PROVE ServerInv
    OBVIOUS
<1> USE DEF ServerInit
<1>1. /\ NoEntries \in [Ids -> Instance \cup {NoInstance}]
      /\ NoEntries \in [Ids -> Numbered \cup {NoInstance}]
      /\ EmptyCopy \in ConfigMap
    BY InstanceFacts, ConfigMapFacts DEF NoEntries
<1>2. StoresOK
    <2>1. PICK data \in StartEntries : registerCM = [version |-> 1, data |-> data]
        OBVIOUS
    <2>2. registerCM \in ConfigMap
        BY <2>1, ConfigMapFacts
    <2> QED BY <1>1, <2>2 DEF StoresOK, RepoTypeOK
<1>3. WorkInv
    <2>1. EmptyQueue \in QueueType(Pods) /\ QWellFormed(EmptyQueue)
        BY EmptyQueueOK
    <2>2. TypeOK
        BY <1>2, <2>1, InstanceFacts, PodStatesFacts
        DEF PodInit, TypeOK, StoresOK, Labels, UsesId
    <2>3. QueueOK /\ Holding /\ Stopping
        BY <2>1 DEF PodInit, QueueOK, Holding, Stopping, EmptyQueue
    <2> QED BY <2>2, <2>3 DEF WorkInv
<1>4. ThreadsOK
    BY <1>1 DEF ServiceInit, ThreadsOK, StepLabels, HasId, HasInstance
<1>5. BootOK /\ ReadersOK /\ UpdateOK
    BY <1>1 DEF ServiceInit, BootOK, ReadersOK, UpdateOK, UpdateIdle, NotReading
<1>6. cmAnnounced \in BOOLEAN /\ BoundsOK
    BY DEF ServiceInit, BoundsOK
<1> QED BY <1>2, <1>3, <1>4, <1>5, <1>6 DEF ServerInv

(* A step of the monitor keeps it.                                         *)
LEMMA MonitorTurnOK ==
    ASSUME ServerInv,
           (\E p \in Pods : PodTurn(p)) \/ (\E w \in Workers : WorkerTurn(w))
    PROVE  ServerInv'
<1>0. WorkInv /\ StoresOK /\ ThreadsOK /\ BootOK /\ ReadersOK /\ UpdateOK /\ BoundsOK
    BY DEF ServerInv
<1>1. Next
    BY DEF PodTurn, WorkerTurn, Next
<1>2. WorkInv'
    BY <1>0, <1>1, WorkNext
<1>3. RepoTypeOK' /\ registerCM' \in ConfigMap
    BY <1>2 DEF WorkInv, TypeOK
<1>4. cmAnnounced' \in BOOLEAN /\ BoundsOK'
    BY <1>0 DEF PodTurn, WorkerTurn, Watch, bounds, BoundsOK
<1>5. ASSUME UNCHANGED <<threadVars, boot, reading, update>>
      PROVE  ThreadsOK' /\ BootOK' /\ ReadersOK' /\ UpdateOK'
    BY <1>0, <1>5 DEF threadVars, ThreadsOK, BootOK, ReadersOK, UpdateOK
<1>6. CASE \E p \in Pods : PodTurn(p)
    <2>1. UNCHANGED customInstanceStore
        BY <1>6 DEF PodTurn, PodStep, PodAdded, PodUpdated, PodDeleted,
            PodDeletionMissed, CacheChange, AddReady, storeVars
    <2>2. UNCHANGED <<threadVars, boot, reading, update>>
        BY <1>6 DEF PodTurn
    <2>3. StoresOK'
        BY <1>0, <1>3, <2>1 DEF StoresOK
    <2> QED BY <1>2, <1>4, <1>5, <2>2, <2>3 DEF ServerInv
<1>7. ASSUME NEW w \in Workers, WorkerTurn(w) PROVE ServerInv'
    <2>1. StoresOK'
        BY <1>0, <1>3, <1>7, CustomsOK DEF StoresOK, WorkerTurn, WorkInv
    <2>2. ThreadsOK' /\ BootOK' /\ ReadersOK' /\ UpdateOK'
        <3>1. CASE AlsoMarked(w)
            BY <1>0, <3>1, AlsoMarkedOK DEF BootOK, UpdateOK
        <3>2. CASE UNCHANGED <<threadVars, boot, reading, update>>
            BY <1>5, <3>2
        <3> QED BY <1>7, <3>1, <3>2 DEF WorkerTurn
    <2> QED BY <1>2, <1>4, <2>1, <2>2 DEF ServerInv
<1> QED BY <1>6, <1>7

(* What is left to show of a step of the service.                          *)
LEMMA ServiceTurn ==
    ASSUME ServerInv, UNCHANGED monitorVars, cmAnnounced' \in BOOLEAN,
           StoresOK', ThreadsOK', BootOK', ReadersOK', UpdateOK', BoundsOK'
    PROVE  ServerInv'
<1>1. WorkInv'
    BY FrameWork DEF ServerInv, StoresOK
<1> QED BY <1>1 DEF ServerInv

(* Every step keeps the invariant.                                         *)
LEMMA ServerInvNext == ServerInv /\ [ServerNext]_serverVars => ServerInv'
<1> SUFFICES ASSUME ServerInv, [ServerNext]_serverVars PROVE ServerInv'
    OBVIOUS
<1>0. /\ WorkInv /\ StoresOK /\ ThreadsOK /\ BootOK /\ ReadersOK /\ UpdateOK
      /\ BoundsOK /\ cmAnnounced \in BOOLEAN
    BY DEF ServerInv
<1>a. ASSUME UNCHANGED boot PROVE BootOK'
    BY <1>0, <1>a DEF BootOK
<1>b. ASSUME UNCHANGED reading PROVE ReadersOK'
    BY <1>0, <1>b DEF ReadersOK
<1>c. ASSUME UNCHANGED update PROVE UpdateOK'
    BY <1>0, <1>c DEF UpdateOK
<1>d. ASSUME UNCHANGED bounds PROVE BoundsOK'
    BY <1>0, <1>d DEF BoundsOK, bounds
<1>e. ASSUME UNCHANGED threadVars PROVE ThreadsOK'
    BY <1>0, <1>e DEF ThreadsOK, threadVars
<1>f. ASSUME UNCHANGED restVars PROVE BootOK' /\ ReadersOK' /\ UpdateOK'
    BY <1>a, <1>b, <1>c, <1>f DEF restVars
<1>g. Watch => cmAnnounced' \in BOOLEAN
    BY DEF Watch
<1>1. CASE (\E p \in Pods : PodTurn(p)) \/ (\E w \in Workers : WorkerTurn(w))
    BY <1>1, MonitorTurnOK
<1>2. ASSUME NEW t \in Threads, ThreadStep(t) PROVE ServerInv'
    <2>1. StoresOK' /\ ThreadsOK' /\ UNCHANGED restVars
        BY <1>0, <1>2, RegisterStepOK, DeleteStepOK, MetaStepOK DEF ThreadStep
    <2>2. Watch /\ UNCHANGED monitorVars /\ UNCHANGED bounds
        BY <1>2 DEF ThreadStep
    <2> QED BY <1>d, <1>f, <1>g, <2>1, <2>2, ServiceTurn
<1>3. CASE BootStep
    <2>1. StoresOK' /\ ThreadsOK' /\ BootOK' /\ UNCHANGED <<reading, update>>
        BY <1>0, <1>3, BootStepOK
    <2>2. Watch /\ UNCHANGED monitorVars /\ UNCHANGED bounds
        BY <1>3 DEF BootStep
    <2> QED BY <1>b, <1>c, <1>d, <1>g, <2>1, <2>2, ServiceTurn
<1>4. ASSUME NEW r \in Readers, ReadStep(r) \/ \E i \in Ids : Read(r, i)
      PROVE  ServerInv'
    <2>1. StoresOK' /\ ReadersOK' /\ UNCHANGED <<threadVars, boot, update>>
        BY <1>0, <1>4, ReadersStepOK DEF ReadStep, Read
    <2>2. Watch /\ UNCHANGED monitorVars /\ UNCHANGED bounds
        BY <1>4 DEF ReadStep, Read
    <2> QED BY <1>a, <1>c, <1>d, <1>e, <1>g, <2>1, <2>2, ServiceTurn
<1>5. CASE UpdateStep
    <2>1. StoresOK' /\ UpdateOK' /\ cmAnnounced' \in BOOLEAN
          /\ UNCHANGED <<threadVars, boot, reading>>
        BY <1>0, <1>5, UpdateStepOK
    <2>2. UNCHANGED monitorVars /\ UNCHANGED bounds
        BY <1>5 DEF UpdateStep
    <2> QED BY <1>a, <1>b, <1>d, <1>e, <2>1, <2>2, ServiceTurn
<1>6. ASSUME NEW t \in Handlers, NEW i \in Ids, Request(t, i) PROVE ServerInv'
    <2>1. BoundsOK'
        BY <1>0, <1>6 DEF Request, BoundsOK
    <2>2. PICK label \in {"loadInstance", "delGetCM", "metaGetCM"},
               ins \in Numbered \cup {NoInstance} :
            /\ Begin(t, label, i, ins)
            /\ label \in HasInstance => ins \in Numbered
        <3>1. ASSUME NEW payload \in Payloads, NEW n \in NewObjects
              PROVE  [object |-> n, podSelfLink |-> NoPod, status |-> payload.status,
                      metadata |-> payload.metadata] \in Numbered
            BY NewObjectsFacts DEF Numbered, Instance
        <3>2. ASSUME NEW n \in NewObjects
              PROVE  [object |-> n, podSelfLink |-> NoPod, status |-> "UP",
                      metadata |-> "amended"] \in Numbered
            BY NewObjectsFacts DEF Numbered, Instance
        <3>3. CASE \E payload \in Payloads, n \in NewObjects : Register(t, i, payload, n)
            BY <3>1, <3>3 DEF Register
        <3>4. CASE Delete(t, i)
            BY <3>4 DEF Delete, HasInstance
        <3>5. CASE \E n \in NewObjects : UpdateMateData(t, i, n)
            BY <3>2, <3>5 DEF UpdateMateData
        <3> QED BY <1>6, <3>3, <3>4, <3>5 DEF Request
    <2>3. t \in Threads /\ label \in StepLabels
        BY DEF Threads, StepLabels
    <2>4. ThreadsOK'
        BY <1>0, <2>2, <2>3, BeginOK
    <2>5. StoresOK' /\ UNCHANGED restVars
        BY <1>0, <2>2 DEF Begin, StoresOK, RepoTypeOK, storeVars
    <2>6. Watch /\ UNCHANGED monitorVars
        BY <1>6 DEF Request
    <2> QED BY <1>f, <1>g, <2>1, <2>4, <2>5, <2>6, ServiceTurn
<1>7. ASSUME NEW i \in Ids, Foreign(i) PROVE ServerInv'
    <2>1. PICK entry \in {NoInstance, Entry(RestoredInstance)} :
            WriteCM([registerCM.data EXCEPT ![i] = entry])
        BY <1>7 DEF Foreign
    <2>2. [registerCM.data EXCEPT ![i] = entry] \in [Ids -> Instance \cup {NoInstance}]
        BY <1>0, ConfigMapFacts, NumberedFacts DEF StoresOK
    <2>3. registerCM' \in ConfigMap
        BY <1>0, <2>1, <2>2, WriteFacts DEF StoresOK
    <2>4. /\ UNCHANGED <<repoVars, threadVars, boot, reading, update, monitorVars>>
          /\ Watch
        BY <1>7 DEF Foreign
    <2>5. StoresOK'
        BY <1>0, <2>3, <2>4 DEF StoresOK, RepoTypeOK, repoVars
    <2>6. BoundsOK'
        BY <1>0, <1>7 DEF Foreign, BoundsOK
    <2> QED BY <1>a, <1>b, <1>c, <1>e, <1>g, <2>4, <2>5, <2>6, ServiceTurn
<1>8. CASE Restart
    <2> USE DEF Restart, StartAnew
    <2>1. /\ NoEntries \in [Ids -> Instance \cup {NoInstance}]
          /\ NoEntries \in [Ids -> Numbered \cup {NoInstance}]
          /\ EmptyCopy \in ConfigMap
        BY InstanceFacts, ConfigMapFacts DEF NoEntries
    <2>2. StoresOK'
        BY <1>0, <1>8, <2>1 DEF StoresOK, RepoTypeOK
    <2>3. WorkInv'
        BY <1>0, <1>8, <2>2, RestartWork DEF StoresOK
    <2>4. ThreadsOK'
        BY <1>8, <2>1 DEF ThreadsOK, StepLabels, HasId, HasInstance
    <2>5. BootOK' /\ ReadersOK' /\ UpdateOK'
        BY <1>8, <2>1 DEF BootOK, ReadersOK, UpdateOK, UpdateIdle, NotReading
    <2>6. BoundsOK' /\ cmAnnounced' \in BOOLEAN
        BY <1>0, <1>8 DEF BoundsOK
    <2> QED BY <2>2, <2>3, <2>4, <2>5, <2>6 DEF ServerInv
<1>9. CASE UNCHANGED serverVars
    <2>1. UNCHANGED <<storeVars, monitorVars, serviceVars, bounds>>
        BY <1>9 DEF serverVars
    <2>2. StoresOK'
        BY <1>0, <2>1 DEF StoresOK, RepoTypeOK, storeVars
    <2>3. UNCHANGED <<threadVars, boot, reading, update, cmAnnounced>>
        BY <2>1 DEF serviceVars
    <2> QED BY <1>0, <1>a, <1>b, <1>c, <1>d, <1>e, <2>1, <2>2, <2>3, ServiceTurn
<1> QED BY <1>1, <1>2, <1>3, <1>4, <1>5, <1>6, <1>7, <1>8, <1>9 DEF ServerNext

(* The invariant holds always.                                             *)
LEMMA ServerInvariant == ServerSpec => []ServerInv
<1> QED BY ServerInvInit, ServerInvNext, PTL DEF ServerSpec

(* Every variable of the whole server keeps its type, and a structure that *)
(* is stored among the custom instances has a number of its own.           *)
THEOREM ServerTypeCorrect == ServerSpec => []ServerTypeOK
<1>1. ServerInv => ServerTypeOK
    <2> SUFFICES ASSUME ServerInv PROVE ServerTypeOK
        OBVIOUS
    <2>1. Numbered \subseteq Instance
        BY NumberedFacts
    <2>2. /\ TypeOK
          /\ step \in [Threads -> StepLabels]
          /\ reqId \in [Threads -> Ids \cup {NoId}]
          /\ reqIns \in [Threads -> Instance \cup {NoInstance}]
          /\ reqCopy \in [Threads -> ConfigMap]
        BY <2>1 DEF ServerInv, WorkInv, ThreadsOK
    <2>3. /\ boot \in [copy : ConfigMap, todo : SUBSET Ids, remove : SUBSET Ids]
          /\ reading \in [Readers -> [id : Ids \cup {NoId},
                                      ins : Instance \cup {NoInstance}]]
          /\ update \in [pc : {"idle", "getCM", "range", "apply"}, copy : ConfigMap,
                         look : SUBSET Ids, remove : SUBSET Ids, store : SUBSET Ids]
        BY <2>1 DEF ServerInv, BootOK, ReadersOK, UpdateOK
    <2>4. \A i \in Ids : customInstanceStore[i] # NoInstance =>
            customInstanceStore[i].object > 0
        BY DEF ServerInv, StoresOK, Numbered
    <2> QED BY <2>2, <2>3, <2>4 DEF ServerInv, BoundsOK, ServerTypeOK
<1> QED BY <1>1, ServerInvariant, PTL

-----------------------------------------------------------------------------
(* Copies of the config map.  A copy in someone's hands is no newer than   *)
(* the map, and where it is of the same version it agrees with the map     *)
(* everywhere but, for a request that has edited it, at the request's id.  *)
CopyAgrees(copy, edited) ==
    /\ copy.version <= registerCM.version
    /\ copy.version = registerCM.version =>
            \A i \in Ids \ edited : copy.data[i] = registerCM.data[i]

HasCopy ==
    {"putCM", "delPutCM", "metaLoadCustom", "metaLoadInstance", "metaStoreCustom",
     "metaPutCM"}

Writing == {"putCM", "delPutCM", "metaPutCM"}

IsolInv ==
    /\ CopiesFresh
    /\ \A t \in Threads : step[t] \in HasCopy => CopyAgrees(reqCopy[t], {reqId[t]})
    /\ step[Boot] \notin {"idle", "initGetCM"} => CopyAgrees(boot.copy, {})

(* The map is as it was or has a new version.                              *)
Advances ==
    registerCM' = registerCM \/ registerCM'.version = registerCM.version + 1

(* It was written by someone who changes at most what is under these ids.  *)
ChangesOnly(edited) ==
    /\ Advances
    /\ \A i \in Ids \ edited : registerCM'.data[i] = registerCM.data[i]

(* A request's copy goes on agreeing, unless its holder changes it.        *)
LEMMA HeldAgrees ==
    ASSUME registerCM \in ConfigMap, ThreadsOK, IsolInv, Advances,
           NEW t \in Threads, step[t] \in HasCopy,
           reqId'[t] = reqId[t], reqCopy'[t] = reqCopy[t]
    PROVE  CopyAgrees(reqCopy[t], {reqId[t]})'
<1>1. reqCopy[t].version \in Nat /\ registerCM.version \in Nat
    BY ConfigMapFacts DEF ThreadsOK
<1>2. CopyAgrees(reqCopy[t], {reqId[t]})
    BY DEF IsolInv
<1> QED BY <1>1, <1>2 DEF Advances, CopyAgrees

(* And so does start-up's.                                                 *)
LEMMA BootAgrees ==
    ASSUME registerCM \in ConfigMap, BootOK, IsolInv, Advances,
           step[Boot] \notin {"idle", "initGetCM"}, UNCHANGED boot
    PROVE  CopyAgrees(boot.copy, {})'
<1>1. boot.copy.version \in Nat /\ registerCM.version \in Nat
    BY ConfigMapFacts DEF BootOK
<1>2. CopyAgrees(boot.copy, {})
    BY DEF IsolInv
<1> QED BY <1>1, <1>2 DEF Advances, CopyAgrees

(* An Update from a copy that agrees and is current changes only what the  *)
(* copy was edited at.                                                     *)
LEMMA WriteIsolated ==
    ASSUME registerCM \in ConfigMap, NEW copy \in ConfigMap, NEW edited,
           CopyAgrees(copy, edited), Current(copy),
           NEW data \in [Ids -> Instance \cup {NoInstance}],
           \A i \in Ids \ edited : data[i] = copy.data[i],
           WriteCM(data) \/ TouchCM(data)
    PROVE  ChangesOnly(edited)
BY WriteFacts DEF ChangesOnly, Advances, CopyAgrees, Current

(* Where a thread goes with a copy, it has just taken or edited it.        *)
CopyKept(t) ==
    step'[t] \in HasCopy =>
        /\ UNCHANGED registerCM
        /\ \/ reqCopy'[t] = registerCM
           \/ /\ step[t] \in HasCopy /\ reqId'[t] = reqId[t]
              /\ reqCopy'[t].version = reqCopy[t].version
              /\ \A i \in Ids \ {reqId[t]} : reqCopy'[t].data[i] = reqCopy[t].data[i]

(* A step of a thread leaves the others' copies and start-up's alone.      *)
LEMMA ThreadFrame ==
    ASSUME ThreadsOK, NEW t \in Threads, RegisterStep(t) \/ DeleteStep(t) \/ MetaStep(t)
    PROVE  /\ \A u \in Threads \ {t} :
                step'[u] = step[u] /\ reqId'[u] = reqId[u] /\ reqCopy'[u] = reqCopy[u]
           /\ step[t] \notin {"idle", "initGetCM"}
<1> DEFINE Others == \A u \in Threads \ {t} :
                step'[u] = step[u] /\ reqId'[u] = reqId[u] /\ reqCopy'[u] = reqCopy[u]
<1>1. End(t) => Others
    BY DEF End, StepTo, ThreadsOK
<1>2. ASSUME NEW label, StepTo(t, label), UNCHANGED <<reqId, reqCopy>> PROVE Others
    BY <1>2 DEF StepTo, ThreadsOK
<1>3. ASSUME NEW label, GetCM(t, label) PROVE Others
    BY <1>1, <1>3 DEF GetCM, StepTo, ThreadsOK
<1>4. ASSUME NEW ins, EditCopy(t, ins) PROVE Others
    BY <1>1, <1>4 DEF EditCopy, StepTo, ThreadsOK
<1> HIDE DEF Others
<1>5. CASE RegisterStep(t)
    BY <1>1, <1>2, <1>3, <1>5 DEF RegisterStep, StoreLoadInstance, StoreLoadCustom,
        StoreCustomKey, StoreCustomInstance, StorageGetCM, StoragePutCM, InStep, Others
<1>6. CASE DeleteStep(t)
    BY <1>1, <1>2, <1>3, <1>6 DEF DeleteStep, DelGetCM, DelPutCM, DelLoadKey,
        DelDropCustom, DelDropKey, DelLoadInstance, DelDropInstance, InStep, Others
<1>7. CASE MetaStep(t)
    BY <1>1, <1>2, <1>3, <1>4, <1>7 DEF MetaStep, MetaGetCM, MetaLoadCustom,
        MetaLoadInstance, MetaStoreCustom, MetaPutCM, InStep, Others
<1> QED BY <1>5, <1>6, <1>7

(* A thread that ends has no copy.                                         *)
LEMMA EndHasNoCopy ==
    ASSUME ThreadsOK, NEW t \in Threads, End(t)
    PROVE  step'[t] \notin HasCopy /\ step'[t] \in {"idle", "initNext"}
BY EndOK DEF HasCopy

(* A copy taken is the map.                                                *)
LEMMA GetCMKept ==
    ASSUME ThreadsOK, NEW t \in Threads, NEW label, GetCM(t, label), UNCHANGED registerCM
    PROVE  CopyKept(t)
BY EndHasNoCopy DEF GetCM, CopyKept, StepTo, ThreadsOK

(* A copy edited is changed at the request's id.                           *)
LEMMA EditCopyKept ==
    ASSUME ThreadsOK, NEW t \in Threads, NEW ins, EditCopy(t, ins), step[t] \in HasCopy,
           UNCHANGED registerCM
    PROVE  CopyKept(t)
<1>1. CASE End(t)
    BY <1>1, EndHasNoCopy DEF CopyKept
<1>2. CASE ~End(t)
    <2>1. /\ reqCopy' = [reqCopy EXCEPT ![t].data[reqId[t]] = Entry(ins)]
          /\ UNCHANGED reqId
        BY <1>2 DEF EditCopy
    <2>2. reqCopy[t] \in ConfigMap
        BY DEF ThreadsOK
    <2> QED BY <2>1, <2>2 DEF CopyKept, ThreadsOK, ConfigMap
<1> QED BY <1>1, <1>2

(* A step of a thread changes the map only under its own id, with its      *)
(* Update.                                                                 *)
LEMMA ThreadIsolated ==
    ASSUME StoresOK, ThreadsOK, IsolInv, NEW t \in Threads,
           RegisterStep(t) \/ DeleteStep(t) \/ MetaStep(t)
    PROVE  /\ CopyKept(t)
           /\ \/ UNCHANGED registerCM
              \/ /\ ChangesOnly({reqId[t]})
                 /\ step[t] \in Writing /\ step'[t] # step[t]
<1>0. /\ registerCM \in ConfigMap /\ reqCopy[t] \in ConfigMap
      /\ step[t] \in HasId => reqId[t] \in Ids
      /\ step[t] \in HasInstance => reqIns[t] \in Numbered
      /\ step[t] \in HasCopy => CopyAgrees(reqCopy[t], {reqId[t]})
    BY DEF StoresOK, ThreadsOK, IsolInv
<1>1. CASE StoragePutCM(t)
    <2> DEFINE data == [reqCopy[t].data EXCEPT ![reqId[t]] = Entry(reqIns[t])]
    <2>1. /\ reqId[t] \in Ids /\ Entry(reqIns[t]) \in Instance /\ step[t] = "putCM"
          /\ CopyAgrees(reqCopy[t], {reqId[t]})
        BY <1>0, <1>1, NumberedFacts
        DEF StoragePutCM, InStep, HasId, HasInstance, HasCopy, StepLabels
    <2>2. /\ data \in [Ids -> Instance \cup {NoInstance}]
          /\ \A i \in Ids \ {reqId[t]} : data[i] = reqCopy[t].data[i]
        BY <1>0, <2>1, ConfigMapFacts
    <2>3. /\ UNCHANGED registerCM \/ (Current(reqCopy[t]) /\ (WriteCM(data) \/ TouchCM(data)))
          /\ End(t)
        BY <1>1 DEF StoragePutCM
    <2> HIDE DEF data
    <2>4. UNCHANGED registerCM \/ ChangesOnly({reqId[t]})
        BY <1>0, <2>1, <2>2, <2>3, WriteIsolated
    <2> QED BY <2>1, <2>3, <2>4, EndHasNoCopy DEF CopyKept, Writing
<1>2. CASE DelPutCM(t)
    <2> DEFINE data == Without(reqCopy[t].data, reqId[t])
    <2>1. /\ reqId[t] \in Ids /\ step[t] = "delPutCM"
          /\ CopyAgrees(reqCopy[t], {reqId[t]})
        BY <1>0, <1>2 DEF DelPutCM, InStep, HasId, HasCopy, StepLabels
    <2>2. /\ data \in [Ids -> Instance \cup {NoInstance}]
          /\ \A i \in Ids \ {reqId[t]} : data[i] = reqCopy[t].data[i]
        BY <1>0, <2>1, ConfigMapFacts DEF Without
    <2>3. /\ UNCHANGED registerCM \/ (Current(reqCopy[t]) /\ WriteCM(data))
          /\ End(t) \/ StepTo(t, "delLoadKey")
        BY <1>2 DEF DelPutCM
    <2> HIDE DEF data
    <2>4. UNCHANGED registerCM \/ ChangesOnly({reqId[t]})
        BY <1>0, <2>1, <2>2, <2>3, WriteIsolated
    <2>5. step'[t] \in {"idle", "initNext", "delLoadKey"}
        BY <2>3, EndHasNoCopy DEF StepTo, ThreadsOK
    <2> QED BY <2>1, <2>4, <2>5 DEF CopyKept, Writing, HasCopy
<1>3. CASE MetaPutCM(t)
    <2>1. step[t] = "metaPutCM" /\ CopyAgrees(reqCopy[t], {reqId[t]})
        BY <1>0, <1>3 DEF MetaPutCM, InStep, HasCopy
    <2>2. /\ UNCHANGED registerCM \/ (Current(reqCopy[t]) /\ WriteCM(reqCopy[t].data))
          /\ End(t)
        BY <1>3 DEF MetaPutCM
    <2>3. UNCHANGED registerCM \/ ChangesOnly({reqId[t]})
        BY <1>0, <2>1, <2>2, ConfigMapFacts, WriteIsolated
    <2> QED BY <2>1, <2>2, <2>3, EndHasNoCopy DEF CopyKept, Writing
<1>4. CASE StorageGetCM(t) \/ DelGetCM(t) \/ MetaGetCM(t)
    BY <1>4, GetCMKept DEF StorageGetCM, DelGetCM, MetaGetCM, storeVars
<1>5. CASE StoreLoadInstance(t) \/ StoreLoadCustom(t) \/ StoreCustomKey(t)
            \/ StoreCustomInstance(t)
    <2>1. /\ UNCHANGED registerCM
          /\ \E label \in {"loadCustom", "storeKey", "storeCustom", "getCM"} : StepTo(t, label)
        BY <1>5 DEF StoreLoadInstance, StoreLoadCustom, StoreCustomKey,
            StoreCustomInstance, storeVars
    <2> QED BY <2>1 DEF CopyKept, HasCopy, StepTo, ThreadsOK
<1>6. CASE DelLoadKey(t) \/ DelDropCustom(t) \/ DelDropKey(t) \/ DelLoadInstance(t)
            \/ DelDropInstance(t)
    <2>1. /\ UNCHANGED registerCM
          /\ \/ End(t)
             \/ \E label \in {"delDropCustom", "delDropKey", "delLoadInstance",
                             "delDropInstance"} : StepTo(t, label)
        BY <1>6 DEF DelLoadKey, DelDropCustom, DelDropKey, DelLoadInstance,
            DelDropInstance, storeVars
    <2> QED BY <2>1, EndHasNoCopy DEF CopyKept, HasCopy, StepTo, ThreadsOK
<1>7. CASE MetaLoadCustom(t) \/ MetaLoadInstance(t) \/ MetaStoreCustom(t)
    <2>1. step[t] \in HasCopy /\ UNCHANGED registerCM
        BY <1>7 DEF MetaLoadCustom, MetaLoadInstance, MetaStoreCustom, HasCopy,
            InStep, storeVars
    <2>2. (\E ins : EditCopy(t, ins)) \/ UNCHANGED <<reqId, reqCopy>>
        BY <1>7 DEF MetaLoadCustom, MetaLoadInstance, MetaStoreCustom
    <2> QED BY <2>1, <2>2, EditCopyKept DEF CopyKept
<1> QED BY <1>1, <1>2, <1>3, <1>4, <1>5, <1>6, <1>7
        DEF RegisterStep, DeleteStep, MetaStep

-----------------------------------------------------------------------------
(* What one step may do to the entry under i: nothing, or what someone at  *)
(* work on i may.                                                          *)
Isolated ==
    \A i \in Ids : registerCM'.data[i] # registerCM.data[i] =>
        \/ \E w \in Workers : At(w, "updateCM") /\ ~At(w, "updateCM")' /\ insId[w] = i
        \/ \E t \in Threads :
            /\ step[t] \in {"putCM", "delPutCM", "metaPutCM"} /\ step'[t] # step[t]
            /\ reqId[t] = i
        \/ i \in boot.remove /\ boot'.remove = {}
        \/ foreign' # foreign

(* Copies nobody touches go on agreeing while the map advances.            *)
LEMMA CopiesKept ==
    ASSUME ServerInv, IsolInv, Advances, UNCHANGED <<pc, cmCopy, step, reqId, reqCopy, boot>>
    PROVE  IsolInv'
<1>0. registerCM \in ConfigMap /\ TypeOK /\ ThreadsOK /\ BootOK
    BY DEF ServerInv, StoresOK, WorkInv
<1>1. CopiesFresh'
    BY <1>0 DEF IsolInv, CopiesFresh, CopyFresh, Advances, TypeOK, ConfigMap
<1>2. ASSUME NEW t \in Threads, step[t] \in HasCopy
      PROVE  CopyAgrees(reqCopy[t], {reqId[t]})'
    BY <1>0, <1>2, HeldAgrees
<1>3. ASSUME step[Boot] \notin {"idle", "initGetCM"} PROVE CopyAgrees(boot.copy, {})'
    BY <1>0, <1>3, BootAgrees
<1> QED BY <1>1, <1>2, <1>3 DEF IsolInv

(* A step of the monitor.                                                  *)
LEMMA MonitorIsolated ==
    ASSUME ServerInv, IsolInv,
           (\E p \in Pods : PodTurn(p)) \/ (\E w \in Workers : WorkerTurn(w))
    PROVE  IsolInv' /\ Isolated
<1>0. /\ WorkInv /\ TypeOK /\ CopiesFresh /\ ThreadsOK /\ BootOK
      /\ registerCM \in ConfigMap
    BY DEF ServerInv, IsolInv, StoresOK, WorkInv
<1>1. Next
    BY DEF PodTurn, WorkerTurn, Next
<1>2. CopiesFresh'
    BY <1>0, <1>1, CopiesFreshNext
<1>3. UNCHANGED <<step, reqId, reqCopy, boot>>
    BY DEF PodTurn, WorkerTurn, AlsoMarked, threadVars
<1>4. Advances /\ Isolated
    <2>1. CASE \E w \in Workers : DeleteUpdateCM(w)
        <3>1. PICK w \in Workers : DeleteUpdateCM(w)
            BY <2>1
        <3>2. /\ pc[w] = "updateCM" /\ insId[w] \in Ids /\ pc'[w] # "updateCM"
              /\ CopyFresh(w)
            BY <1>0, <3>1 DEF DeleteUpdateCM, TypeOK, UsesId, At, Goto, CopiesFresh
        <3>3. CASE UNCHANGED registerCM
            BY <3>3 DEF Advances, Isolated
        <3>4. CASE Current(cmCopy[w]) /\ WriteCM(Without(cmCopy[w].data, insId[w]))
            <4>1. cmCopy[w].data = registerCM.data
                BY <3>2, <3>4 DEF CopyFresh, Current
            <4>2. Advances /\ \A i \in Ids \ {insId[w]} : registerCM'.data[i] = registerCM.data[i]
                BY <1>0, <3>2, <3>4, <4>1 DEF WriteCM, Without, Advances, ConfigMap
            <4>3. At(w, "updateCM") /\ ~At(w, "updateCM")'
                BY <3>2 DEF At
            <4> QED BY <4>2, <4>3 DEF Isolated
        <3> QED BY <3>1, <3>3, <3>4 DEF DeleteUpdateCM
    <2>2. CASE ~\E w \in Workers : DeleteUpdateCM(w)
        <3>1. CASE \E w \in Workers : Handling(w)
            BY <2>2, <3>1 DEF Handling, SyncHandler, RegisterLoadKey, RegisterStoreKey,
                RegisterStoreInstance, DeleteLoadKey, DeleteDropCustom, DeleteDropKey,
                DeleteLoadInstance, DeleteDropInstance, DeleteGetCM, DeleteMarkDown,
                storeVars, Advances, Isolated
        <3>2. CASE ~\E w \in Workers : Handling(w)
            BY <1>0, <1>1, <3>2, OuterFrame DEF storeVars, Advances, Isolated
        <3> QED BY <3>1, <3>2
    <2> QED BY <2>1, <2>2
<1>5. ASSUME NEW t \in Threads, step[t] \in HasCopy
      PROVE  CopyAgrees(reqCopy[t], {reqId[t]})'
    BY <1>0, <1>3, <1>4, <1>5, HeldAgrees
<1>6. ASSUME step[Boot] \notin {"idle", "initGetCM"} PROVE CopyAgrees(boot.copy, {})'
    BY <1>0, <1>3, <1>4, <1>6, BootAgrees
<1> QED BY <1>2, <1>3, <1>4, <1>5, <1>6 DEF IsolInv

(* A step of a request's thread or of StoreCustomApp at start-up.          *)
LEMMA ThreadStepIsolated ==
    ASSUME ServerInv, IsolInv, NEW t \in Threads, ThreadStep(t)
    PROVE  IsolInv' /\ Isolated
<1>0. /\ StoresOK /\ ThreadsOK /\ BootOK /\ TypeOK /\ registerCM \in ConfigMap
    BY DEF ServerInv, StoresOK, WorkInv
<1>1. RegisterStep(t) \/ DeleteStep(t) \/ MetaStep(t)
    BY DEF ThreadStep
<1>2. /\ CopyKept(t)
      /\ \/ UNCHANGED registerCM
         \/ ChangesOnly({reqId[t]}) /\ step[t] \in Writing /\ step'[t] # step[t]
    BY <1>0, <1>1, ThreadIsolated
<1>3. Advances /\ Isolated
    BY <1>2 DEF ChangesOnly, Advances, Isolated, Writing
<1>4. /\ UNCHANGED <<pc, cmCopy, boot>>
      /\ \A u \in Threads \ {t} :
            step'[u] = step[u] /\ reqId'[u] = reqId[u] /\ reqCopy'[u] = reqCopy[u]
      /\ step[t] \notin {"idle", "initGetCM"}
    <2>1. UNCHANGED restVars /\ UNCHANGED monitorVars
        BY <1>0, <1>1, RegisterStepOK, DeleteStepOK, MetaStepOK DEF ThreadStep
    <2> QED BY <1>0, <1>1, <2>1, ThreadFrame DEF restVars, monitorVars, localVars
<1>5. CopiesFresh'
    BY <1>0, <1>3, <1>4
    DEF IsolInv, CopiesFresh, CopyFresh, Advances, TypeOK, ConfigMap
<1>6. ASSUME NEW u \in Threads, step'[u] \in HasCopy
      PROVE  CopyAgrees(reqCopy[u], {reqId[u]})'
    <2>1. CASE u # t
        BY <1>0, <1>3, <1>4, <1>6, <2>1, HeldAgrees
    <2>2. CASE u = t /\ reqCopy'[t] = registerCM
        BY <1>0, <1>2, <1>6, <2>2, ConfigMapFacts DEF CopyKept, CopyAgrees
    <2>3. CASE u = t /\ reqCopy'[t] # registerCM
        BY <1>2, <1>6, <2>3 DEF CopyKept, CopyAgrees, IsolInv
    <2> QED BY <2>1, <2>2, <2>3
<1>7. ASSUME step'[Boot] \notin {"idle", "initGetCM"} PROVE CopyAgrees(boot.copy, {})'
    <2>1. Boot \in Threads
        BY DEF Threads
    <2>2. step[Boot] \notin {"idle", "initGetCM"}
        BY <1>4, <1>7, <2>1
    <2> QED BY <1>0, <1>3, <1>4, <2>2, BootAgrees
<1> QED BY <1>3, <1>5, <1>6, <1>7 DEF IsolInv

(* A step of InitCustomAppFromConfigMap's own.                             *)
LEMMA BootIsolated ==
    ASSUME ServerInv, IsolInv, BootStep
    PROVE  IsolInv' /\ Isolated
<1>0. /\ ThreadsOK /\ BootOK /\ TypeOK /\ registerCM \in ConfigMap /\ Boot \in Threads
      /\ UNCHANGED <<pc, cmCopy>>
    BY DEF ServerInv, StoresOK, WorkInv, Threads, BootStep, monitorVars, localVars
<1>1. ASSUME Advances,
             \A u \in Threads \ {Boot} :
                step'[u] = step[u] /\ reqId'[u] = reqId[u] /\ reqCopy'[u] = reqCopy[u],
             step'[Boot] \notin HasCopy,
             step'[Boot] \notin {"idle", "initGetCM"} => CopyAgrees(boot.copy, {})'
      PROVE  IsolInv'
    <2>1. CopiesFresh'
        BY <1>0, <1>1
        DEF IsolInv, CopiesFresh, CopyFresh, Advances, TypeOK, ConfigMap
    <2>2. ASSUME NEW u \in Threads, step'[u] \in HasCopy
          PROVE  CopyAgrees(reqCopy[u], {reqId[u]})'
        BY <1>0, <1>1, <2>2, HeldAgrees
    <2> QED BY <1>1, <2>1, <2>2 DEF IsolInv
<1>2. ASSUME UNCHANGED registerCM PROVE Advances /\ Isolated
    BY <1>2 DEF Advances, Isolated
<1>3. CASE InitGetCM
    <2>1. /\ UNCHANGED <<registerCM, reqId, reqCopy>>
          /\ \/ step' = [step EXCEPT ![Boot] = "initNext"] /\ boot'.copy = registerCM
             \/ step' = [step EXCEPT ![Boot] = "idle"]
        BY <1>3 DEF InitGetCM, StepTo, storeVars
    <2>2. step'[Boot] \notin {"idle", "initGetCM"} => CopyAgrees(boot.copy, {})'
        BY <1>0, <2>1, ConfigMapFacts DEF ThreadsOK, CopyAgrees
    <2> QED BY <1>0, <1>1, <1>2, <2>1, <2>2 DEF ThreadsOK, HasCopy
<1>4. CASE InitPutCM
    <2> DEFINE data == [i \in Ids |-> IF i \in boot.remove THEN NoInstance
                                     ELSE boot.copy.data[i]]
    <2>1. /\ step[Boot] = "initNext" /\ step' = [step EXCEPT ![Boot] = "idle"]
          /\ UNCHANGED <<reqId, reqCopy>> /\ boot'.remove = {}
          /\ UNCHANGED registerCM \/ (Current(boot.copy) /\ WriteCM(data))
        BY <1>4 DEF InitPutCM, InStep, StepTo
    <2>2. CopyAgrees(boot.copy, {}) /\ boot.copy \in ConfigMap
        BY <1>0, <2>1 DEF IsolInv, BootOK
    <2>3. CopyAgrees(boot.copy, boot.remove)
        BY <2>2 DEF CopyAgrees
    <2>4. /\ data \in [Ids -> Instance \cup {NoInstance}]
          /\ \A i \in Ids \ boot.remove : data[i] = boot.copy.data[i]
        BY <2>2, ConfigMapFacts
    <2> HIDE DEF data
    <2>5. UNCHANGED registerCM \/ ChangesOnly(boot.remove)
        BY <1>0, <2>1, <2>2, <2>3, <2>4, WriteIsolated
    <2>6. Advances /\ Isolated
        BY <2>1, <2>5 DEF ChangesOnly, Advances, Isolated
    <2> QED BY <1>0, <1>1, <2>1, <2>6 DEF ThreadsOK, HasCopy
<1>5. ASSUME NEW i \in Ids, NEW n \in NewObjects, InitNext(i, Existing, n)
      PROVE  IsolInv' /\ Isolated
    <2>1. step[Boot] = "initNext" /\ UNCHANGED registerCM
        BY <1>5 DEF InitNext, InStep, storeVars
    <2>2. CopyAgrees(boot.copy, {})
        BY <2>1 DEF IsolInv
    <2>3. /\ boot'.copy = boot.copy
          /\ \/ UNCHANGED threadVars
             \/ /\ step' = [step EXCEPT ![Boot] = "loadInstance"]
                /\ reqId' = [reqId EXCEPT ![Boot] = i]
                /\ UNCHANGED reqCopy
        BY <1>0, <1>5 DEF InitNext, InitStore, StepTo, BootOK
    <2>4. step'[Boot] \notin HasCopy
        BY <1>0, <2>1, <2>3 DEF threadVars, ThreadsOK, HasCopy
    <2>5. CopyAgrees(boot.copy, {})'
        BY <2>1, <2>2, <2>3 DEF CopyAgrees
    <2>6. \A u \in Threads \ {Boot} :
            step'[u] = step[u] /\ reqId'[u] = reqId[u] /\ reqCopy'[u] = reqCopy[u]
        BY <1>0, <2>3 DEF threadVars, ThreadsOK
    <2> QED BY <1>1, <1>2, <2>1, <2>4, <2>5, <2>6
<1> QED BY <1>3, <1>4, <1>5 DEF BootStep

(* Every step keeps the copies in agreement and leaves entries to those at *)
(* work on them.                                                           *)
LEMMA IsolNext ==
    ASSUME ServerInv, IsolInv, [ServerNext]_serverVars
    PROVE  IsolInv' /\ (Isolated \/ UNCHANGED serverVars)
<1>0. /\ ThreadsOK /\ BootOK /\ BoundsOK /\ registerCM \in ConfigMap
    BY DEF ServerInv, StoresOK
<1>1. ASSUME UNCHANGED <<registerCM, pc, cmCopy, step, reqId, reqCopy, boot>>
      PROVE  IsolInv' /\ Isolated
    BY <1>1, CopiesKept DEF Advances, Isolated
<1>2. CASE (\E p \in Pods : PodTurn(p)) \/ (\E w \in Workers : WorkerTurn(w))
    BY <1>2, MonitorIsolated
<1>3. ASSUME NEW t \in Threads, ThreadStep(t) PROVE IsolInv' /\ Isolated
    BY <1>3, ThreadStepIsolated
<1>4. CASE BootStep
    BY <1>4, BootIsolated
<1>5. ASSUME NEW r \in Readers, ReadStep(r) \/ \E i \in Ids : Read(r, i)
      PROVE  IsolInv' /\ Isolated
    BY <1>1, <1>5 DEF ReadStep, Read, ReadStore, ReadLoad, storeVars, threadVars,
        monitorVars, localVars
<1>6. CASE UpdateStep
    BY <1>1, <1>6 DEF UpdateStep, UpdateStart, UpdateGetCM, UpdateRange, UpdateEnd,
        UpdateRemove, UpdateStore, storeVars, threadVars, monitorVars, localVars
<1>7. ASSUME NEW t \in Handlers, NEW i \in Ids, Request(t, i)
      PROVE  IsolInv' /\ Isolated
    <2> DEFINE Requested == {"loadInstance", "delGetCM", "metaGetCM"}
    <2>1. PICK label \in Requested : \E ins : Begin(t, label, i, ins)
        <3>1. ASSUME NEW payload \in Payloads, NEW n \in NewObjects, Register(t, i, payload, n)
              PROVE  \E ins : Begin(t, "loadInstance", i, ins)
            BY <3>1 DEF Register
        <3>2. ASSUME Delete(t, i) PROVE \E ins : Begin(t, "delGetCM", i, ins)
            BY <3>2 DEF Delete
        <3>3. ASSUME NEW n \in NewObjects, UpdateMateData(t, i, n)
              PROVE  \E ins : Begin(t, "metaGetCM", i, ins)
            BY <3>3 DEF UpdateMateData
        <3> QED BY <1>7, <3>1, <3>2, <3>3 DEF Request
    <2>2. /\ UNCHANGED <<registerCM, pc, cmCopy, reqCopy, boot>>
          /\ step' = [step EXCEPT ![t] = label] /\ reqId' = [reqId EXCEPT ![t] = i]
        BY <1>7, <2>1 DEF Begin, StepTo, Request, storeVars, restVars, monitorVars, localVars
    <2>3. Advances /\ Isolated /\ CopiesFresh'
        BY <2>2 DEF Advances, Isolated, IsolInv, CopiesFresh, CopyFresh
    <2>4. ASSUME NEW u \in Threads, step'[u] \in HasCopy
          PROVE  CopyAgrees(reqCopy[u], {reqId[u]})'
        <3>1. u # t
            BY <1>0, <2>2, <2>4 DEF ThreadsOK, HasCopy
        <3> QED BY <1>0, <2>2, <2>3, <2>4, <3>1, HeldAgrees DEF ThreadsOK
    <2>5. ASSUME step'[Boot] \notin {"idle", "initGetCM"} PROVE CopyAgrees(boot.copy, {})'
        <3>1. Boot # t /\ Boot \in Threads
            BY ServiceAssumption DEF Threads
        <3> QED BY <1>0, <2>2, <2>3, <2>5, <3>1, BootAgrees DEF ThreadsOK
    <2> QED BY <2>3, <2>4, <2>5 DEF IsolInv
<1>8. ASSUME NEW i \in Ids, Foreign(i) PROVE IsolInv' /\ Isolated
    <2>1. foreign' # foreign
        BY <1>0, <1>8 DEF Foreign, BoundsOK
    <2>2. Advances /\ UNCHANGED <<pc, cmCopy, step, reqId, reqCopy, boot>>
        BY <1>8 DEF Foreign, WriteCM, Advances, threadVars, monitorVars, localVars
    <2> QED BY <2>1, <2>2, CopiesKept DEF Isolated
<1>9. CASE Restart
    <2> USE DEF Restart, StartAnew
    <2>1. Boot \in Threads /\ HasCopy \cap {"initGetCM", "idle"} = {}
        BY DEF Threads, HasCopy
    <2>2. Isolated
        BY <1>9 DEF Isolated
    <2>3. IsolInv'
        BY <1>9, <2>1 DEF IsolInv, CopiesFresh, CopyFresh
    <2> QED BY <2>2, <2>3
<1>10. CASE UNCHANGED serverVars
    BY <1>1, <1>10 DEF serverVars, storeVars, serviceVars, threadVars, monitorVars, localVars
<1> QED BY <1>2, <1>3, <1>4, <1>5, <1>6, <1>7, <1>8, <1>9, <1>10 DEF ServerNext

(* Whatever requests, start-up, pod workers and other replicas do at once, *)
(* nobody undoes in the config map what another has written: each entry    *)
(* changes only by an Update of someone at work on it.                     *)
THEOREM EntriesIsolated == ServerSpec => EntriesAreIsolated
<1>1. ServerInit => IsolInv
    <2> SUFFICES ASSUME ServerInit PROVE IsolInv
        OBVIOUS
    <2>1. Boot \in Threads /\ HasCopy \cap {"initGetCM", "idle"} = {}
        BY DEF Threads, HasCopy
    <2> QED BY <2>1 DEF ServerInit, PodInit, ServiceInit, IsolInv, CopiesFresh, CopyFresh
<1>2. ServerInv /\ IsolInv /\ [ServerNext]_serverVars => IsolInv'
    BY IsolNext
<1>3. ServerInv /\ IsolInv /\ [ServerNext]_serverVars => [Isolated]_serverVars
    BY IsolNext
<1>4. ServerSpec => [][Isolated]_serverVars
    BY <1>1, <1>2, <1>3, ServerInvariant, PTL DEF ServerSpec
<1> QED BY <1>4 DEF Isolated, EntriesAreIsolated
=============================================================================
