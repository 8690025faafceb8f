---------------------------- MODULE ConfigMonitor ----------------------------
(***************************************************************************)
(* The config map monitor (pkg/k8s/config_map.go): informer events         *)
(* announce the keys of config maps that changed, workers compare the      *)
(* content with the hash on record and put the name of what changed into a *)
(* channel, and a notifier has the instances of that service told, each    *)
(* notice in a goroutine of its own.                                       *)
(***************************************************************************)
EXTENDS WorkQueue, FiniteSets, Integers

CONSTANTS
    Keys,           \* namespace/name of the config maps
    Names,          \* of config maps and services
    NameOf,
    Watched,        \* the keys in namespaces the server registers, but for
                    \* its own config map (see updateInstance)
    RouteConfigMap, \* "zuul-route"
    GatewayNames,
    Instances, ServiceOf,
    Moves,          \* instances come into the registry and leave it
    Hung,           \* instances that take a request and never answer it
    Workers,
    Contents,       \* what the data of a config map can be
    Orders,         \* orders a map's entries can be ranged over
    Capacity,       \* of the channel
    StartMaps, StartHeld,   \* what there can be, and instances can hold, at
                            \* the start
    NoKey, NoName, NoHash, NoInstance, Absent,
    MaxChanges, MaxRefreshers   \* bounds on changes and on goroutines

ASSUME ConfigMonitorAssumption ==
    /\ NameOf \in [Keys -> Names] /\ Watched \subseteq Keys
    /\ NoKey \notin Keys /\ NoName \notin Names /\ NoInstance \notin Instances
    /\ ServiceOf \in [Instances -> Names] /\ Hung \subseteq Instances
    /\ GatewayNames \subseteq Names /\ Moves \in BOOLEAN
    /\ Capacity \in Nat \ {0}
    /\ MaxChanges \in Nat /\ MaxRefreshers \in Nat

(* What syncHandler tells apart in a config map: its data and whether it   *)
(* carries the annotation "config".                                        *)
ConfigMaps == [data : Contents, config : BOOLEAN]

(* Sha256Map: the entries are joined in the order they are ranged over, so *)
(* that one content has as many hashes as it can be ranged over, and has   *)
(* them again whenever it comes back.  No two contents join to one text.   *)
Hash(data, order) == [data |-> data, order |-> order]
Hashes == [data : Contents, order : Orders]

ASSUME ValuesAssumption ==
    /\ NoHash \notin Hashes /\ Absent \notin ConfigMaps \cup Contents
    /\ StartMaps \subseteq [Keys -> ConfigMaps \cup {Absent}]

(* The instances the change of a config map is of interest to.             *)
InstancesOf(n) ==
    {i \in Instances :
        IF n = RouteConfigMap THEN ServiceOf[i] \in GatewayNames ELSE ServiceOf[i] = n}

Concerns == {c \in Instances \X Keys : c[1] \in InstancesOf(NameOf[c[2]])}

ASSUME HeldAssumption == StartHeld \subseteq [Concerns -> Contents \cup {Absent}]

VARIABLES
    configMaps, \* the informer's cache, by key
    waiting,    \* keys on their way to the queue
    workQueue,
    pc,         \* where each worker is in processNextWorkItem
    item,       \* the key it holds
    newSha,     \* the hash it computed
    configMapCache, \* the hash on record, by name
    notify,     \* the channel
    taken,      \* the name the notifier took from it
    refreshers, \* goroutines that tell instances: the one being called and
                \* those still to be called
    registered, \* the instances in the registry
    told,       \* those that were told and have not yet polled
    held,       \* what an instance's last poll found in a config map that
                \* concerns it, or Absent
    apart,      \* the concerns of which the server cannot know: what the
                \* instance holds was not on record when it polled or came,
                \* and nothing was put on record for it since
    changes     \* number of changes so far

clusterVars == <<configMaps, waiting, changes>>
localVars == <<item, newSha>>
clientVars == <<registered, told, held, apart>>
notifierVars == <<notify, taken, refreshers>>
vars == <<clusterVars, workQueue, pc, localVars, configMapCache, notifierVars,
          clientVars>>

IdleRefresher == [calling |-> NoInstance, rest |-> {}]
Refreshers == 1 .. MaxRefreshers

(* The informer lists what is there.                                       *)
Init ==
    /\ configMaps \in StartMaps
    /\ waiting = {k \in Keys : configMaps[k] # Absent}
    /\ workQueue = EmptyQueue
    /\ pc = [w \in Workers |-> "get"]
    /\ item = [w \in Workers |-> NoKey]
    /\ newSha = [w \in Workers |-> NoHash]
    /\ configMapCache = [n \in Names |-> NoHash]
    /\ notify = <<>> /\ taken = NoName
    /\ refreshers = [r \in Refreshers |-> IdleRefresher]
    /\ registered = Instances /\ told = {}
    /\ held \in StartHeld /\ apart = Concerns
    /\ changes = 0

-----------------------------------------------------------------------------
(* Faulty variant: no handler for deletions.                               *)
enqueuePresent(k) ==
    waiting' = IF workQueue.shuttingDown \/ configMaps'[k] = Absent
               THEN waiting ELSE waiting \cup {k}

(* Informer events: the cache changes, then enqueueConfigMap is called,    *)
(* for a deletion the watch missed too (its key function handles           *)
(* tombstones); AddRateLimited refuses a key once the queue is shutting    *)
(* down.                                                                   *)
enqueueConfigMap(k) ==
    waiting' = IF workQueue.shuttingDown THEN waiting ELSE waiting \cup {k}

CacheChange(k, cm) ==
    /\ changes < MaxChanges
    /\ cm # configMaps[k]
    /\ changes' = changes + 1
    /\ configMaps' = [configMaps EXCEPT ![k] = cm]
    /\ enqueueConfigMap(k)
    /\ UNCHANGED <<workQueue, pc, localVars, configMapCache, notifierVars,
                   clientVars>>

Created(k) ==
    /\ configMaps[k] = Absent
    /\ \E cm \in ConfigMaps : CacheChange(k, cm)

(* Other data, which may have been there before, or other metadata.        *)
Updated(k) ==
    /\ configMaps[k] # Absent
    /\ \E cm \in ConfigMaps : CacheChange(k, cm)

Deleted(k) ==
    /\ configMaps[k] # Absent
    /\ CacheChange(k, Absent)

(* The delay of AddRateLimited ends.                                       *)
AddReady(k) ==
    /\ k \in waiting
    /\ waiting' = waiting \ {k}
    /\ workQueue' = QAdd(workQueue, k)
    /\ UNCHANGED <<configMaps, changes, pc, localVars, configMapCache,
                   notifierVars, clientVars>>

(* StartMonitor returns.                                                   *)
ShutDown ==
    /\ ~workQueue.shuttingDown
    /\ workQueue' = QShutDown(workQueue)
    /\ UNCHANGED <<clusterVars, pc, localVars, configMapCache, notifierVars,
                   clientVars>>

-----------------------------------------------------------------------------
At(w, label) == pc[w] = label
Goto(w, label) == pc' = [pc EXCEPT ![w] = label]

Get(w) ==
    /\ At(w, "get")
    /\ QHasItem(workQueue)
    /\ item' = [item EXCEPT ![w] = Head(workQueue.queue)]
    /\ workQueue' = QGet(workQueue)
    /\ Goto(w, "sync")
    /\ UNCHANGED <<clusterVars, newSha, configMapCache, notifierVars, clientVars>>

Exit(w) ==
    /\ At(w, "get")
    /\ ~QHasItem(workQueue)
    /\ workQueue.shuttingDown
    /\ Goto(w, "stopped")
    /\ UNCHANGED <<clusterVars, workQueue, localVars, configMapCache,
                   notifierVars, clientVars>>

(* What syncHandler does about a config map.  The lister fails only with   *)
(* NotFound, so the branch that returns an error to retry is never taken.  *)
Verdict(k) ==
    IF k \notin Watched THEN "done"
    ELSE IF configMaps[k] = Absent THEN "forget"
    ELSE IF configMaps[k].config THEN "load" ELSE "done"

SyncHandler(w) ==
    LET k == item[w] IN
    /\ At(w, "sync")
    /\ Goto(w, Verdict(k))
    /\ IF Verdict(k) = "load"
       THEN \E order \in Orders :
                newSha' = [newSha EXCEPT ![w] = Hash(configMaps[k].data, order)]
       ELSE UNCHANGED newSha
    /\ UNCHANGED <<clusterVars, workQueue, item, configMapCache, notifierVars,
                   clientVars>>

Record(w, hash) ==
    configMapCache' = [configMapCache EXCEPT ![NameOf[item[w]]] = hash]

Forget(w) ==
    /\ At(w, "forget")
    /\ Record(w, NoHash)
    /\ apart' = apart \cup {c \in Concerns : c[2] = item[w]}
    /\ Goto(w, "done")
    /\ UNCHANGED <<clusterVars, workQueue, localVars, notifierVars, registered,
                   told, held>>

LoadHash(w) ==
    LET sha == configMapCache[NameOf[item[w]]] IN
    /\ At(w, "load")
    /\ Goto(w, IF sha = NoHash THEN "storeFirst"
               ELSE IF sha # newSha[w] THEN "store" ELSE "done")
    /\ UNCHANGED <<clusterVars, workQueue, localVars, configMapCache,
                   notifierVars, clientVars>>

StoreHash(w) ==
    /\ pc[w] \in {"storeFirst", "store"}
    /\ Record(w, newSha[w])
    /\ Goto(w, IF At(w, "store") THEN "notify" ELSE "done")
    /\ apart' = {c \in apart : c[2] = item[w] =>
                    At(w, "storeFirst") /\ held[c] # newSha[w].data}
    /\ UNCHANGED <<clusterVars, workQueue, localVars, notifierVars, registered,
                   told, held>>

(* Faulty variant: there is always room.                                   *)
NotifyUnbounded(w) ==
    /\ At(w, "notify")
    /\ notify' = Append(notify, NameOf[item[w]])
    /\ Goto(w, "done")
    /\ UNCHANGED <<clusterVars, workQueue, localVars, configMapCache, taken,
                   refreshers, clientVars>>

(* The worker waits for room in the channel.                               *)
Notify(w) ==
    /\ At(w, "notify")
    /\ Len(notify) < Capacity
    /\ notify' = Append(notify, NameOf[item[w]])
    /\ Goto(w, "done")
    /\ UNCHANGED <<clusterVars, workQueue, localVars, configMapCache, taken,
                   refreshers, clientVars>>

(* Forget of the rate limiter and the deferred Done.                       *)
Done(w) ==
    /\ At(w, "done")
    /\ workQueue' = QDone(workQueue, item[w])
    /\ Goto(w, "get")
    /\ item' = [item EXCEPT ![w] = NoKey]
    /\ newSha' = [newSha EXCEPT ![w] = NoHash]
    /\ UNCHANGED <<clusterVars, configMapCache, notifierVars, clientVars>>

WorkerStep(w) ==
    \/ Get(w) \/ Exit(w) \/ SyncHandler(w) \/ Forget(w) \/ LoadHash(w)
    \/ StoreHash(w) \/ Notify(w) \/ Done(w)

-----------------------------------------------------------------------------
(* Faulty variant: the notifier tells the instances itself.                *)
TakeInline ==
    /\ taken = NoName
    /\ notify # <<>>
    /\ \A r \in Refreshers : refreshers[r] = IdleRefresher
    /\ taken' = Head(notify)
    /\ notify' = Tail(notify)
    /\ UNCHANGED <<clusterVars, workQueue, pc, localVars, configMapCache,
                   refreshers, clientVars>>

(* The notifier's goroutine, which never ends.                             *)
Take ==
    /\ taken = NoName
    /\ notify # <<>>
    /\ taken' = Head(notify)
    /\ notify' = Tail(notify)
    /\ UNCHANGED <<clusterVars, workQueue, pc, localVars, configMapCache,
                   refreshers, clientVars>>

(* Faulty variant: only the instances of the service of that name.         *)
SpawnOwn(r) ==
    /\ taken # NoName
    /\ refreshers[r] = IdleRefresher
    /\ refreshers' = [refreshers EXCEPT ![r].rest =
                        {i \in registered : ServiceOf[i] = taken}]
    /\ taken' = NoName
    /\ UNCHANGED <<clusterVars, workQueue, pc, localVars, configMapCache,
                   notify, clientVars>>

Spawn(r) ==
    /\ taken # NoName
    /\ refreshers[r] = IdleRefresher
    /\ refreshers' = [refreshers EXCEPT ![r].rest = InstancesOf(taken) \cap registered]
    /\ taken' = NoName
    /\ UNCHANGED <<clusterVars, workQueue, pc, localVars, configMapCache,
                   notify, clientVars>>

(* notifyRefresh: one request after the other.                             *)
Call(r) ==
    /\ refreshers[r].calling = NoInstance
    /\ \E i \in refreshers[r].rest :
        refreshers' = [refreshers EXCEPT ![r] = [calling |-> i, rest |-> @.rest \ {i}]]
    /\ UNCHANGED <<clusterVars, workQueue, pc, localVars, configMapCache,
                   notify, taken, clientVars>>

OnRecord(k, data) ==
    LET sha == configMapCache[NameOf[k]] IN sha # NoHash /\ sha.data = data

(* The answer, or an error, which is only logged.                          *)
Answer(r) ==
    LET i == refreshers[r].calling IN
    /\ i \notin Hung \cup {NoInstance}
    /\ refreshers' = [refreshers EXCEPT ![r].calling = NoInstance]
    /\ \/ told' = told \cup {i} /\ UNCHANGED apart
       \/ /\ apart' = apart \cup {c \in Concerns : c[1] = i /\ ~OnRecord(c[2], held[c])}
          /\ UNCHANGED told
    /\ UNCHANGED <<clusterVars, workQueue, pc, localVars, configMapCache,
                   notify, taken, registered, held>>

Refresh(r) == Call(r) \/ Answer(r)

Content(k) == IF configMaps[k] = Absent THEN Absent ELSE configMaps[k].data

(* An instance polls its configuration: because it was told, because it    *)
(* starts and is not yet registered, or for reasons of its own.            *)
Fetch(i) ==
    /\ told' = told \ {i}
    /\ held' = [c \in Concerns |-> IF c[1] = i THEN Content(c[2]) ELSE held[c]]
    /\ apart' = {c \in Concerns : IF c[1] = i THEN ~OnRecord(c[2], Content(c[2]))
                                   ELSE c \in apart}
    /\ UNCHANGED <<clusterVars, workQueue, pc, localVars, configMapCache,
                   notifierVars, registered>>

(* Instances come into the registry, with what they polled some time       *)
(* before, and leave it (call by call in PodMonitor and EurekaService).    *)
Register(i) ==
    /\ Moves
    /\ i \notin registered
    /\ registered' = registered \cup {i}
    /\ apart' = {c \in Concerns : IF c[1] = i THEN ~OnRecord(c[2], held[c])
                                   ELSE c \in apart}
    /\ UNCHANGED <<clusterVars, workQueue, pc, localVars, configMapCache,
                   notifierVars, told, held>>

Leave(i) ==
    /\ Moves
    /\ i \in registered
    /\ registered' = registered \ {i}
    /\ told' = told \ {i}
    /\ UNCHANGED <<clusterVars, workQueue, pc, localVars, configMapCache,
                   notifierVars, held, apart>>

Next ==
    \/ \E k \in Keys : Created(k) \/ Updated(k) \/ Deleted(k) \/ AddReady(k)
    \/ \E w \in Workers : WorkerStep(w)
    \/ \E r \in Refreshers : Spawn(r) \/ Refresh(r)
    \/ \E i \in Instances : Fetch(i) \/ Register(i) \/ Leave(i)
    \/ Take
    \/ ShutDown

Spec == Init /\ [][Next]_vars

(* The goroutines and the queue's timer run, and an instance that was told *)
(* polls; a hung one never answers, and config maps change, instances come *)
(* and go and the server stops when they please.                           *)
Fairness ==
    /\ \A w \in Workers : WF_vars(WorkerStep(w))
    /\ \A k \in Keys : WF_vars(AddReady(k))
    /\ \A r \in Refreshers : WF_vars(Refresh(r))
    /\ \A i \in Instances : WF_vars(i \in told /\ Fetch(i))
    /\ WF_vars(Take) /\ WF_vars(\E r \in Refreshers : Spawn(r))

FairSpec == Spec /\ Fairness

-----------------------------------------------------------------------------
Labels == {"get", "sync", "forget", "load", "storeFirst", "store", "notify",
           "done", "stopped"}
UsesHash == {"load", "storeFirst", "store"}

(* Every variable has the type its declaration says, a worker has the key  *)
(* and the hash its next call takes, and the channel is never over full.   *)
MonitorTypeOK ==
    /\ configMaps \in [Keys -> ConfigMaps \cup {Absent}]
    /\ waiting \subseteq Keys
    /\ workQueue \in QueueType(Keys)
    /\ pc \in [Workers -> Labels]
    /\ item \in [Workers -> Keys \cup {NoKey}]
    /\ newSha \in [Workers -> Hashes \cup {NoHash}]
    /\ configMapCache \in [Names -> Hashes \cup {NoHash}]
    /\ notify \in Seq(Names) /\ Len(notify) <= Capacity
    /\ taken \in Names \cup {NoName}
    /\ refreshers \in [Refreshers -> [calling : Instances \cup {NoInstance},
                                      rest : SUBSET Instances]]
    /\ registered \subseteq Instances /\ told \subseteq Instances
    /\ held \in [Concerns -> Contents \cup {Absent}] /\ apart \subseteq Concerns
    /\ changes \in 0 .. MaxChanges
    /\ \A w \in Workers :
        /\ item[w] = NoKey <=> pc[w] \in {"get", "stopped"}
        /\ pc[w] \in UsesHash => newSha[w] \in Hashes

Announced == waiting \cup workQueue.dirty

(* The only config map of its name in the registered namespaces.           *)
UniqueName(k) == k \in Watched /\ \A j \in Watched : NameOf[j] = NameOf[k] => j = k

(* The hash on record of a config map that is neither announced nor in     *)
(* hand is that of what it holds, and there is none of one that is gone:   *)
(* no event that comes while a worker is between its read and Done is      *)
(* lost.                                                                   *)
RecordAgrees(k) ==
    LET hash == configMapCache[NameOf[k]] IN
    /\ Verdict(k) = "load" => hash # NoHash /\ hash.data = configMaps[k].data
    /\ Verdict(k) = "forget" => hash = NoHash

RecordFollowsMap ==
    ~workQueue.shuttingDown =>
        \A k \in Keys :
            UniqueName(k) /\ k \notin Announced \cup workQueue.processing => RecordAgrees(k)

(* A worker may still come to a notice for k.                              *)
InHand(k) == \E w \in Workers : item[w] = k /\ pc[w] # "done"

OnTheWay(i, n) ==
    \/ \E k \in Watched : NameOf[k] = n /\ (k \in Announced \/ InHand(k))
    \/ n \in Range(notify) \cup {taken}
    \/ \E r \in Refreshers : i \in refreshers[r].rest \cup {refreshers[r].calling}
    \/ i \in told

(* A registered instance holds something else than the config map, and     *)
(* what it holds was on record, or has been replaced there, since it came. *)
Owed(c) ==
    /\ c[1] \in registered /\ c \notin apart
    /\ configMaps[c[2]] # Absent /\ configMaps[c[2]].config
    /\ held[c] # configMaps[c[2]].data

(* As long as the server runs, an instance that is owed a notice has one   *)
(* under way: through the queue, a worker, the channel, the notifier or a  *)
(* refresher, whatever changes, comes back, comes and goes meanwhile.  An  *)
(* instance of a gateway is owed one for zuul-route as well.  Nothing is   *)
(* said of the concerns in apart: syncHandler compares with what was last  *)
(* recorded, not with what instances hold, so that content polled before   *)
(* it was recorded, and taken back before that, is never seen to differ.   *)
OwedIsOnTheWay ==
    ~workQueue.shuttingDown =>
        \A c \in Concerns : UniqueName(c[2]) /\ Owed(c) => OnTheWay(c[1], NameOf[c[2]])

(* The monitor hands out keys as KeyedWork promises.                       *)
Abstract ==
    INSTANCE KeyedWork WITH
        announced <- Announced, current <- item,
        closed <- workQueue.shuttingDown

MonitorKeyedWork == Abstract!Spec

One(b) == IF b THEN 1 ELSE 0

Due == [k \in Keys |-> One(k \in waiting) + One(k \in workQueue.dirty) + One(InHand(k))]

Feed ==
    INSTANCE ConfigFeed WITH
        Values <- ConfigMaps \cup {Absent},
        maps <- configMaps, due <- Due, feed <- notify

(* The monitor gives out notices as ConfigFeed promises: no more for a     *)
(* config map than it had changes, its being there at the start counted as *)
(* one, and never more than the channel holds.                             *)
FeedSpec == Feed!Spec

(* A worker that waits for room in the channel gets it, though an instance *)
(* hangs: the notifier does not wait for the instances.                    *)
NotifyReturns ==
    \A w \in Workers : At(w, "notify") ~> ~At(w, "notify")

(* One call in the way of another that is never answered.                  *)
BehindHung(i) ==
    \E r \in Refreshers : i \in refreshers[r].rest /\ refreshers[r].calling \in Hung

(* While the server runs, an instance that is owed a notice polls, leaves, *)
(* or fails to answer, or the config map is gone or no longer watched,     *)
(* unless the goroutine that is to tell it waits for an instance that      *)
(* hangs; that one keeps no other notice back.                             *)
OwedIsTold ==
    \A c \in Concerns :
        UniqueName(c[2]) /\ c[1] \notin Hung =>
            (Owed(c) ~> ~Owed(c) \/ BehindHung(c[1]) \/ workQueue.shuttingDown)

=============================================================================
