# go-register-server in TLA+

go-register-server is a registration centre for micro-services on Kubernetes.
It watches pods, keeps the ready ones in an in-memory registry that Eureka
clients fetch over HTTP, lets instances be registered or amended over HTTP (and
keeps those in a config map of its own), and serves and edits the
configuration of services, which lives in other config maps.  This directory
holds TLA+ models of that program, the TLC configurations that check them, and
proofs checked by TLAPS.

Paths below are relative to the repository: `pkg/k8s/pod.go` is
`src/pkg/k8s/pod.go` in `PROJECT.json`.

## 1. The system

| Component | Code | State | Operations |
|---|---|---|---|
| Work queue | `vendor/k8s.io/client-go/util/workqueue` | `queue`, `dirty`, `processing`, `shuttingDown`; keys held back by the rate limiter | `Add`, `AddRateLimited`, `Get`, `Done`, `ShutDown`, each under one lock |
| Pod monitor | `pkg/k8s/pod.go` | the informer's cache, a work queue, two workers | informer handlers, `processNextWorkItem`, `syncHandler` |
| Application repository | `pkg/api/repository/pod.go` | three `sync.Map`s: `NamespaceStore` (key to id), `InstanceStore` and `CustomInstanceStore` (id to instance); `ApplicationStore` is never written | `Register`, `DeleteInstance`, the reads (which also copy custom instances over) |
| Register config map | `pkg/k8s/config_map.go`, `pkg/api/service/eureka_server_service.go` | the config map `go-register-server`, kept by the API server | Get, Update with a resource version |
| Eureka HTTP service | `pkg/api/service/eureka_server_service.go` | none of its own | `Register`, `Delete`, `UpdateMateData`, `Apps`, `InitCustomAppFromConfigMap` |
| Config map monitor | `pkg/k8s/config_map.go` | a work queue, its workers, `configMapCache` (name to hash), the channel `notify` of 50 names | informer handlers, `syncHandler`, `updateInstance`, the notifier, `notifyRefresh` |
| Config service | `pkg/api/service/config_service.go`, the queries and writes of `pkg/k8s/config_map.go` | `appNamespace` (name to namespace); config maps at the API server | `Save`, `AddOrUpdate`, `Delete`, `Poll` |
| Conversions | `pkg/utils/convertor.go` | none | pod to instance, flattening of trees, hash of a map |
| Bootstrap | `cmd/server.go`, `pkg/api/router/register_route.go` | the globals of `pkg/k8s/data.go` | order in which clients, informers, monitors and routes come up |
| Page, settings, metrics | `eureka_page_service.go`, `embed`, `metrics` | none that anything reads back | rendering, flags, counters |

How they interact: informer goroutines change the caches and call the
handlers, which put keys on the queues after a rate limit.  Worker goroutines
take keys and read the cache, then call the repository's maps and the API
server.  HTTP handlers run concurrently with the workers on the same maps and
the same config map.  Nothing but the queue has a lock around more than one
step; the register config map has the API server's optimistic locking (the
resource version of the copy an Update is made from), and the config maps of
services have none, as their Updates send no version.  The config service's
writes come back as informer events to the config map monitor, which tells the
instances concerned to poll; the poll is a request to the config service.

What is hard: two workers on the maps with no lock; events that arrive while
their key is being handled; deletions the watch misses; addresses and names
that pass from one pod to another; calls to the API server that fail or are
refused half way through a handler; several replicas, and restarts, that share
one config map; a bounded channel between workers and a notifier; instances
that never answer; Go maps ranged over in random order.  `PROJECT.json` lists each of these at its line under
`hazards`, with the property that covers it.

What makes each part correct:

- queue: a key that changed is handed out again after the change, to one worker
  at a time; a shutdown drains it;
- pod monitor and repository: the registry follows the informer's cache, every
  instance served has a key that leads to its removal, every registered pod is
  served;
- register config map: concurrent writers do not undo each other;
- HTTP service: a deleted instance is no longer served, a registered one is and
  survives a restart;
- config map monitor: the hash on record follows the config map; a config map
  is notified at most once for each change of it, and an instance that holds
  something else than the config map hears of it;
- config service: an edit of one route loses no other; adding properties
  overwrites none, and updating takes the new values; an answer of 200 means
  everything was written; a config map that is there is found; what is split
  over two config maps is served whole.

## 2. Plan

| Step | Module | Content | Status |
|---|---|---|---|
| 1 | `WorkQueue` | the queue as functions on a record | done |
| 2 | `KeyedWork` | what a monitor promises of its keys | done |
| 3 | `ApplicationRepository`, `RegisterConfigMap` | the shared maps and the config map, call by call | done |
| 4 | `PodMonitor` | the pod monitor over 1 and 3, refining 2 | done |
| 5 | `WorkQueueProofs`, `PodMonitorProofs` | its safety properties for any constants | done |
| 6 | `EurekaService` | the HTTP handlers, start-up, readers and `updateInstance` | done |
| 7 | `RegisterServer` | `PodMonitor` beside 6, other replicas, crashes and restarts | done |
| 8 | `ServerProofs` | types and isolation of entries in the config map, for any constants | done |
| 9 | `PropertyTree`, `ProfileMerge`, `FlatProperties` | the recursive merges, the split of the routes and flattening, against references over paths | done |
| 10 | `ConfigService` | the config service's requests over 9, call by call | done |
| 11 | `ConfigFeed`, `ConfigMonitor` | hash cache, channel, notifier, workers and what instances hold over 1, refining 2 and `ConfigFeed` | done |
| 12 | `ConfigMonitorProofs` | every safety property of 11, and both refinements, for any constants | done |
| 13 | `Recursion`, `PropertyTreeProofs`, `ProfileMergeProofs` | the merges, the flattening and the split of 9, for trees of any depth and every order of a map's keys | done |
| 14 | `ConfigServiceProofs` | every safety property of 10, for any constants | done |
| 15 | proofs about 7 | that nobody else's step breaks what the monitor's own proofs say of a pod's instance, in a server nobody sends deletions to | open |

Two abstract specifications are stated: `KeyedWork`, which both monitors are
shown to implement, and `ConfigFeed`.  For the register config map the promise
is the action property `EntriesAreIsolated`; the config service's own config
maps do not have it, as no version is sent, and `EditIsExact` and `AddIsExact`
say what remains: a request that nobody raced changes what it is about and
nothing else.

## 3. The modules

**`WorkQueue`** gives `queue.go`'s `Type` as a record and its methods as
functions on it, as every method runs under the queue's lock.  `QWellFormed` is
the invariant the comments on the fields state.  The delaying queue above it
(`AddAfter`, `waitingLoop`) is the set `waiting` of `PodMonitor`: a key enters
when the handler is due to call `AddRateLimited` and leaves, at any later time,
by `AddReady`, which is `Add`.  The order in which delays end is left open, as
the rate limiter's delay depends on how often a key failed.

**`ApplicationRepository`** has the three maps and the single calls on them.
A map is a function whose absent keys map to `NoId` or `NoInstance`.  An
instance is what the program tells apart in one: the pod it was built from,
its status, and which structure it is, since the maps hold pointers and
`ins.Status = DOWN` shows through every map that holds the same one.

**`RegisterConfigMap`** has the config map with its resource version.

**`PodMonitor`** has an action for every step at which another goroutine can
come between:

| Action | Code |
|---|---|
| `PodAdded`, `PodUpdated`, `PodDeleted` | a cache change and the handler's `AddRateLimited` (`pod.go:51-75`) |
| `PodDeletionMissed` | a tombstone, for which `MetaNamespaceKeyFunc` fails (`pod.go:70`) |
| `AddReady` | the delay ends (`delaying_queue.go`) |
| `Get`, `Exit`, `Done` | `processNextWorkItem` (`pod.go:101-120`) |
| `SyncHandler` | the read of the cache and the choice made from it (`pod.go:122-172`) |
| `RegisterLoadKey`, `RegisterStoreKey`, `RegisterStoreInstance` | `Register`, one call each (`repository/pod.go:25-35`) |
| `DeleteLoadKey` ... `DeleteDropInstance` | `DeleteInstance`, one call each (`repository/pod.go:37-54`) |
| `DeleteGetCM`, `DeleteUpdateCM` | `DeleteInstanceFromConfigMap`, each of which can fail (`config_map.go:311-323`) |
| `DeleteMarkDown` | `ins.Status = DOWN` (`pod.go:175`) |
| `ShutDown` | `StartMonitor` returns (`pod.go:97`) |

A pod is one of: absent; without one of the three labels; without container
statuses; not ready; ready, with the id its address gives it.  These are the
cases `syncHandler` tells apart.  `IdsOf` says which ids a pod of a name can
have, so that an instance of the model can let addresses be reused
(`SharedIds`, `OneId`) or not (`OwnIds`).  At most one pod in the cache is
ready at an address.  The branch of `syncHandler` that returns an error to
retry is not there: the lister reads a local index and fails only with
NotFound.

**`KeyedWork`** is the promise without queue or delay: a key announced while
the monitor is open stays announced until a worker starts on it, and no two
workers are on one key.  `PodMonitor` and `ConfigMonitor` implement it with
`announced` the keys waiting or dirty, `current` the key each worker holds.
What is there when the informer first lists it is announced from the start.

**`EurekaService`** has the threads of the HTTP service and what else touches
the same state.  A thread's `step` names the call it makes next, so that any
other thread can run between two calls of one handler:

| Actions | Code |
|---|---|
| `Register`, `StoreLoadInstance`, `StoreLoadCustom`, `StoreCustomKey`, `StoreCustomInstance` | `Register` and the three branches of `StoreCustomApp` (`eureka_server_service.go:76-149`) |
| `StorageGetCM`, `StoragePutCM` | `StorageCustomAppToConfigMap` (`:151-176`) |
| `Delete`, `DelGetCM`, `DelPutCM`, `DelLoadKey` ... `DelDropInstance` | `Delete`, and `DeleteInstance` of `custom/<id>` (`:178-201`) |
| `UpdateMateData`, `MetaGetCM` ... `MetaPutCM` | `UpdateMateData` of one instance (`:260-345`) |
| `InitGetCM`, `InitNext`, `InitPutCM` | `InitCustomAppFromConfigMap` (`:203-240`); an entry it keeps goes through the same `StoreCustomApp` |
| `ReadLoad`, `ReadStore` | an iteration of the loop that copies `CustomInstanceStore` into `InstanceStore` (`repository/pod.go:66-71`, `111-116`, `131-136`) |
| `UpdateStart` ... `UpdateEnd` | `updateInstance` (`config_map.go:325-359`): `UpdateRange` is one id of the `Range` over `CustomInstanceStore`, which others may change between two of them |

An entry of the config map is the instance as JSON: it has no identity, so
`Entry` sets `object` to 0 and `Parsed` gives the structure that is made from
it a number.  `EditCopy` is the assignment to `configMap.Data`, which panics
where the config map has no data.  A `sync.Map` may be changed while it is
ranged over; `ReadLoad` takes any entry that is there at the moment, in any
order, which is at least what `Range` can do.  An Update that is answered with
an error may have been carried out, of a deletion as of a registration.

**`RegisterServer`** puts both beside each other on one registry and one config
map, adds other replicas (`Foreign`) and crashes (`Restart`: memory, queues and
threads start anew, the config map and the cluster stay), and lets the server
listen only after start-up, as `PreparedRegisterServer.Run` does.  The monitors
run before that, as in `cmd/server.go`.  Structures are numbered with the least
number not in use, because one that nothing refers to cannot be told from a new
one; this keeps the state space finite without a bound on requests.

**`PropertyTree`** has the pure operations of the config service.  A tree is a
function from names to leaves or trees, and a name a sequence of words, because
a key of YAML can have dots in it and `a.b` comes to the same property as `b`
below `a`.

| Operator | Code |
|---|---|
| `recursiveAdd`, `recursiveAddAndUpdate`, `UpdatePanics` | the merges of `processProperty` (`config_service.go:412-477`) |
| `WithoutRoutes`, `RouteTree`, `SeparatePanics` | `separateRoute` (`:479-502`) |

The references (`IsAdd`, `IsUpdate`) are stated over the paths of a tree and
use none of these.  What an update asks for at a path is `Wanted`: what the new
tree has where it has a value, a map or something the old tree lacks.  The code
does not always do that: a key whose value is null stays so, and a map stays
where a leaf is asked for.  `IsUpdate` names these exceptions (`Stays`) and is
what holds of the code; `UpdateTakesAll`, without them, is what the comments on
`processProperty` and `mergeProperty` say, and fails.  Everything recursive is a
recursive function, on the trees at most `MaxDepth` levels deep, so that it can
be proved about.

**`ProfileMerge`** is the YAML of one profile, to which one request after the
other adds or in which it updates; its invariants say that every merge of
whatever the profile has become agrees with its reference, and what they say of
flattening is about that YAML.

**`FlatProperties`** has what is served:

| Operator | Code |
|---|---|
| `ConvertRecursiveMapToSingleMap`, `visits` | the flattening of `convertor.go`, as the set of outcomes over every order in which the map may be ranged over |
| `processZuulRoot`, `itemsOf` | the properties of `zuul-route`: a list is handed out item by item, an item that is a map key by key, to any depth (`config_service.go:353-374`) |
| `ZuulPanics` | an item without a value in such a list, for which `reflect.TypeOf` has no kind (`:363`) |
| `appendConfigServerAddition` | the properties every service is served, over whatever it has (`:376-380`) |
| `GatewayProperties` | what `Poll` answers a gateway (`:319-334`) |

Its references are `IsFlat` for the flattening and `Saved` for the answer to a
gateway.  An element of the recursion of `visits` is a tree and those of its
names that are still to come: which one comes next is open, and of two keys
that come to one property the later one wins (`Both`).  An answer is a set of
pairs of a property and its value; if two keys of one map in a list came to one
property both pairs would be in it, as either can win.  `Saved` goes by what was
saved alone: it is the value on every path of the tree, and for a list among
the routes the value at every place in it (`placesIn`, `valueAt`), a place being
a sequence of an index and a key each.  It uses no operator that flattens,
splits or hands out.

**`ConfigService`** has the config maps at the API server and the requests, each
a sequence of calls:

| Actions | Code |
|---|---|
| `Save` | `Save`: the YAML is read and, for `api-gateway`, split in two |
| `Query`, `Create`, `Created`, `Update`, `Updated` | `createOrUpdateConfigMap`, a call to the API server each, and the store into `appNamespace` after it; the second half of a gateway's save follows whatever became of the first |
| `Poll`, `EditRoute` | the beginning of `Poll`, and of `AddOrUpdate` and `Delete`, which differ in what they do to the route |
| `Load`, `GetCached`, `Scan`, `ScanFails`, `StoreFound` | `QueryConfigMapByName` and `QueryConfigMapAndNamespaceByName`: the namespace on record first, then the registered ones in turn |
| `Foreign` | somebody with access to the cluster creates, changes or deletes a config map |

A call that fails may have been carried out all the same.  A handler that
writes a second status keeps the first (`Answered`), as `net/http` does.  `wrote`
and `steady` are history: what a request put where, and where the config map
it looks for was all the time.

**`ConfigMonitor`** is built like `PodMonitor`:

| Action | Code |
|---|---|
| `Created`, `Updated`, `Deleted` | a cache change and `enqueueConfigMap` (`config_map.go:66-80`, `112-120`) |
| `AddReady` | the delay ends |
| `Get`, `Exit`, `Done` | `processNextWorkItem` (`:127-147`) |
| `SyncHandler`, `Forget`, `LoadHash`, `StoreHash`, `Notify` | `syncHandler`: the read, and each call on the hash cache and the channel (`:149-190`) |
| `Take`, `Spawn` | the notifier's goroutine (`:93-108`) |
| `Call`, `Answer` | `notifyRefresh`, one request after the other (`:202-229`) |
| `Fetch` | an instance polls its configuration: told to, before it registers, or when it likes |
| `Register`, `Leave` | instances come into the registry and leave it (`repository/pod.go:25-54`, call by call in `PodMonitor`) |
| `ShutDown` | `StartMonitor` returns |

A hash is the content and the order in which the entries were joined
(`Sha256Map` ranges over a Go map), so one content can have several hashes and
a config map that did not change can cause a notice.  The data of a config map
is one of `Contents`; a change may bring back what was there before, and then
its hash can be the one on record.  `held` is what an instance's last poll found
in each config map that concerns it (`Concerns`), and an instance is owed a
notice (`Owed`) if the config map has something else.  The server does not know
what instances hold; all it compares with is the hash it last recorded.  `apart`
is the history this takes: the concerns of which what the instance holds was
not on record when it polled, or when it came into the registry, and over which
nothing was recorded since.  `OwedIsOnTheWay` and `OwedIsTold` are about all
others.  Those in `apart` can be missed: if A is on record, the content becomes
B, an instance polls B, and A is back before a worker handles the key, the
hashes are equal, nobody is notified, and the instance keeps B.  The model has
this behaviour, and without the exception neither property holds.

The register config map is one of the keys outside `Watched`: `syncHandler`
hands it to `updateInstance`, which `EurekaService` has.

**`ConfigFeed`** is the promise of the notices: they come out in order from a
channel that never holds more than it can, and a config map never causes more
of them than it had changes.  It has the config maps themselves (`maps`): a
notice is made `due` by a change of one and by nothing else, and a notice uses
it up.  `ConfigMonitor` implements it with `due` the number of places at which a
key is waiting, dirty or in the hands of a worker that may still notify, so that
a queue that put back a key nobody announced would break it.

**`MCPodMonitor`**, **`MCRegisterServer`**, **`MCPropertyTree`**,
**`MCConfigService`** and **`MCConfigMonitor`** give TLC their constants.

Definitions called "faulty variant" are what the code would be with a
plausible mistake (no check for a key in hand, a missing handler, an Update
without a version).  No specification uses them: each property is checked to
fail when one of them takes the place of the real definition.

## 4. The runs

| Run | Specification and bounds | What it shows |
|---|---|---|
| `pod_monitor` | two workers, two pods, ids shared, 4 changes, shutdown at any time | the queue stays well formed, the registry follows the cache, every instance has an owner, workers stop only with an empty queue, removals from the config map do not undo each other |
| `pod_monitor_live` | an id per pod, missed deletions of one pod, 3 changes, fairness | a registered pod is served; `KeyedWork` is implemented; announced keys are handled, the registry converges but for what was missed, workers stop |
| `pod_monitor_tombstone` | missed deletions | `KeyFollowsPod` fails |
| `register_server` | one handler, two requests of any kind, a pod that changes twice, deletions the watch misses, calls to the API server that fail | types; nobody who writes the config map undoes another's write |
| `register_server_live` | a registration, a write by another replica, a crash at any point, a config map that starts with a client's instance or a dead pod's; fairness | memory settles to the config map |
| `register_server_served` | a registration or a metadata request at any id, a reader, a crash, failing calls; fairness | a ready pod is served |
| `register_server_removed` | a reader, a deletion by another replica, fairness | `RemovedIsForgotten` fails |
| `property_tree` | at the start all trees two levels deep over two names and a name with a dot, or a gateway's configuration with lists that hold lists, maps, and maps with lists; additions and updates of it | merging (with the exceptions of `Stays`), splitting, flattening and the answer to a gateway agree with their references |
| `property_tree_update` | the YAML `a: {a: null}`, `a.b: [...]` | `UpdateTakesAll` fails |
| `config_service` | two handlers, two requests of sixteen kinds of save, edit and poll, a foreign change, failing calls | the gateway's config map never gets routes, an answer of 200 means everything was written, what is there is found, `not` touches nothing, edits and additions that nobody raced are exact |
| `config_monitor` | two workers, two watched config maps, two contents, any of them held at the start, a channel of one name, an instance that comes, goes and polls, 2 changes | the record follows the config map, what is owed is on its way, `KeyedWork` and `ConfigFeed` are implemented |
| `config_monitor_live` | two instances, one of which never answers, 3 changes, a shutdown at any time, fairness | workers do not wait for ever on the channel; instances are told, unless behind one that hangs |

Bounds.  In the runs of `RegisterServer` one pod has the id `i1`, and `i2` is an
id only clients register, so that requests can be about a pod's address or not.
There is one worker: two of them are the matter of `PodMonitor`'s runs, and the
proofs.  One handler is beside start-up, the worker, `updateInstance` and the
reader or the replica, which write the same things as a second handler.

In the runs of `PodMonitor` there are the two workers the code starts.  Two
pods are the least at which workers act at once on different keys and addresses
pass from one to the other; a third adds no kind of interference, since every step reads at most
one key and one id.  Four changes allow a pod to be registered, deleted,
recreated and deleted again while a worker is anywhere; what depends on more
of them is left to the proofs, which have no bounds.  `RegistryConverges` and
`RegisteredIsServed` are checked with an id per pod, as neither holds where an
address passes from one pod to another.

In `property_tree` two levels are what it takes for a map to meet a map, a leaf
and nothing, below a key that is in both trees; deeper ones repeat it.  In
`config_service` two handlers with one request each, or one with two, are
enough for a request to come between any two calls of another; the foreign
change adds a third party.  Its saves have each policy, a gateway's with
routes, and YAML that is a list, null or broken.  In `config_monitor` the
channel of one name is full whenever anything is in it, and two workers can
want it at once (the code starts three); the proofs have any number of workers
and any capacity.  Two contents are what it takes for one to be replaced and to
come back, which two changes allow; the instance may hold either, or neither, at
the start, as one does that polled another server or an earlier one.  A config
map in a namespace that is not registered is left to the proofs.  `Orders` is the two orders of
two entries.  `MaxRefreshers` is at least the number of notices there can be,
so that it never limits.

Runs that check safety use the symmetry of the workers or handlers; the live
ones do not.  Deadlock is checked in no run, since a bounded number of changes,
or a shutdown, lets the system come to rest.

Fairness.  `FairSpec` of `PodMonitor` assumes weak fairness of each worker (a
goroutine in a loop that the Go scheduler runs) and of the end of each delay (a
timer).  Nothing is assumed of pods or of the shutdown.  That of
`ConfigMonitor` assumes the same, and that the notifier and the goroutines it
starts run and that an instance that was told polls, as Spring Cloud's refresh
does; an instance in `Hung` never answers, and nothing is assumed of changes,
of instances that come and go, or of the shutdown.  A call to the API server
returns in the end, with success or failure; failure is always possible.

`FairServerSpec` assumes the same of every goroutine that has begun: a handler
goes on with its request, start-up with its loop, a reader stores what it
loaded, `updateInstance` is run when it is announced.  Clients, other replicas,
pods and crashes come when they please and are bounded.  `MemorySettles` is
checked without failing calls, as a call that fails leaves a registration in
memory alone, which the code answers with 500; and without deletions, because
a registration that runs between the two halves of a deletion of its id is
written to the config map and then dropped from memory.  `ReadyPodIsServed`
leaves deletions out for a similar reason: a deletion of an id registered
before a pod became ready at that address also removes the pod's instance.
Both are listed under `hazards`.

The three runs that end in a violation are disagreements between the code and
what the repository's `README.md` or its comments say of it, and are described
in `PROJECT.json` under `findings`:

1. the tombstone of a missed deletion has no key for `MetaNamespaceKeyFunc`, so
   the registry keeps the pod (`pod.go:70`; the config map monitor uses the
   function made for it at `config_map.go:115`);
2. `updateInstance` removes a deleted instance from `CustomInstanceStore` but
   not from `InstanceStore`, where a read has copied it (`config_map.go:347`);
3. a save with the policy `update` panics where it finds a list and has a list,
   in the comparison of the two, and drops its value without a word where the
   old one is null, or is a map and the new one is not
   (`config_service.go:470`).

The models have other behaviours that nothing in the repository speaks of, and
that the properties therefore leave out; each is listed under `hazards` with a
note: a pod recreated at another address that keeps its old entry, a late
deletion that removes the pod that was given the address since, a start-up
whose Update of the config map is refused, a metadata request that panics on an
empty config map, a `zuul-route` that a save leaves without routes and on which
every edit panics, a list of `zuul-route` with an item that has no value, on
which every poll of a gateway panics, an instance that polls before a change and
registers after the notifier has looked who is there, a change that an instance
polls and that is taken back before a worker sees it.  Of notices the change log
(`CHANGELOG.zh-CN.md:55`) says only that services are notified of changes.

## 5. The proofs

`WorkQueueProofs` has the facts about the queue's operations; `PodMonitorProofs`
proves about `PodMonitor`, `ServerProofs` about `RegisterServer`,
`ConfigMonitorProofs` about `ConfigMonitor`, `PropertyTreeProofs` and
`ProfileMergeProofs` about the merges, the flattening and the split, and `ConfigServiceProofs` about
`ConfigService`, for any sets of pods, ids, config maps, workers, handlers,
readers and trees:

| Theorem | States | Argument |
|---|---|---|
| `TypeCorrect`, `QueueCorrect` | `TypeOK`, `QueueOK` | the invariant `WorkInv`: types, a well-formed queue, and *the processing keys are exactly the keys workers hold, each held by one*. The last part is what keeps two workers off one key, and without it `Done` could remove a key another worker still holds |
| `StopsDrained` | `StoppedIsDrained` | a worker that stopped saw an empty queue under a shutdown, after which only `Done` adds to it, by a worker that has not stopped |
| `ImplementsKeyedWork` | `KeyedWorkSpec` | each action maps to one of `KeyedWork` or to a stutter, given `WorkInv` |
| `RegistryFollowsCache` | `KeyFollowsPod`, if the watch misses no deletion | an invariant that says of a key in hand what the worker is about to do to it: unless the key is announced again, the outcome of the worker's path agrees with the cache |
| `InstancesAreOwned` | `InstanceIsOwned` | inductive with `WorkInv`: a key is dropped only by the worker that will drop the instance |
| `RegisteredPodsAreServed` | `RegisteredIsServed`, if no two pods share an id | an instance can be removed only by the worker that holds its pod's key |
| `EntriesStayRemoved` | `RemovedEntryStaysRemoved` | a worker's copy agrees with the config map as long as its version is current |
| `ServerTypeCorrect` | `ServerTypeOK` | the invariant `ServerInv`: `WorkInv`, which a step of the service keeps because it leaves the monitor's variables alone, and what each thread holds at each of its steps (`HasId`, `HasInstance`): a thread that is about to store has an id, and a structure of its own number |
| `EntriesIsolated` | `EntriesAreIsolated` | the invariant `IsolInv`: every copy of the config map in someone's hands (a worker's, a request's, start-up's) is no newer than the map, and where it has the map's version it agrees with it, but at the id for which its holder has edited it. Hence an Update that is not refused changes nothing else. A copy is taken many steps before it is used, so this has to be kept by every step of everyone else, which either leaves the map alone or gives it a new version (`Advances`) |
| `MonitorTypeCorrect`, `MonitorImplementsKeyedWork` | `MonitorTypeOK`, `MonitorKeyedWork` | `ConfigMonitorProofs` has a `WorkInv` of its own, of the same three parts; a worker that waits for the channel keeps its key |
| `MonitorImplementsFeed` | `FeedSpec` | a change can be due in three places (waiting, dirty, a worker's hands); a key moves from one to the next, at most one worker holds it, so that no step but a change of the config map makes more due (`DueChange`, `DueSame`), and only `Notify` turns what is due into a notice |
| `RecordCorrect` | `RecordFollowsMap` | `RecordInv` adds to `WorkInv` that a worker beyond its read holds a watched key (`Watching`), that nobody but the worker of a key writes the hash of its name (`Alone`), and that a key is at rest with the right hash, announced, or in the hands of a worker that read what it still holds and has yet to record it (`Followed`). Without `Alone` a late store could undo a newer one |
| `OwedCorrect` | `OwedIsOnTheWay` | `OwedInv` adds that for every registered instance and config map not in `apart` (`Noticed`) a hash is on record, and it is that of what the instance holds, or the notice has left the worker, or the worker is about to give it. Where the instance holds something else than the config map, and nothing is under way, the record would then differ from the config map, which `RecordFollowsMap` excludes for a key at rest. That contents come back does no harm to this: what counts is what is held and what is recorded, not which change they are from |
| `AddExact`, `UpdateExact` | `IsAdd` of what `recursiveAdd` makes of any two trees, `IsUpdate`, with its exceptions, of `recursiveAddAndUpdate` where it does not panic | induction on the depth of the trees, in which a path is walked name by name; see below |
| `OnlyAdds`, `TakesValues` | `AddOnlyAdds`, `UpdateTakesValues` | the YAML stays a tree, as a merge of two trees of a depth is one of that depth; then the two above |
| `FlatteningExact` | `FlatteningKeepsAll` | induction on the level of the tree and the number of names to come (`VisitsAreFlat`): every outcome has the properties of the paths through the names that were visited, each with the value of such a path. If no property is spelled in two ways, any two outcomes agree (`OneOutcome`); that there is one at all is part of the same induction |
| `ServedIsKept` | `AddKeepsServed` | an addition keeps every path with a value (`AddOnPaths`, of which `AddExact` is made), and an outcome for a tree that is unambiguous has the value of just that path; what every service is served lies over both |
| `SplitServed` | `SplitIsServed` | the paths with a value of the tree are those of its two halves, below `zuul` and `routes` or not (`ValuesSplit`); without routes spelled with dots these are the properties that begin so and the others (`RouteIsRouted`), so that `Poll` deletes nothing of the one and overwrites nothing of it with the other. What it hands out of a list is what is at the places of the list (`ItemsArePlaces`, by induction on the depth of a list, and `HandedOut`), below the property of the list (`AfterRoute`) |
| `ConfigTyped` | `ConfigTypeOK` | the invariant `ServiceInv`, described below |
| `SaveIsWritten` | `SavedIsWritten` | in `ServiceInv` (`WroteOK`): a request that has answered nothing wrong has written all it is past, so that the answer 200 is given when nothing is left |
| `PresentFound` | `PresentIsFound` | in `ServiceInv` (`SteadyOK`): a config map that was in a registered namespace all the time is in one the search has yet to come to |
| `EditsAreExact`, `AddsAreExact` | `EditIsExact`, `AddIsExact` | in `ServiceInv` (`MergedOK`): what an Update writes was made from what the request found. A write that nobody raced is the request's own Update (`OwnSteps`, `UnracedWrites`), and what it found is there still; then what an edit does to a tree (`EditTyped`), and `AddExact` |
| `NotKeeps` | `NotKeepsExisting` | in `ServiceInv` (`WritesOK`): a request with the policy `not` never comes to an Update, and a Create writes only where nothing is |
| `GatewayFree` | `GatewayHoldsNoRoutes`, if nobody else writes routes into a gateway's config map (`OthersWriteNoRoutes`) | the invariant `RoutesInv`: neither a config map of a gateway nor what a request holds for one has routes, through the split, the two halves of a save and every merge (`MergesMakeNoRoutes`). A request holds a copy over many steps, so this is about what is in its hands as much as about what is stored |

A function TLA+ defines by recursion is some function that satisfies its
equation if there is one, so that nothing is known of `recursiveAdd` until
there is.  `Recursion` proves that there is one if the value at an element
depends on elements that rank below it, a number of levels here
(`Defined`, by approximations up to each rank, any two of which agree), and
states induction as a fact about a set of numbers (`Induction`), because the
provers cannot instantiate a theorem about an operator.  Its parameters are
constants of the module, and `PropertyTreeProofs` takes an instance for each
function: the trees of a depth, both merges, the walk along a path and the
paths of a tree, and `ProfileMergeProofs` for the property of a path and for
the flattening.  The latter goes down to the trees below a name and on to the
same tree with a name less, so that its rank is the tree's level times one more
than the number of names, plus the names that are to come; this is why
`NameAssumption` wants a finite set of names.

`ServiceInv` says of each handler what it holds at each of its steps
(`TaskOK`), that a save with a second half is at its first, which is about the
routes (`HalvesOK`), which kinds of request can be at which call (`WritesOK`),
and what an Update writes is made of (`MergedOK`).  None of the properties is
inductive by itself: each is about the moment a request writes or answers, and
what it writes was decided calls before, while other handlers and other people
wrote the same config maps.  `ServiceInv` is kept by each action in a lemma of
its own (`QueryKeeps`, `ScanKeeps`, ...), over the lemmas on what a handler is
after it decided (`DecidedOK`), used what it found (`UsedOK`) and finished a
half (`HalfDoneOK`).

The assumptions are those of the modules (`RepositoryAssumption`,
`InstanceAssumption`, `MonitorAssumption`, `ServiceAssumption`,
`ServerAssumption`, `ConfigMonitorAssumption`, `ValuesAssumption`,
`HeldAssumption`, `TreeAssumption`, `NameAssumption`, `ListAssumption`, `ProfileAssumption`) and the three named in the table, of
which TLC evaluates `OthersWriteNoRoutes` with the constants of
`config_service`.  No proof uses how many workers, pods or handlers there
are, the capacity of the channel, how deep a configuration is, or the value of
a bound on changes, requests or restarts.

Only model-checked are the liveness properties (`AnnouncedIsHandled`,
`RegistryConverges`, `WorkersStop`, `MemorySettles`, `ReadyPodIsServed`,
`NotifyReturns`, `OwedIsTold`), which are out of the prover's reach; every
invariant and every action property that a passing run checks is proved.
The theorems
of `PodMonitorProofs` are about the monitor by itself: beside the HTTP service,
which can delete a pod's instance, `InstanceIsOwned` and `RegisteredIsServed`
would be other properties.

## 6. What is left out

Not modelled:

- Third-party code but for the work queue: the other vendored libraries and the
  page's bundled script (`static/js/wro.js`).
- The HTML page, log output, metrics, flags and the settings file, the creation
  of the clients (once, in one goroutine, ending the process if it fails).
- In `PodMonitor` and `RegisterServer`: the contents of an instance beyond what
  is named above; time.  `PodMonitor` by itself is about a server to which
  nobody registers anything over HTTP while it runs; entries the config map
  held at the start are in its initial states.
- In `RegisterServer`: a server whose config server is disabled, in which
  `updateInstance` never runs; the queue's shutdown, which ends the process
  there; the creation of the config map at a first start; entries that are not
  JSON, at which start-up and `updateInstance` return; metadata requests that
  name several instances; the delay between the API server and the informer's
  cache of pods, so that start-up asks the same state the monitor sees.
- In `ConfigMonitor`: the delay between the API server and the informer's cache
  of config maps: an instance that polls is given what the cache has, where the
  code asks the API server; that two contents could join to one text, as
  `Sha256Map` puts nothing between entries, so that a change between them would
  go unseen; addresses that make no URL, for which `notifyRefresh` dereferences
  nil.  `registered` stands
  for the instances that are in the registry with the status UP.  Two config
  maps of one name in two registered namespaces are in the model, but
  `RecordFollowsMap` and `OwedIsOnTheWay` are about names that are unique there:
  the hash is kept by name, and neither holds of shared ones.
- In `ConfigService`: the answer of a poll and the panic of `ZuulPanics`, which
  `FlatProperties` has (a handler that panics there is at its end and has
  written nothing); the contents of routes but for their path, the version and
  profile labels of an answer, `mergeProperty`, which nothing calls.
