---------------------------- MODULE ConfigService ----------------------------
(***************************************************************************)
(* The config service (pkg/api/service/config_service.go) over the config  *)
(* maps at the API server: requests that save a configuration, add or      *)
(* remove a route of zuul-route, and poll a configuration, each a sequence *)
(* of calls between which other requests, and people with access to the    *)
(* cluster, change the same config maps.                                   *)
(***************************************************************************)
EXTENDS PropertyTree

CONSTANTS
    Handlers,       \* threads of the HTTP service
    Services,       \* names of config maps
    RouteConfigMap, \* "zuul-route"
    ApiGateway,     \* "api-gateway"
    GatewayNames,   \* the services that are served zuul-route's routes
    Namespaces,     \* of the cluster
    Registered,     \* the sequence register.service.namespace
    NoNamespace,
    Profiles, DefaultProfile,
    NoYaml,         \* no entry for a profile, or an empty one
    NullYaml,       \* YAML that reads as no map: "null", a comment
    BadYaml,        \* text that is not the YAML of a map
    NoMap,          \* no config map of this name
    StartMaps,      \* what there can be at the start
    Saves,          \* what clients save
    Edits,          \* the routes they add or remove
    ForeignYaml,    \* what other people write into a new config map
    ApiErrors,      \* a call to the API server can fail at any time
    MaxRequests, MaxForeign     \* bounds on requests and on others' changes

Keys == Services \X Namespaces
Texts == {NoYaml, NullYaml, BadYaml}
Policies == {"not", "add", "update", "override"}

PathNode == <<"path">>

Yamls == Texts \cup Trees

(* A config map has YAML for each profile.                                 *)
Data == [Profiles -> Yamls]

ASSUME ServiceAssumption ==
    /\ RouteConfigMap \in Services /\ ApiGateway \in GatewayNames
    /\ GatewayNames \subseteq Services \ {RouteConfigMap}
    /\ Registered \in Seq(Namespaces) /\ NoNamespace \notin Namespaces
    /\ DefaultProfile \in Profiles
    /\ PathNode \in Names /\ MaxDepth >= 3
    /\ \A y \in Texts : y \notin Trees
    /\ NoYaml # NullYaml /\ NoYaml # BadYaml /\ NullYaml # BadYaml
    /\ NoMap \notin Data
    /\ StartMaps \subseteq [Keys -> Data \cup {NoMap}] /\ ForeignYaml \subseteq Yamls
    /\ Saves \subseteq [service : Services, namespace : Namespaces, profile : Profiles,
                       policy : Policies, yaml : Yamls]
    /\ Edits \subseteq [name : Names, path : (Leaves \ {Nil}) \cup {NoKey}]
    /\ ApiErrors \in BOOLEAN /\ MaxRequests \in Nat /\ MaxForeign \in Nat

VARIABLES
    configMaps,     \* by service and namespace: the YAML of each profile
    appNamespace,   \* where the operator last found or wrote a config map
    task,           \* what each handler is doing
    wrote,          \* the YAML each task has put into each config map
    steady,         \* the registered namespaces where the map a handler looks
                    \* up was all the time, with no call to them that failed
    requests, foreign

vars == <<configMaps, appNamespace, task, wrote, steady, requests, foreign>>
bounds == <<requests, foreign>>

(* newV1ConfigMap: a config map with one profile.                          *)
newV1ConfigMap(profile, yaml) ==
    [p \in Profiles |-> IF p = profile THEN yaml ELSE NoYaml]

(* yaml.Unmarshal into a map.                                              *)
Tree(yaml) == IF yaml \in Texts THEN EmptyTree ELSE yaml

NoWrites == [s \in Services |-> NoMap]

Idle == [at |-> "idle", kind |-> "none", dto |-> NoMap, rest |-> <<>>,
         found |-> NoMap, name |-> RouteConfigMap, namespace |-> NoNamespace,
         next |-> 1, answer |-> "none"]

Init ==
    /\ configMaps \in StartMaps
    /\ appNamespace = [s \in Services |-> NoNamespace]
    /\ task = [t \in Handlers |-> Idle]
    /\ wrote = [t \in Handlers |-> NoWrites]
    /\ steady = [t \in Handlers |-> {}]
    /\ requests = 0 /\ foreign = 0

-----------------------------------------------------------------------------
At(t, label) == task[t].at = label

(* Faulty variant: the last status a handler writes is sent.               *)
AnsweredLast(task_t, answer) == [task_t EXCEPT !.answer = answer]

(* The first status a handler writes is the one that is sent.              *)
Answered(task_t, answer) ==
    [task_t EXCEPT !.answer = IF @ = "none" THEN answer ELSE @]

Ended(task_t) == [task_t EXCEPT !.at = "idle"]

(* One config map is done with: the next, if the request has another.      *)
HalfDone(task_t, answer) ==
    IF task_t.rest = <<>> THEN Ended(Answered(task_t, answer))
    ELSE [(IF answer = "ok" THEN task_t ELSE Answered(task_t, answer))
            EXCEPT !.at = "query", !.dto = Head(task_t.rest), !.rest = Tail(@)]

Become(t, task_t) == task' = [task EXCEPT ![t] = task_t]

Panicked(task_t) == [Ended(task_t) EXCEPT !.answer = "panic"]

Begin(t, task_t) ==
    /\ At(t, "idle")
    /\ requests < MaxRequests
    /\ requests' = requests + 1
    /\ Become(t, task_t)
    /\ wrote' = [wrote EXCEPT ![t] = NoWrites]
    /\ UNCHANGED <<configMaps, appNamespace, foreign>>

(* The config maps of this name a lookup that begins now has to find.      *)
Present(s) ==
    {Registered[n] : n \in {m \in DOMAIN Registered :
                                configMaps[<<s, Registered[m]>>] # NoMap}}

-----------------------------------------------------------------------------
(* Save.  The routes of api-gateway go to the default profile of           *)
(* zuul-route, first; what separateRoute leaves of the map it was given is *)
(* saved second, whatever became of the first.                             *)
Dto(s, source, text) ==
    [service |-> s.service, namespace |-> s.namespace, profile |-> s.profile,
     policy |-> s.policy, source |-> source, text |-> text]

RouteDto(s) ==
    [Dto(s, RouteTree(Tree(s.yaml)), RouteTree(Tree(s.yaml)))
        EXCEPT !.service = RouteConfigMap, !.profile = DefaultProfile]

(* Faulty variant: the gateway's part is split from a copy.                *)
GatewayDtoOfCopy(s) ==
    IF s.yaml \in Texts THEN Dto(s, EmptyTree, NullYaml)
    ELSE Dto(s, s.yaml, WithoutRoutes(s.yaml))

GatewayDto(s) ==
    IF s.yaml \in Texts THEN Dto(s, EmptyTree, NullYaml)
    ELSE Dto(s, WithoutRoutes(s.yaml), WithoutRoutes(s.yaml))

SaveBegun(s) ==
    LET begun == [Idle EXCEPT !.at = "query", !.kind = "save"] IN
    IF s.yaml = BadYaml THEN [Idle EXCEPT !.kind = "save", !.answer = "badRequest"]
    ELSE IF s.service # ApiGateway THEN [begun EXCEPT !.dto = Dto(s, Tree(s.yaml), s.yaml)]
    ELSE IF SeparatePanics(Tree(s.yaml))
    THEN [Idle EXCEPT !.kind = "save", !.answer = "panic"]
    ELSE [begun EXCEPT !.dto = RouteDto(s), !.rest = <<GatewayDto(s)>>]

Save(t, s) == Begin(t, SaveBegun(s)) /\ UNCHANGED steady

(* processProperty, where the profile has YAML: what cannot be read as a   *)
(* map comes out empty; a map that is nil cannot be added to.              *)
MergePanics(dto, old) ==
    \/ old = NullYaml /\ dto.source # EmptyTree
    \/ dto.policy = "update" /\ UpdatePanics(Tree(old), dto.source)

processProperty(dto, old) ==
    IF old = BadYaml THEN NoYaml
    ELSE IF old = NullYaml THEN NullYaml
    ELSE IF dto.policy = "add" THEN recursiveAdd(old, dto.source)
    ELSE recursiveAddAndUpdate(old, dto.source)

(* Faulty variant: "not" is taken for a config map that was just created.  *)
DecidedCreatedOnly(task_t, data) ==
    LET dto == task_t.dto
        old == data[dto.profile]
        merges == dto.policy \in {"add", "update"} /\ old # NoYaml
    IN  IF dto.policy = "not" /\ task_t.at = "created" THEN HalfDone(task_t, "notModified")
        ELSE [task_t EXCEPT !.at = "update", !.found = data,
                            !.dto.text = IF merges THEN processProperty(dto, old) ELSE @]

(* What createOrUpdateConfigMap does with the config map it has.           *)
Decided(task_t, data) ==
    LET dto == task_t.dto
        old == data[dto.profile]
        merges == dto.policy \in {"add", "update"} /\ old # NoYaml
    IN  IF dto.policy = "not" THEN HalfDone(task_t, "notModified")
        ELSE IF merges /\ MergePanics(dto, old) THEN Panicked(task_t)
        ELSE [task_t EXCEPT !.at = "update", !.found = data,
                            !.dto.text = IF merges THEN processProperty(dto, old) ELSE @]

KeyOf(t) == <<task[t].dto.service, task[t].dto.namespace>>

(* QueryConfigMap: an error is taken for a config map that does not exist. *)
Query(t) ==
    /\ At(t, "query")
    /\ \/ /\ configMaps[KeyOf(t)] # NoMap
          /\ Become(t, Decided(task[t], configMaps[KeyOf(t)]))
       \/ /\ configMaps[KeyOf(t)] = NoMap \/ ApiErrors
          /\ Become(t, [task[t] EXCEPT !.at = "create"])
    /\ UNCHANGED <<configMaps, appNamespace, wrote, steady, bounds>>

(* A call that fails may have been carried out all the same.               *)
Write(t, answered) ==
    LET data == newV1ConfigMap(task[t].dto.profile, task[t].dto.text) IN
    /\ configMaps' = [configMaps EXCEPT ![KeyOf(t)] = data]
    /\ wrote' = IF answered
                THEN [wrote EXCEPT ![t][task[t].dto.service] = data] ELSE wrote

Fail(t) == Become(t, HalfDone(task[t], "error"))

Create(t) ==
    /\ At(t, "create")
    /\ \/ /\ configMaps[KeyOf(t)] = NoMap
          /\ Write(t, TRUE)
          /\ Become(t, [task[t] EXCEPT !.at = "created",
                            !.found = newV1ConfigMap(task[t].dto.profile,
                                                    task[t].dto.text)])
       \/ ApiErrors /\ configMaps[KeyOf(t)] = NoMap /\ Write(t, FALSE) /\ Fail(t)
       \/ /\ ApiErrors \/ configMaps[KeyOf(t)] # NoMap
          /\ Fail(t)
          /\ UNCHANGED <<configMaps, wrote>>
    /\ UNCHANGED <<appNamespace, steady, bounds>>

StoreNamespace(t) ==
    appNamespace' = [appNamespace EXCEPT ![task[t].dto.service] = task[t].dto.namespace]

Created(t) ==
    /\ At(t, "created")
    /\ StoreNamespace(t)
    /\ Become(t, Decided(task[t], task[t].found))
    /\ UNCHANGED <<configMaps, wrote, steady, bounds>>

(* UpdateConfigMap: the map is replaced by one with this profile, whatever *)
(* its version.                                                            *)
Update(t) ==
    /\ At(t, "update")
    /\ \/ /\ configMaps[KeyOf(t)] # NoMap
          /\ Write(t, TRUE)
          /\ Become(t, [task[t] EXCEPT !.at = "updated"])
       \/ ApiErrors /\ configMaps[KeyOf(t)] # NoMap /\ Write(t, FALSE) /\ Fail(t)
       \/ /\ ApiErrors \/ configMaps[KeyOf(t)] = NoMap
          /\ Fail(t)
          /\ UNCHANGED <<configMaps, wrote>>
    /\ UNCHANGED <<appNamespace, steady, bounds>>

Updated(t) ==
    /\ At(t, "updated")
    /\ StoreNamespace(t)
    /\ Become(t, HalfDone(task[t], "ok"))
    /\ UNCHANGED <<configMaps, wrote, steady, bounds>>

-----------------------------------------------------------------------------
(* Poll, AddOrUpdate and Delete look a config map up by its name:          *)
(* QueryConfigMapByName and QueryConfigMapAndNamespaceByName.              *)
LookFor(t, s, task_t) ==
    /\ steady' = [steady EXCEPT ![t] = Present(s)]
    /\ Begin(t, [task_t EXCEPT !.at = "load", !.name = s])

Poll(t, s, profile) ==
    LookFor(t, s, [Idle EXCEPT !.kind = "poll", !.dto = [profile |-> profile]])

EditRoute(t, edit) ==
    LookFor(t, RouteConfigMap, [Idle EXCEPT !.kind = "edit", !.dto = edit])

(* Faulty variant: the namespace is used though none is known.             *)
LoadUnchecked(t) ==
    /\ At(t, "load")
    /\ Become(t, [task[t] EXCEPT !.at = "getCached",
                                 !.namespace = appNamespace[task[t].name]])
    /\ UNCHANGED <<configMaps, appNamespace, wrote, steady, bounds>>

Load(t) ==
    LET namespace == appNamespace[task[t].name] IN
    /\ At(t, "load")
    /\ Become(t, [task[t] EXCEPT !.at = IF namespace = NoNamespace THEN "scan" ELSE "getCached",
                                 !.namespace = namespace])
    /\ UNCHANGED <<configMaps, appNamespace, wrote, steady, bounds>>

(* dto2map, on what the route was before.                                  *)
Route(edit, old) == [old EXCEPT ![PathNode] = edit.path]

(* Faulty variant: the route takes the place of the others.                *)
EditedAlone(edit, yaml) ==
    Single(ZuulNode, [yaml[ZuulNode] EXCEPT ![RoutesNode] =
        IF edit.path = NoKey THEN EmptyTree ELSE Single(edit.name, Route(edit, EmptyTree))])

(* The YAML AddOrUpdate or Delete (of an edit with no path) makes: only    *)
(* what is under zuul.                                                     *)
Edited(edit, yaml) ==
    LET routes == yaml[ZuulNode][RoutesNode]
        old == IF Has(routes, edit.name) THEN routes[edit.name] ELSE EmptyTree
    IN  Single(ZuulNode, [yaml[ZuulNode] EXCEPT ![RoutesNode] =
            [routes EXCEPT ![edit.name] =
                IF edit.path = NoKey THEN NoKey ELSE Route(edit, old)]])

(* The type assertions on zuul, routes and the route that is there.        *)
EditPanics(edit, yaml) ==
    \/ ~HasRoutes(Tree(yaml))
    \/ ~IsMap(yaml[ZuulNode][RoutesNode])
    \/ /\ edit.path # NoKey
       /\ yaml[ZuulNode][RoutesNode][edit.name] \in Leaves

(* What the request does with the config map it was looking for.  A        *)
(* gateway's poll goes on with zuul-route.                                 *)
LooksOn(task_t) == task_t.kind = "poll" /\ task_t.name \in GatewayNames

Used(task_t, data, namespace) ==
    LET yaml == data[IF task_t.kind = "poll" THEN task_t.dto.profile ELSE DefaultProfile]
        found == [task_t EXCEPT !.namespace = NoNamespace, !.next = 1]
    IN  IF task_t.kind = "poll"
        THEN IF yaml = BadYaml THEN Ended(Answered(found, "unreadable"))
             ELSE IF LooksOn(task_t)
             THEN [found EXCEPT !.at = "load", !.name = RouteConfigMap]
             ELSE Ended(Answered(found, "ok"))
        ELSE IF yaml \in {NoYaml, BadYaml} THEN Ended(Answered(found, "badRequest"))
        ELSE IF EditPanics(task_t.dto, yaml) THEN Panicked(found)
        ELSE [found EXCEPT !.at = "update", !.found = data,
                !.dto = [service |-> RouteConfigMap, namespace |-> namespace,
                         profile |-> DefaultProfile, policy |-> "override",
                         source |-> task_t.dto,
                         text |-> Edited(task_t.dto, yaml)]]

Use(t, data, namespace) ==
    /\ Become(t, Used(task[t], data, namespace))
    /\ steady' = IF LooksOn(task[t])
                 THEN [steady EXCEPT ![t] = Present(RouteConfigMap)] ELSE steady

(* Faulty variant: only the namespace that is known is asked.              *)
GetCachedOnly(t) ==
    LET namespace == task[t].namespace
        data == configMaps[<<task[t].name, namespace>>]
    IN
    /\ At(t, "getCached")
    /\ IF data # NoMap THEN Use(t, data, namespace)
       ELSE Become(t, Ended(Answered(task[t], "notFound"))) /\ UNCHANGED steady
    /\ UNCHANGED <<configMaps, appNamespace, wrote, bounds>>

GetCached(t) ==
    LET namespace == task[t].namespace
        data == configMaps[<<task[t].name, namespace>>]
    IN
    /\ At(t, "getCached")
    /\ \/ data # NoMap /\ Use(t, data, namespace)
       \/ /\ data = NoMap \/ ApiErrors
          /\ Become(t, [task[t] EXCEPT !.at = "scan"])
          /\ UNCHANGED steady
    /\ UNCHANGED <<configMaps, appNamespace, wrote, bounds>>

(* The registered namespaces are asked in turn.                            *)
Scan(t) ==
    LET namespace == Registered[task[t].next]
        data == configMaps[<<task[t].name, namespace>>]
    IN
    /\ At(t, "scan")
    /\ task[t].next \in DOMAIN Registered
    /\ \/ /\ data # NoMap
          /\ Become(t, [task[t] EXCEPT !.at = "store", !.found = data,
                                       !.namespace = namespace])
          /\ UNCHANGED steady
       \/ /\ data = NoMap \/ ApiErrors
          /\ Become(t, [task[t] EXCEPT !.next = @ + 1])
          /\ steady' = [steady EXCEPT ![t] = @ \ {namespace}]
    /\ UNCHANGED <<configMaps, appNamespace, wrote, bounds>>

ScanFails(t) ==
    /\ At(t, "scan")
    /\ task[t].next \notin DOMAIN Registered
    /\ Become(t, Ended(Answered(task[t], "notFound")))
    /\ UNCHANGED <<configMaps, appNamespace, wrote, steady, bounds>>

StoreFound(t) ==
    /\ At(t, "store")
    /\ appNamespace' = [appNamespace EXCEPT ![task[t].name] = task[t].namespace]
    /\ Use(t, task[t].found, task[t].namespace)
    /\ UNCHANGED <<configMaps, wrote, bounds>>

-----------------------------------------------------------------------------
(* Other people create, change or delete a config map.                     *)
Foreign(k, data) ==
    /\ foreign < MaxForeign
    /\ foreign' = foreign + 1
    /\ data # configMaps[k]
    /\ configMaps' = [configMaps EXCEPT ![k] = data]
    /\ steady' = IF data # NoMap THEN steady
                 ELSE [t \in Handlers |-> IF task[t].name = k[1] THEN steady[t] \ {k[2]}
                                          ELSE steady[t]]
    /\ UNCHANGED <<appNamespace, task, wrote, requests>>

Step(t) ==
    \/ Query(t) \/ Create(t) \/ Created(t) \/ Update(t) \/ Updated(t)
    \/ Load(t) \/ GetCached(t) \/ Scan(t) \/ ScanFails(t) \/ StoreFound(t)

Request(t) ==
    \/ \E s \in Saves : Save(t, s)
    \/ \E s \in Services, p \in Profiles : Poll(t, s, p)
    \/ \E edit \in Edits : EditRoute(t, edit)

Next ==
    \/ \E t \in Handlers : Step(t) \/ Request(t)
    \/ \E k \in Keys :
        \/ Foreign(k, NoMap)
        \/ \E yaml \in ForeignYaml : Foreign(k, newV1ConfigMap(DefaultProfile, yaml))

Spec == Init /\ [][Next]_vars

-----------------------------------------------------------------------------
Labels == {"idle", "query", "create", "created", "update", "updated", "load",
           "getCached", "scan", "store"}

Saving == {"query", "create", "created", "update", "updated"}

SaveDtos == [service : Services, namespace : Namespaces, profile : Profiles,
             policy : Policies, source : Trees \cup Edits, text : Yamls]

PollDtos == [profile : Profiles]

Answers == {"none", "ok", "error", "badRequest", "notFound", "notModified",
            "unreadable", "panic"}

Tasks == [at : Labels, kind : {"none", "save", "edit", "poll"},
          dto : SaveDtos \cup Edits \cup PollDtos \cup {NoMap},
          rest : Seq(SaveDtos), found : Data \cup {NoMap}, name : Services,
          namespace : Namespaces \cup {NoNamespace}, next : Nat \ {0},
          answer : Answers]

TaskOK(x) ==
    /\ x \in Tasks
    /\ x.at \in Saving => x.dto \in SaveDtos
    /\ x.at \in {"created", "update"} => x.found \in Data
    /\ x.at \in {"load", "getCached", "scan", "store"} =>
            \/ x.kind = "poll" /\ x.dto \in PollDtos
            \/ x.kind = "edit" /\ x.dto \in Edits
    /\ x.at \in {"getCached", "store"} => x.namespace \in Namespaces
    /\ x.at = "store" => x.found \in Data
    /\ x.answer # "none" /\ x.at # "idle" =>
            x.kind = "save" /\ x.answer \in {"error", "notModified"}

(* Every variable has the type its declaration says, and a handler has the *)
(* config map, the route or the namespace its next call is about, and has  *)
(* not answered unless the first half of its save went wrong.              *)
ConfigTypeOK ==
    /\ configMaps \in [Keys -> Data \cup {NoMap}]
    /\ appNamespace \in [Services -> Namespaces \cup {NoNamespace}]
    /\ task \in [Handlers -> Tasks] /\ \A t \in Handlers : TaskOK(task[t])
    /\ wrote \in [Handlers -> [Services -> Data \cup {NoMap}]]
    /\ steady \in [Handlers -> SUBSET Namespaces]
    /\ requests \in Nat /\ foreign \in Nat

NoRoutes(yaml) == ~HasRoutes(Tree(yaml))

RoutesKeptOut(maps) ==
    \A n \in Namespaces, p \in Profiles :
        maps[<<ApiGateway, n>>] # NoMap => NoRoutes(maps[<<ApiGateway, n>>][p])

(* The gateway's config map has no routes at the start, and nobody else    *)
(* writes any.                                                             *)
OthersWriteNoRoutes ==
    /\ \A maps \in StartMaps : RoutesKeptOut(maps)
    /\ \A yaml \in ForeignYaml : NoRoutes(yaml)

(* The gateway's own config map never gets routes, though the request that *)
(* is merged into it had them: they are only in zuul-route.                *)
GatewayHoldsNoRoutes == RoutesKeptOut(configMaps)

(* A Save that is answered 200 has written every config map it is about:   *)
(* the error of one of the two halves is not covered up by the other.      *)
SavedIsWritten ==
    \A t \in Handlers :
        At(t, "idle") /\ task[t].kind = "save" /\ task[t].answer = "ok" =>
            /\ wrote[t][task[t].dto.service] # NoMap
            /\ task[t].dto.service = ApiGateway => wrote[t][RouteConfigMap] # NoMap

(* A config map that is in a registered namespace all the time a request   *)
(* looks for it is found, wherever it was before, unless the call that     *)
(* asks there fails.                                                       *)
PresentIsFound ==
    \A t \in Handlers : task[t].answer = "notFound" => steady[t] = {}

Moves(t) == task'[t] # task[t]

(* A Save with the policy "not" changes no config map that exists, also    *)
(* when it is created between the look and the creation.                   *)
NotKeepsExisting ==
    [][\A t \in Handlers :
        Moves(t) /\ task[t].at \notin {"idle", "load", "getCached", "scan", "store"}
            /\ task[t].dto.policy = "not" =>
            \A k \in Keys : configMaps[k] # NoMap => configMaps'[k] = configMaps[k]]_vars

Unraced(t) == At(t, "update") /\ ~At(t, "update")' /\ task[t].found = configMaps[KeyOf(t)]
                /\ configMaps' # configMaps

Profile(t) == configMaps[KeyOf(t)][task[t].dto.profile]
NewProfile(t) == configMaps'[KeyOf(t)][task[t].dto.profile]

(* If nobody writes between its look and its Update, a request about one   *)
(* route leaves the others, and what else is under zuul, as they are.      *)
EditIsExact ==
    [][\A t \in Handlers :
        task[t].kind = "edit" /\ Unraced(t) =>
            LET edit == task[t].dto.source
                old == Profile(t)[ZuulNode]
                new == NewProfile(t)[ZuulNode]
            IN  /\ \A k \in Names \ {RoutesNode} : new[k] = old[k]
                /\ \A k \in Names \ {edit.name} : new[RoutesNode][k] = old[RoutesNode][k]
                /\ Has(new[RoutesNode], edit.name) <=> edit.path # NoKey]_vars

(* If nobody writes in between, a Save with the policy "add" keeps every   *)
(* property the profile has and adds what it has not.                      *)
AddIsExact ==
    [][\A t \in Handlers :
        /\ task[t].kind = "save" /\ Unraced(t) /\ task[t].dto.policy = "add"
        /\ Profile(t) \notin Texts
        => IsAdd(Profile(t), task[t].dto.source, NewProfile(t))]_vars
=============================================================================
