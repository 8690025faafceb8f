------------------------- MODULE ConfigServiceProofs -------------------------
(***************************************************************************)
(* What ConfigService keeps for any number of handlers, requests and other *)
(* people's changes, and for configurations of any depth.                  *)
(***************************************************************************)
EXTENDS ConfigService, PropertyTreeProofs

(* The constants, as the proofs need them.                                 *)
LEMMA ServiceFacts ==
    /\ RouteConfigMap \in Services /\ ApiGateway \in Services
    /\ RouteConfigMap # ApiGateway /\ GatewayNames \subseteq Services
    /\ DefaultProfile \in Profiles
    /\ NoYaml \in Yamls /\ NullYaml \in Yamls /\ BadYaml \in Yamls
    /\ NoYaml # BadYaml /\ NullYaml # NoYaml /\ NullYaml # BadYaml
    /\ NoMap \notin Data /\ NoNamespace \notin Namespaces
    /\ \A n \in DOMAIN Registered : Registered[n] \in Namespaces
    /\ \A y \in Yamls \ Texts : y \in Trees
    /\ Trees \subseteq Yamls
BY ServiceAssumption DEF ServiceAssumption, Yamls, Texts

(* What yaml.Unmarshal makes is a tree, and without routes where there is  *)
(* no map.                                                                 *)
LEMMA TreeTyped ==
    ASSUME NEW y \in Yamls
    PROVE  /\ Tree(y) \in Trees
           /\ y \in Texts => ~HasRoutes(Tree(y))
           /\ y \notin Texts => Tree(y) = y
<1>1. ~HasRoutes(EmptyTree)
    BY EmptyTyped, TreeAssumption DEF HasRoutes, IsMap
<1>. QED  BY <1>1, EmptyTyped DEF Tree, Yamls

LEMMA NewMapTyped ==
    ASSUME NEW p \in Profiles, NEW y \in Yamls
    PROVE  /\ newV1ConfigMap(p, y) \in Data /\ newV1ConfigMap(p, y) # NoMap
           /\ newV1ConfigMap(p, y)[p] = y
           /\ \A q \in Profiles : newV1ConfigMap(p, y)[q] \in {y, NoYaml}
BY ServiceFacts DEF newV1ConfigMap, Data

(* What a merge writes is YAML, and has routes only if one of the two has. *)
LEMMA ProcessTyped ==
    ASSUME NEW dto \in SaveDtos, dto.source \in Trees, NEW old \in Yamls, old # NoYaml
    PROVE  /\ processProperty(dto, old) \in Yamls
           /\ dto.policy = "add" /\ old \notin Texts =>
                processProperty(dto, old) = recursiveAdd(old, dto.source)
           /\ ~HasRoutes(dto.source) /\ ~HasRoutes(Tree(old)) =>
                ~HasRoutes(Tree(processProperty(dto, old)))
<1>1. CASE old \in Texts
    <2>1. processProperty(dto, old) \in Texts
        BY <1>1, ServiceFacts DEF processProperty, Texts
    <2>. QED  BY <1>1, <2>1, ServiceFacts, TreeTyped DEF Yamls
<1>2. CASE old \notin Texts
    <2>1. /\ old \in Trees /\ Tree(old) = old
          /\ old # BadYaml /\ old # NullYaml
        BY <1>2, ServiceFacts, TreeTyped DEF Texts
    <2>2. processProperty(dto, old) = IF dto.policy = "add" THEN recursiveAdd(old, dto.source)
                                      ELSE recursiveAddAndUpdate(old, dto.source)
        BY <2>1 DEF processProperty
    <2>3. processProperty(dto, old) \in Trees
        BY <2>1, <2>2, MergesTyped
    <2>4. Tree(processProperty(dto, old)) = processProperty(dto, old)
        BY <2>3, ServiceAssumption DEF Tree
    <2>. QED  BY <2>1, <2>2, <2>3, <2>4, ServiceFacts, MergesMakeNoRoutes
<1>. QED  BY <1>1, <1>2

(* An edit that does not panic makes a tree, and changes one route.        *)
LEMMA EditTyped ==
    ASSUME NEW edit \in Edits, NEW y \in Trees, ~EditPanics(edit, y)
    PROVE  /\ Edited(edit, y) \in Trees
           /\ \A k \in Names \ {RoutesNode} : Edited(edit, y)[ZuulNode][k] = y[ZuulNode][k]
           /\ \A k \in Names \ {edit.name} :
                Edited(edit, y)[ZuulNode][RoutesNode][k] = y[ZuulNode][RoutesNode][k]
           /\ Has(Edited(edit, y)[ZuulNode][RoutesNode], edit.name) <=> edit.path # NoKey
<1> DEFINE zuul == y[ZuulNode]
           routes == zuul[RoutesNode]
           old == IF Has(routes, edit.name) THEN routes[edit.name] ELSE EmptyTree
           new == IF edit.path = NoKey THEN NoKey ELSE Route(edit, old)
           newRoutes == [routes EXCEPT ![edit.name] = new]
           newZuul == [zuul EXCEPT ![RoutesNode] = newRoutes]
<1>1. /\ edit.name \in Names /\ edit.path \in Values
      /\ PathNode \in Names /\ MaxDepth >= 3 /\ MaxDepth \in Nat
      /\ ZuulNode \in Names /\ RoutesNode \in Names
    BY ServiceAssumption, TreeAssumption DEF Values
<1>2. y \notin Texts
    BY ServiceAssumption
<1>3. /\ IsMap(zuul) /\ IsMap(routes)
      /\ edit.path # NoKey => routes[edit.name] \notin Leaves
    BY <1>2 DEF EditPanics, Tree, HasRoutes
<1>4. /\ zuul \in TreesTo[MaxDepth - 1] /\ MaxDepth - 1 \in Nat
      /\ routes \in TreesTo[MaxDepth - 2] /\ MaxDepth - 2 \in Nat /\ MaxDepth - 2 <= MaxDepth
    BY <1>1, <1>3, RoutesOfTree
<1>. HIDE DEF routes, zuul
<1>5. ASSUME edit.path # NoKey
      PROVE  /\ MaxDepth - 2 > 0 /\ (MaxDepth - 2) - 1 \in Nat
             /\ Route(edit, old) \in TreesTo[(MaxDepth - 2) - 1]
    <2>1. MaxDepth - 2 > 0 /\ (MaxDepth - 2) - 1 \in Nat
        BY <1>1
    <2>2. old \in TreesTo[(MaxDepth - 2) - 1]
        <3>1. CASE Has(routes, edit.name)
            <4>1. routes[edit.name] \notin Values
                BY <1>3, <1>5, <3>1 DEF Has, Values
            <4>. QED  BY <1>1, <1>4, <3>1, <4>1, Children
        <3>2. CASE ~Has(routes, edit.name)
            BY <2>1, <3>2, EmptyTyped
        <3>. QED  BY <3>1, <3>2
    <2>. HIDE DEF old
    <2>. QED  BY <1>1, <2>1, <2>2, ExceptTyped DEF Route
<1>6. /\ new \in Values \/ (MaxDepth - 2 > 0 /\ new \in TreesTo[(MaxDepth - 2) - 1])
      /\ new # NoKey <=> edit.path # NoKey
    <2>1. CASE edit.path = NoKey
        BY <2>1 DEF Values
    <2>2. CASE edit.path # NoKey
        <3> DEFINE route == Route(edit, old)
        <3>. HIDE DEF route
        <3>1. /\ MaxDepth - 2 > 0 /\ (MaxDepth - 2) - 1 \in Nat
              /\ route \in TreesTo[(MaxDepth - 2) - 1]
            BY <1>5, <2>2 DEF route
        <3>2. (MaxDepth - 2) - 1 <= MaxDepth
            BY <1>1
        <3>3. route # NoKey
            BY <1>1, <3>1, <3>2, DeeperTrees, TreeAssumption DEF Trees
        <3>4. new = route
            BY <2>2 DEF route
        <3>. HIDE DEF new
        <3>. QED  BY <2>2, <3>1, <3>3, <3>4
    <2>. QED  BY <2>1, <2>2
<1>. HIDE DEF new
<1>7. newRoutes \in TreesTo[MaxDepth - 2]
    BY <1>1, <1>4, <1>6, ExceptTyped
<1>8. newRoutes[edit.name] = new /\ \A k \in Names \ {edit.name} : newRoutes[k] = routes[k]
    <2>1. DOMAIN routes = Names
        BY <1>4, TreesDefined
    <2>. QED  BY <1>1, <2>1
<1>. HIDE DEF newRoutes
<1>9. newZuul \in TreesTo[MaxDepth - 1]
    <2>1. MaxDepth - 1 > 0 /\ MaxDepth - 2 = (MaxDepth - 1) - 1
        BY <1>1
    <2>. QED  BY <1>1, <1>4, <1>7, <2>1, ExceptTyped
<1>10. newZuul[RoutesNode] = newRoutes /\ \A k \in Names \ {RoutesNode} : newZuul[k] = zuul[k]
    <2>1. DOMAIN zuul = Names
        BY <1>4, TreesDefined
    <2>. QED  BY <1>1, <2>1
<1>. HIDE DEF newZuul
<1>11. Edited(edit, y) = Single(ZuulNode, newZuul)
    BY DEF Edited, new, old, newRoutes, newZuul, routes, zuul
<1>12. Single(ZuulNode, newZuul) \in Trees /\ Single(ZuulNode, newZuul)[ZuulNode] = newZuul
    <2>1. Single(ZuulNode, newZuul) \in TreesTo[MaxDepth]
        BY <1>1, <1>9, SingleTyped
    <2>2. ZuulNode \in DOMAIN EmptyTree
        BY <1>1 DEF EmptyTree
    <2>. QED  BY <2>1, <2>2 DEF Single, Trees
<1>. QED  BY <1>6, <1>8, <1>10, <1>11, <1>12 DEF Has, routes, zuul

-----------------------------------------------------------------------------
(* What a handler is about, beyond its type.  A save that has another half *)
(* to do is at the routes, and the other half is the gateway's.            *)
HalvesOK(x) ==
    x.at # "idle" /\ x.rest # <<>> =>
        /\ x.rest = <<x.rest[1]>> /\ x.rest[1] \in SaveDtos /\ x.rest[1].source \in Trees
        /\ x.kind = "save" /\ x.at \in Saving /\ x.dto.service = RouteConfigMap
        /\ x.rest[1].service = ApiGateway

WritesOK(x) ==
    /\ x.at \in {"query", "create", "created"} => x.kind = "save"
    /\ x.at \in {"update", "updated"} => x.kind \in {"save", "edit"} /\ x.dto.policy # "not"
    /\ x.at \in Saving /\ x.kind = "save" => x.dto.source \in Trees
    /\ x.at \in Saving /\ x.kind = "edit" => x.dto.service = RouteConfigMap

(* What an Update writes is made of what was found, and of nothing else.   *)
EditMade(x) ==
    LET yaml == x.found[DefaultProfile] IN
    /\ x.dto.profile = DefaultProfile /\ x.dto.source \in Edits
    /\ yaml \in Trees /\ ~EditPanics(x.dto.source, yaml)
    /\ x.dto.text = Edited(x.dto.source, yaml)

AddMade(x) == x.dto.text = recursiveAdd(x.found[x.dto.profile], x.dto.source)

MergedOK(x) ==
    x.at = "update" =>
        /\ x.kind = "edit" => EditMade(x)
        /\ x.kind = "save" /\ x.dto.policy = "add" /\ x.found[x.dto.profile] \notin Texts =>
                AddMade(x)

StepOK(x) == HalvesOK(x) /\ WritesOK(x) /\ MergedOK(x)

(* The answer, if the handler has none.                                    *)
First(x, answer) == IF x.answer = "none" THEN answer ELSE x.answer

(* What is idle is all right, whatever it has answered.                    *)
LEMMA IdleOK ==
    ASSUME NEW x \in Tasks, x.at = "idle"
    PROVE  TaskOK(x) /\ StepOK(x)
<1>1. TaskOK(x)
    BY DEF TaskOK, Saving
<1>2. HalvesOK(x)
    BY DEF HalvesOK
<1>3. WritesOK(x)
    BY DEF WritesOK, Saving
<1>4. MergedOK(x)
    BY DEF MergedOK
<1>. QED  BY <1>1, <1>2, <1>3, <1>4 DEF StepOK

LEMMA EndedTyped ==
    ASSUME NEW x \in Tasks, NEW a \in Answers
    PROVE  /\ Ended(Answered(x, a)) \in Tasks /\ Ended(Answered(x, a)).at = "idle"
           /\ Ended(Answered(x, a)).kind = x.kind /\ Ended(Answered(x, a)).dto = x.dto
           /\ Ended(Answered(x, a)).answer = First(x, a)
           /\ Panicked(x) \in Tasks /\ Panicked(x).at = "idle" /\ Panicked(x).answer = "panic"
<1> DEFINE y == Answered(x, a)
<1>1. /\ y \in Tasks /\ y.kind = x.kind /\ y.dto = x.dto /\ y.answer = First(x, a)
    BY DEF Answered, First, Tasks
<1>. HIDE DEF y
<1>2. \A z \in Tasks : /\ Ended(z) \in Tasks /\ Ended(z).at = "idle" /\ Ended(z).kind = z.kind
                       /\ Ended(z).dto = z.dto /\ Ended(z).answer = z.answer
    BY DEF Ended, Tasks, Labels
<1>3. /\ Panicked(x) \in Tasks /\ Panicked(x).at = "idle" /\ Panicked(x).answer = "panic"
    BY <1>2 DEF Panicked, Tasks, Answers
<1>. QED  BY <1>1, <1>2, <1>3 DEF y

(* After one half a request is done, or at the other.                      *)
LEMMA HalfDoneOK ==
    ASSUME NEW x, TaskOK(x), StepOK(x), x.at \in Saving,
           NEW a \in {"ok", "error", "notModified"}
    PROVE  /\ TaskOK(HalfDone(x, a)) /\ StepOK(HalfDone(x, a))
           /\ HalfDone(x, a).kind = x.kind
           /\ x.rest = <<>> =>
                /\ HalfDone(x, a).at = "idle" /\ HalfDone(x, a).dto = x.dto
                /\ HalfDone(x, a).answer = First(x, a)
           /\ x.rest # <<>> =>
                /\ HalfDone(x, a).at = "query" /\ HalfDone(x, a).dto = x.rest[1]
                /\ HalfDone(x, a).rest = <<>>
                /\ HalfDone(x, a).answer = IF a = "ok" THEN x.answer ELSE First(x, a)
<1>1. x \in Tasks /\ a \in Answers /\ a # "none"
    BY DEF TaskOK, Answers
<1>2. CASE x.rest = <<>>
    <2>1. HalfDone(x, a) = Ended(Answered(x, a))
        BY <1>2 DEF HalfDone
    <2>. QED  BY <1>1, <1>2, <2>1, EndedTyped, IdleOK
<1>3. CASE x.rest # <<>>
    <2> DEFINE d == x.rest[1]
               y == IF a = "ok" THEN x ELSE Answered(x, a)
               h == [y EXCEPT !.at = "query", !.dto = d, !.rest = <<>>]
    <2>1. /\ x.rest = <<d>> /\ d \in SaveDtos /\ d.source \in Trees
          /\ x.kind = "save"
        BY <1>3 DEF StepOK, HalvesOK, Saving
    <2>2. Head(x.rest) = d /\ Tail(x.rest) = <<>>
        <3>. HIDE DEF d
        <3>. QED  BY <2>1
    <2>3. /\ y \in Tasks /\ y.kind = "save" /\ y.rest = x.rest
          /\ y.answer = IF a = "ok" THEN x.answer ELSE First(x, a)
        BY <1>1, <2>1 DEF Answered, First, Tasks, Answers
    <2>4. HalfDone(x, a) = h
        BY <1>3, <2>2, <2>3 DEF HalfDone
    <2>5. x.answer \in {"none", "error", "notModified"}
        BY DEF TaskOK, Saving
    <2>. HIDE DEF d, y
    <2>6. /\ h \in Tasks /\ h.at = "query" /\ h.dto = d /\ h.rest = <<>> /\ h.kind = "save"
          /\ h.answer = y.answer
        <3>1. <<>> \in Seq(SaveDtos)
            OBVIOUS
        <3>2. h \in Tasks
            BY <2>1, <2>3, <3>1 DEF Tasks, Labels
        <3>. QED  BY <2>1, <2>3, <3>2 DEF Tasks
    <2>. HIDE DEF h
    <2>7. h.answer \in {"none", "error", "notModified"}
        BY <1>1, <2>3, <2>5, <2>6 DEF First
    <2>8. TaskOK(h) /\ StepOK(h)
        BY <2>1, <2>6, <2>7 DEF TaskOK, StepOK, HalvesOK, WritesOK, MergedOK, Saving
    <2>. QED  BY <1>3, <2>1, <2>3, <2>4, <2>6, <2>8 DEF d
<1>. QED  BY <1>2, <1>3

Writing(x, data, text) == [x EXCEPT !.at = "update", !.found = data, !.dto.text = text]

(* createOrUpdateConfigMap is done with its config map, panics, or goes on *)
(* to write what it was asked to or the merge of that with what it found.  *)
LEMMA DecidedOK ==
    ASSUME NEW x, TaskOK(x), StepOK(x), x.at \in {"query", "created"}, NEW data \in Data
    PROVE  /\ TaskOK(Decided(x, data)) /\ StepOK(Decided(x, data))
           /\ \/ Decided(x, data) = HalfDone(x, "notModified")
              \/ Decided(x, data).at = "idle" /\ Decided(x, data).answer = "panic"
              \/ \E text \in Yamls :
                    /\ Decided(x, data) = Writing(x, data, text)
                    /\ \/ text = x.dto.text
                       \/ /\ data[x.dto.profile] # NoYaml
                          /\ text = processProperty(x.dto, data[x.dto.profile])
<1> DEFINE dto == x.dto
           old == data[dto.profile]
           merges == dto.policy \in {"add", "update"} /\ old # NoYaml
           text == IF merges THEN processProperty(dto, old) ELSE dto.text
           d == Writing(x, data, text)
<1>1. /\ x \in Tasks /\ x.at \in Saving /\ x.kind = "save"
      /\ dto \in SaveDtos /\ dto.source \in Trees
    BY DEF TaskOK, StepOK, WritesOK, Saving
<1>2. old \in Yamls
    BY <1>1 DEF Data, SaveDtos
<1>3. CASE dto.policy = "not"
    <2>1. Decided(x, data) = HalfDone(x, "notModified")
        BY <1>3 DEF Decided
    <2>. QED  BY <1>1, <2>1, HalfDoneOK
<1>4. CASE dto.policy # "not" /\ merges /\ MergePanics(dto, old)
    <2>1. Decided(x, data) = Panicked(x)
        BY <1>4 DEF Decided
    <2>2. Panicked(x) \in Tasks /\ Panicked(x).at = "idle" /\ Panicked(x).answer = "panic"
        BY <1>1, EndedTyped DEF Answers
    <2>. QED  BY <2>1, <2>2, IdleOK
<1>5. CASE dto.policy # "not" /\ ~(merges /\ MergePanics(dto, old))
    <2>1. Decided(x, data) = d
        BY <1>5, Zenon DEF Decided, Writing
    <2>2. text \in Yamls
        BY <1>1, <1>2, ProcessTyped DEF SaveDtos
    <2>3. merges /\ dto.policy = "add" /\ old \notin Texts => text = recursiveAdd(old, dto.source)
        BY <1>1, <1>2, ProcessTyped
    <2>4. merges <=> dto.policy \in {"add", "update"} /\ old # NoYaml
        OBVIOUS
    <2>5. text = x.dto.text \/ (old # NoYaml /\ text = processProperty(dto, old))
        BY <2>4
    <2>. HIDE DEF merges, text
    <2>6. /\ d.dto \in SaveDtos /\ d.dto.service = dto.service /\ d.dto.profile = dto.profile
          /\ d.dto.policy = dto.policy /\ d.dto.source = dto.source /\ d.dto.text = text
          /\ d.at = "update" /\ d.found = data /\ d.kind = x.kind /\ d.rest = x.rest
          /\ d.answer = x.answer
        BY <1>1, <2>2 DEF Writing, Tasks, SaveDtos
    <2>7. d \in Tasks
        BY <1>1, <2>2, <2>6 DEF Writing, Tasks, Labels
    <2>8. TaskOK(d)
        BY <1>1, <2>6, <2>7 DEF TaskOK, Saving
    <2>9. HalvesOK(d) /\ WritesOK(d)
        BY <1>1, <1>5, <2>6 DEF StepOK, HalvesOK, WritesOK, Saving
    <2>10. MergedOK(d)
        <3>1. old \notin Texts => old # NoYaml
            BY DEF Texts
        <3>2. d.dto.policy = "add" /\ d.found[d.dto.profile] \notin Texts => AddMade(d)
            BY <2>3, <2>4, <2>6, <3>1 DEF AddMade
        <3>. QED  BY <1>1, <2>6, <3>2 DEF MergedOK
    <2>. QED  BY <2>1, <2>2, <2>5, <2>8, <2>9, <2>10 DEF StepOK
<1>. QED  BY <1>3, <1>4, <1>5

(* A request that has found its config map ends, goes on to zuul-route, or *)
(* writes the edited routes.                                               *)
LEMMA UsedOK ==
    ASSUME NEW x, TaskOK(x), StepOK(x), x.at \in {"getCached", "store"},
           NEW data \in Data, NEW namespace \in Namespaces
    PROVE  LET y == Used(x, data, namespace) IN
           /\ TaskOK(y) /\ StepOK(y) /\ y.kind = x.kind /\ y.kind # "save"
           /\ \/ y.at = "idle" /\ y.answer # "notFound"
              \/ y.at = "load" /\ LooksOn(x) /\ y.name = RouteConfigMap /\ y.next = 1
              \/ y.at = "update" /\ y.dto.service = RouteConfigMap /\ y.rest = <<>>
<1> DEFINE found == [x EXCEPT !.namespace = NoNamespace, !.next = 1]
           y == Used(x, data, namespace)
<1>1. /\ x \in Tasks /\ x.answer = "none" /\ x.rest = <<>>
      /\ \/ x.kind = "poll" /\ x.dto \in PollDtos
         \/ x.kind = "edit" /\ x.dto \in Edits
    <2>1. x \in Tasks /\ x.at # "idle" /\ x.at \notin Saving
        BY DEF TaskOK, Saving
    <2>2. x.rest = <<>>
        BY <2>1 DEF StepOK, HalvesOK
    <2>3. \/ x.kind = "poll" /\ x.dto \in PollDtos
          \/ x.kind = "edit" /\ x.dto \in Edits
        BY DEF TaskOK
    <2>. QED  BY <2>1, <2>2, <2>3 DEF TaskOK
<1>2. /\ found \in Tasks /\ found.answer = "none" /\ found.rest = <<>> /\ found.next = 1
      /\ found.kind = x.kind /\ found.dto = x.dto
    <2>1. found \in Tasks
        <3>1. 1 \in Nat \ {0}
            OBVIOUS
        <3> DEFINE one == 1
        <3>. HIDE DEF one
        <3>2. [x EXCEPT !.namespace = NoNamespace, !.next = one] \in Tasks
            <4>1. one \in Nat \ {0}
                BY <3>1 DEF one
            <4>. QED  BY <1>1, <4>1 DEF Tasks
        <3>. QED  BY <3>2 DEF one
    <2>. QED  BY <1>1, <2>1 DEF Tasks
<1>. HIDE DEF found
<1>3. ASSUME NEW a \in Answers, a \notin {"none", "notFound"}, y = Ended(Answered(found, a))
      PROVE  /\ TaskOK(y) /\ StepOK(y) /\ y.kind = x.kind
             /\ y.at = "idle" /\ y.answer # "notFound"
    <2>1. y \in Tasks /\ y.at = "idle" /\ y.answer = a /\ y.kind = x.kind
        BY <1>2, <1>3, EndedTyped DEF First
    <2>. QED  BY <1>3, <2>1, IdleOK
<1>4. CASE x.kind = "poll"
    <2> DEFINE yaml == data[x.dto.profile]
               load == [found EXCEPT !.at = "load", !.name = RouteConfigMap]
    <2>1. y = IF yaml = BadYaml THEN Ended(Answered(found, "unreadable"))
              ELSE IF LooksOn(x) THEN load ELSE Ended(Answered(found, "ok"))
        BY <1>4 DEF Used, found
    <2>2. CASE y = load /\ LooksOn(x)
        <3>1. load \in Tasks
            BY <1>2, ServiceFacts DEF Tasks, Labels
        <3>2. /\ load.at = "load" /\ load.name = RouteConfigMap /\ load.next = 1
              /\ load.kind = "poll" /\ load.dto \in PollDtos /\ load.rest = <<>>
              /\ load.answer = "none"
            BY <1>1, <1>2, <1>4 DEF Tasks
        <3>. HIDE DEF load, y
        <3>3. TaskOK(load) /\ StepOK(load)
            BY <3>1, <3>2 DEF TaskOK, StepOK, HalvesOK, WritesOK, MergedOK, Saving
        <3>. QED  BY <1>4, <2>2, <3>2, <3>3 DEF y
    <2>. HIDE DEF y
    <2>3. CASE y \in {Ended(Answered(found, "unreadable")), Ended(Answered(found, "ok"))}
        BY <1>3, <1>4, <2>3 DEF Answers, y
    <2>. QED  BY <2>1, <2>2, <2>3
<1>5. CASE x.kind = "edit"
    <2> DEFINE yaml == data[DefaultProfile]
               dto == [service |-> RouteConfigMap, namespace |-> namespace,
                       profile |-> DefaultProfile, policy |-> "override",
                       source |-> x.dto, text |-> Edited(x.dto, yaml)]
               update == [found EXCEPT !.at = "update", !.found = data, !.dto = dto]
    <2>1. y = IF yaml \in {NoYaml, BadYaml} THEN Ended(Answered(found, "badRequest"))
              ELSE IF EditPanics(x.dto, yaml) THEN Panicked(found)
              ELSE update
        BY <1>5 DEF Used, found
    <2>. HIDE DEF y
    <2>2. CASE y = Ended(Answered(found, "badRequest"))
        BY <1>3, <1>5, <2>2 DEF Answers, y
    <2>3. CASE y = Panicked(found)
        <3>1. Panicked(found).kind = found.kind
            BY <1>2 DEF Panicked, Ended, Tasks
        <3>. QED  BY <1>2, <1>5, <2>3, <3>1, EndedTyped, IdleOK DEF Answers, y
    <2>4. CASE y = update /\ yaml \notin {NoYaml, BadYaml} /\ ~EditPanics(x.dto, yaml)
        <3>1. yaml \in Trees
            <4>1. yaml \in Yamls
                BY ServiceFacts DEF Data
            <4>2. yaml \notin Texts
                BY <2>4, <4>1, TreeTyped DEF EditPanics, Texts
            <4>. QED  BY <4>1, <4>2, ServiceFacts
        <3>2. x.dto \in Edits
            BY <1>1, <1>5
        <3>3. Edited(x.dto, yaml) \in Yamls
            BY <2>4, <3>1, <3>2, EditTyped, ServiceFacts
        <3>4. dto \in SaveDtos
            BY <3>2, <3>3, ServiceFacts DEF SaveDtos, Policies
        <3>5. /\ dto.service = RouteConfigMap /\ dto.profile = DefaultProfile
              /\ dto.policy = "override" /\ dto.source = x.dto /\ dto.text = Edited(x.dto, yaml)
            OBVIOUS
        <3>. HIDE DEF dto
        <3>6. update \in Tasks
            BY <1>2, <3>4 DEF Tasks, Labels
        <3>7. /\ update.at = "update" /\ update.found = data /\ update.dto = dto
              /\ update.kind = "edit" /\ update.rest = <<>> /\ update.answer = "none"
            BY <1>2, <1>5 DEF Tasks
        <3>. HIDE DEF update
        <3>8. TaskOK(update)
            BY <3>4, <3>6, <3>7 DEF TaskOK, Saving
        <3>9. HalvesOK(update) /\ WritesOK(update)
            BY <3>5, <3>7 DEF HalvesOK, WritesOK, Saving
        <3>10. MergedOK(update)
            BY <2>4, <3>1, <3>2, <3>5, <3>7 DEF MergedOK, EditMade
        <3>. QED  BY <1>5, <2>4, <3>5, <3>7, <3>8, <3>9, <3>10 DEF StepOK, y
    <2>. QED  BY <2>1, <2>2, <2>3, <2>4
<1>. QED  BY <1>1, <1>4, <1>5

(* What is saved in the gateway's config map has no routes.                *)
DtoOK(dto) == dto.service = ApiGateway => NoRoutes(dto.text) /\ ~HasRoutes(dto.source)

LEMMA IdleTyped == Idle \in Tasks /\ Idle.at = "idle" /\ Idle.rest = <<>> /\ Idle.answer = "none"
<1>1. <<>> \in Seq(SaveDtos) /\ 1 \in Nat \ {0}
    OBVIOUS
<1>. QED  BY <1>1, ServiceFacts DEF Idle, Tasks, Labels, Answers

(* A save begins with the routes, or with no gateway.                      *)
LEMMA SaveBegunOK ==
    ASSUME NEW s \in Saves
    PROVE  LET y == SaveBegun(s) IN
           /\ TaskOK(y) /\ StepOK(y) /\ y.kind = "save"
           /\ \/ y.at = "idle" /\ y.answer \in {"badRequest", "panic"}
              \/ /\ y.at = "query" /\ y.answer = "none" /\ y.dto.service # ApiGateway
                 /\ y.rest # <<>> => DtoOK(y.rest[1])
<1> DEFINE y == SaveBegun(s)
<1>1. /\ s.service \in Services /\ s.namespace \in Namespaces /\ s.profile \in Profiles
      /\ s.policy \in Policies /\ s.yaml \in Yamls
    BY ServiceAssumption
<1>2. Tree(s.yaml) \in Trees
    BY <1>1, TreeTyped
<1>3. ASSUME NEW a \in {"badRequest", "panic"}, y = [Idle EXCEPT !.kind = "save", !.answer = a]
      PROVE  TaskOK(y) /\ StepOK(y) /\ y.kind = "save" /\ y.at = "idle" /\ y.answer = a
    <2>1. y \in Tasks /\ y.kind = "save" /\ y.at = "idle" /\ y.answer = a
        BY <1>3, IdleTyped DEF Tasks, Answers
    <2>. QED  BY <2>1, IdleOK
<1>4. ASSUME NEW d \in SaveDtos, d.source \in Trees, NEW r \in Seq(SaveDtos), d.service # ApiGateway,
             r = <<>> \/ /\ r = <<r[1]>> /\ r[1] \in SaveDtos /\ r[1].source \in Trees
                         /\ d.service = RouteConfigMap
                         /\ r[1].service = ApiGateway /\ DtoOK(r[1]),
             y = [Idle EXCEPT !.at = "query", !.kind = "save", !.dto = d, !.rest = r]
      PROVE  /\ TaskOK(y) /\ StepOK(y) /\ y.kind = "save"
             /\ y.at = "query" /\ y.answer = "none" /\ y.dto.service # ApiGateway
             /\ y.rest # <<>> => DtoOK(y.rest[1])
    <2>1. y \in Tasks /\ y.kind = "save" /\ y.at = "query" /\ y.answer = "none"
          /\ y.dto = d /\ y.rest = r
        BY <1>4, IdleTyped DEF Tasks, Labels
    <2>. HIDE DEF y
    <2>2. TaskOK(y)
        BY <1>4, <2>1 DEF TaskOK, Saving
    <2>3. HalvesOK(y)
        BY <1>4, <2>1 DEF HalvesOK, Saving
    <2>4. WritesOK(y) /\ MergedOK(y)
        BY <1>4, <2>1 DEF WritesOK, MergedOK, Saving
    <2>. QED  BY <1>4, <2>1, <2>2, <2>3, <2>4 DEF StepOK
<1>5. CASE s.yaml = BadYaml
    <2>1. y = [Idle EXCEPT !.kind = "save", !.answer = "badRequest"]
        BY <1>5 DEF SaveBegun
    <2>. QED  BY <1>3, <2>1
<1>6. CASE s.yaml # BadYaml /\ s.service # ApiGateway
    <2> DEFINE d == Dto(s, Tree(s.yaml), s.yaml)
    <2>1. d \in SaveDtos /\ d.source \in Trees /\ d.service # ApiGateway
        BY <1>1, <1>2, <1>6 DEF Dto, SaveDtos
    <2>. HIDE DEF d
    <2>2. y = [Idle EXCEPT !.at = "query", !.kind = "save", !.dto = d, !.rest = <<>>]
        BY <1>6, IdleTyped DEF SaveBegun, d, Idle
    <2>3. <<>> \in Seq(SaveDtos)
        OBVIOUS
    <2>. HIDE DEF y
    <2>. QED  BY <1>4, <2>1, <2>2, <2>3 DEF y
<1>7. CASE s.yaml # BadYaml /\ s.service = ApiGateway /\ SeparatePanics(Tree(s.yaml))
    <2>1. y = [Idle EXCEPT !.kind = "save", !.answer = "panic"]
        BY <1>7 DEF SaveBegun
    <2>. QED  BY <1>3, <2>1
<1>8. CASE s.yaml # BadYaml /\ s.service = ApiGateway /\ ~SeparatePanics(Tree(s.yaml))
    <2> DEFINE d == RouteDto(s)  g == GatewayDto(s)
    <2>1. d \in SaveDtos /\ d.source \in Trees /\ d.service = RouteConfigMap
        <3>1. RouteTree(Tree(s.yaml)) \in Trees
            BY <1>2, SplitTyped
        <3>. QED  BY <1>1, <3>1, ServiceFacts DEF RouteDto, Dto, SaveDtos
    <2>2. g \in SaveDtos /\ g.source \in Trees /\ g.service = ApiGateway /\ DtoOK(g)
        <3>1. CASE s.yaml \in Texts
            <4>1. g = Dto(s, EmptyTree, NullYaml)
                BY <3>1 DEF GatewayDto
            <4>2. NullYaml \in Texts /\ NullYaml \in Yamls /\ NoRoutes(NullYaml) /\ ~HasRoutes(EmptyTree)
                BY ServiceFacts, TreeTyped DEF Texts, NoRoutes, Tree
            <4>. QED  BY <1>1, <1>8, <4>1, <4>2, EmptyTyped DEF Dto, SaveDtos, DtoOK
        <3>2. CASE s.yaml \notin Texts
            <4> DEFINE w == WithoutRoutes(s.yaml)
            <4>1. g = Dto(s, w, w)
                BY <3>2 DEF GatewayDto
            <4>2. w \in Trees /\ ~HasRoutes(w) /\ w \in Yamls /\ w \notin Texts
                BY <1>1, <3>2, SplitTyped, ServiceFacts, ServiceAssumption
            <4>. HIDE DEF w
            <4>3. NoRoutes(w)
                BY <4>2 DEF NoRoutes, Tree
            <4>. QED  BY <1>1, <1>8, <4>1, <4>2, <4>3 DEF Dto, SaveDtos, DtoOK
        <3>. QED  BY <3>1, <3>2
    <2>. HIDE DEF d, g
    <2>3. y = [Idle EXCEPT !.at = "query", !.kind = "save", !.dto = d, !.rest = <<g>>]
        BY <1>8 DEF SaveBegun, d, g, Idle
    <2>4. <<g>> \in Seq(SaveDtos) /\ <<g>>[1] = g
        BY <2>2
    <2>. HIDE DEF y
    <2>. QED  BY <1>4, <2>1, <2>2, <2>3, <2>4, ServiceFacts DEF y
<1>. QED  BY <1>5, <1>6, <1>7, <1>8

-----------------------------------------------------------------------------
(* What has been written by the time a handler is where it is.             *)
WroteOK(x, written) ==
    /\ x.at = "updated" => written[x.dto.service] # NoMap
    /\ x.at \in Saving /\ x.kind = "save" /\ x.answer = "none"
            /\ x.dto.service = ApiGateway => written[RouteConfigMap] # NoMap
    /\ x.at = "idle" /\ x.kind = "save" /\ x.answer = "ok" =>
            /\ written[x.dto.service] # NoMap
            /\ x.dto.service = ApiGateway => written[RouteConfigMap] # NoMap

(* The namespaces in which a handler has to find its config map have it,   *)
(* and are still to be asked.                                              *)
SteadyOK(x, namespaces, maps) ==
    /\ x.at \in {"load", "getCached", "scan"} =>
        \A n \in namespaces :
            /\ maps[<<x.name, n>>] # NoMap
            /\ \E m \in DOMAIN Registered : m >= x.next /\ Registered[m] = n
    /\ x.at \in {"load", "getCached"} => x.next = 1
    /\ x.answer = "notFound" => namespaces = {}

HandlerOK(x, written, namespaces, maps) ==
    TaskOK(x) /\ StepOK(x) /\ WroteOK(x, written) /\ SteadyOK(x, namespaces, maps)

ServiceInv ==
    /\ ConfigTypeOK
    /\ \A t \in Handlers : HandlerOK(task[t], wrote[t], steady[t], configMaps)

LEMMA ServiceInvParts ==
    ASSUME ServiceInv, NEW t \in Handlers
    PROVE  /\ TaskOK(task[t]) /\ StepOK(task[t]) /\ task[t] \in Tasks
           /\ WroteOK(task[t], wrote[t]) /\ SteadyOK(task[t], steady[t], configMaps)
           /\ configMaps \in [Keys -> Data \cup {NoMap}]
           /\ appNamespace \in [Services -> Namespaces \cup {NoNamespace}]
           /\ task \in [Handlers -> Tasks]
           /\ wrote \in [Handlers -> [Services -> Data \cup {NoMap}]]
           /\ steady \in [Handlers -> SUBSET Namespaces]
           /\ requests \in Nat /\ foreign \in Nat
BY DEF ServiceInv, HandlerOK, ConfigTypeOK, TaskOK

(* A step of one handler keeps the invariant if what the handler becomes   *)
(* is all right, no config map goes away, and it leaves to the others what *)
(* they have written and have to find.                                     *)
LEMMA HandlerStep ==
    ASSUME ServiceInv, NEW t \in Handlers, NEW x, Become(t, x),
           HandlerOK(x, wrote'[t], steady'[t], configMaps'),
           \A k \in Keys : configMaps[k] # NoMap => configMaps'[k] # NoMap,
           \A u \in Handlers \ {t} : wrote'[u] = wrote[u] /\ steady'[u] = steady[u],
           configMaps' \in [Keys -> Data \cup {NoMap}],
           appNamespace' \in [Services -> Namespaces \cup {NoNamespace}],
           wrote' \in [Handlers -> [Services -> Data \cup {NoMap}]],
           steady' \in [Handlers -> SUBSET Namespaces],
           requests' \in Nat, foreign' \in Nat
    PROVE  ServiceInv'
<1>1. task' = [task EXCEPT ![t] = x] /\ task \in [Handlers -> Tasks]
    BY ServiceInvParts DEF Become
<1>2. task'[t] = x /\ \A u \in Handlers \ {t} : task'[u] = task[u]
    BY <1>1
<1>3. task' \in [Handlers -> Tasks]
    BY <1>1 DEF HandlerOK, TaskOK
<1>4. ASSUME NEW u \in Handlers
      PROVE  HandlerOK(task'[u], wrote'[u], steady'[u], configMaps')
    <2>1. CASE u = t
        BY <1>2, <2>1
    <2>2. CASE u # t
        <3>1. /\ task'[u] = task[u] /\ wrote'[u] = wrote[u] /\ steady'[u] = steady[u]
              /\ task[u] \in Tasks /\ steady[u] \subseteq Namespaces
              /\ HandlerOK(task[u], wrote[u], steady[u], configMaps)
            BY <1>2, <2>2, ServiceInvParts DEF ServiceInv
        <3>2. \A n \in steady[u] : <<task[u].name, n>> \in Keys
            BY <3>1 DEF Tasks, Keys
        <3>3. SteadyOK(task[u], steady[u], configMaps')
            BY <3>1, <3>2 DEF HandlerOK, SteadyOK
        <3>. QED  BY <3>1, <3>3 DEF HandlerOK
    <2>. QED  BY <2>1, <2>2
<1>5. \A u \in Handlers : TaskOK(task'[u])
    BY <1>4 DEF HandlerOK
<1>6. ConfigTypeOK'
    BY <1>3, <1>5 DEF ConfigTypeOK, TaskOK
<1>. QED  BY <1>4, <1>6 DEF ServiceInv, HandlerOK, TaskOK, StepOK, HalvesOK, WritesOK,
                            MergedOK, EditMade, AddMade, WroteOK, SteadyOK

(* The namespaces a lookup begins with.                                    *)
LEMMA PresentTyped ==
    ASSUME NEW s \in Services
    PROVE  /\ Present(s) \subseteq Namespaces
           /\ \A n \in Present(s) :
                /\ configMaps[<<s, n>>] # NoMap
                /\ \E m \in DOMAIN Registered : m >= 1 /\ Registered[m] = n
<1>1. Registered \in Seq(Namespaces)
    BY ServiceAssumption
<1>2. \A m \in DOMAIN Registered : m >= 1 /\ Registered[m] \in Namespaces
    BY <1>1
<1>. QED  BY <1>2 DEF Present

(* What a handler writes is the config map of its request.                 *)
LEMMA WriteTyped ==
    ASSUME ServiceInv, NEW t \in Handlers, task[t].at \in Saving, NEW answered \in BOOLEAN,
           Write(t, answered)
    PROVE  LET data == newV1ConfigMap(task[t].dto.profile, task[t].dto.text) IN
           /\ KeyOf(t) \in Keys /\ data \in Data /\ data # NoMap
           /\ configMaps' = [configMaps EXCEPT ![KeyOf(t)] = data]
           /\ configMaps' \in [Keys -> Data \cup {NoMap}]
           /\ wrote' \in [Handlers -> [Services -> Data \cup {NoMap}]]
           /\ \A u \in Handlers \ {t} : wrote'[u] = wrote[u]
           /\ \A s \in Services : wrote[t][s] # NoMap => wrote'[t][s] # NoMap
           /\ answered => wrote'[t][task[t].dto.service] # NoMap
<1> DEFINE data == newV1ConfigMap(task[t].dto.profile, task[t].dto.text)
<1>1. task[t].dto \in SaveDtos
    BY DEF ServiceInv, ConfigTypeOK, TaskOK
<1>2. /\ task[t].dto.service \in Services /\ task[t].dto.namespace \in Namespaces
      /\ task[t].dto.profile \in Profiles /\ task[t].dto.text \in Yamls
    BY <1>1 DEF SaveDtos
<1>3. data \in Data /\ data # NoMap
    BY <1>2, NewMapTyped
<1>4. KeyOf(t) \in Keys
    BY <1>2 DEF KeyOf, Keys
<1>5. /\ configMaps' = [configMaps EXCEPT ![KeyOf(t)] = data]
      /\ wrote' = IF answered THEN [wrote EXCEPT ![t][task[t].dto.service] = data] ELSE wrote
    BY DEF Write
<1>6. /\ configMaps \in [Keys -> Data \cup {NoMap}]
      /\ wrote \in [Handlers -> [Services -> Data \cup {NoMap}]]
    BY DEF ServiceInv, ConfigTypeOK
<1>. HIDE DEF data
<1>7. wrote' \in [Handlers -> [Services -> Data \cup {NoMap}]]
    BY <1>2, <1>3, <1>5, <1>6
<1>8. /\ \A u \in Handlers \ {t} : wrote'[u] = wrote[u]
      /\ \A s \in Services : wrote[t][s] # NoMap => wrote'[t][s] # NoMap
      /\ answered => wrote'[t][task[t].dto.service] # NoMap
    BY <1>2, <1>3, <1>5, <1>6
<1>. QED  BY <1>3, <1>4, <1>5, <1>6, <1>7, <1>8 DEF data

LEMMA ServiceInit == Init => ServiceInv
<1>. SUFFICES ASSUME Init PROVE ServiceInv
    OBVIOUS
<1>1. Idle \in Tasks /\ TaskOK(Idle) /\ StepOK(Idle) /\ Idle.at = "idle" /\ Idle.answer = "none"
    BY IdleTyped, IdleOK
<1>2. /\ configMaps \in [Keys -> Data \cup {NoMap}]
      /\ appNamespace \in [Services -> Namespaces \cup {NoNamespace}]
      /\ wrote \in [Handlers -> [Services -> Data \cup {NoMap}]]
      /\ steady \in [Handlers -> SUBSET Namespaces]
      /\ requests \in Nat /\ foreign \in Nat
    BY ServiceAssumption DEF Init, NoWrites
<1>3. task \in [Handlers -> Tasks] /\ \A t \in Handlers : task[t] = Idle
    BY <1>1 DEF Init
<1>4. ASSUME NEW t \in Handlers
      PROVE  HandlerOK(task[t], wrote[t], steady[t], configMaps)
    <2>1. task[t].at = "idle" /\ task[t].answer = "none"
        BY <1>1, <1>3
    <2>2. WroteOK(task[t], wrote[t]) /\ SteadyOK(task[t], steady[t], configMaps)
        BY <2>1 DEF WroteOK, SteadyOK, Saving
    <2>. QED  BY <1>1, <1>3, <2>2 DEF HandlerOK
<1>. QED  BY <1>1, <1>2, <1>3, <1>4 DEF ServiceInv, ConfigTypeOK

(* A lookup that begins.                                                   *)
Asked(kind, dto) == [Idle EXCEPT !.kind = kind, !.dto = dto]

LookBegun(s, kind, dto) == [Asked(kind, dto) EXCEPT !.at = "load", !.name = s]

(* What a request looks a config map up for.                               *)
LooksWith(kind, dto) ==
    \/ kind = "poll" /\ dto \in PollDtos
    \/ kind = "edit" /\ dto \in Edits

LEMMA LookBegunOK ==
    ASSUME NEW s \in Services, NEW kind, NEW dto, LooksWith(kind, dto)
    PROVE  LET y == LookBegun(s, kind, dto) IN
           /\ TaskOK(y) /\ StepOK(y) /\ y.at = "load" /\ y.name = s /\ y.next = 1
           /\ y.answer = "none" /\ y.kind = kind /\ y.rest = <<>>
<1> DEFINE y == LookBegun(s, kind, dto)
<1>1. /\ y \in Tasks /\ y.at = "load" /\ y.name = s /\ y.kind = kind
      /\ y.dto = dto /\ y.answer = "none" /\ y.rest = <<>>
    BY IdleTyped DEF LookBegun, LooksWith, Asked, Tasks, Labels
<1>2. y.next = 1
    BY DEF LookBegun, Asked, Idle
<1>. HIDE DEF y
<1>3. TaskOK(y) /\ StepOK(y)
    BY <1>1 DEF LooksWith, TaskOK, StepOK, HalvesOK, WritesOK, MergedOK, Saving
<1>. QED  BY <1>1, <1>2, <1>3 DEF y

(* A handler that looks a config map up is at its next call, has found it, *)
(* or has come to the last namespace.                                      *)
Looking == {"load", "getCached", "scan", "store"}

LookedAt(x, at, ns, next, found) ==
    [x EXCEPT !.at = at, !.namespace = ns, !.next = next, !.found = found]

LEMMA LookOK ==
    ASSUME NEW x, TaskOK(x), StepOK(x), x.at \in Looking,
           NEW at \in Looking, NEW ns \in Namespaces \cup {NoNamespace},
           NEW next \in Nat \ {0}, NEW found \in Data \cup {NoMap},
           at \in {"getCached", "store"} => ns \in Namespaces,
           at = "store" => found \in Data
    PROVE  LET y == LookedAt(x, at, ns, next, found) IN
           /\ TaskOK(y) /\ StepOK(y)
           /\ y.at = at /\ y.name = x.name /\ y.next = next /\ y.kind = x.kind
           /\ y.answer = "none" /\ x.answer = "none"
<1> DEFINE y == LookedAt(x, at, ns, next, found)
<1>1. /\ x \in Tasks /\ x.at # "idle" /\ x.at \notin Saving
      /\ \/ x.kind = "poll" /\ x.dto \in PollDtos
         \/ x.kind = "edit" /\ x.dto \in Edits
    BY DEF TaskOK, Looking, Saving
<1>2. x.answer = "none" /\ x.rest = <<>>
    BY <1>1 DEF TaskOK, StepOK, HalvesOK
<1>3. at \in Labels /\ at \notin Saving /\ at # "idle"
    BY DEF Looking, Labels, Saving
<1>4. y \in Tasks
    BY <1>1, <1>3 DEF LookedAt, Tasks
<1>5. /\ y.at = at /\ y.name = x.name /\ y.next = next /\ y.kind = x.kind /\ y.answer = "none"
      /\ y.rest = <<>> /\ y.dto = x.dto /\ y.namespace = ns /\ y.found = found
    BY <1>1, <1>2 DEF LookedAt, Tasks
<1>. HIDE DEF y
<1>6. TaskOK(y)
    BY <1>1, <1>3, <1>4, <1>5 DEF TaskOK, Looking
<1>7. HalvesOK(y) /\ WritesOK(y) /\ MergedOK(y)
    BY <1>3, <1>5 DEF HalvesOK, WritesOK, MergedOK, Saving
<1>. QED  BY <1>2, <1>5, <1>6, <1>7 DEF y, StepOK

-----------------------------------------------------------------------------
(* Each step.                                                              *)
LEMMA BeginKeeps ==
    ASSUME ServiceInv, NEW t \in Handlers, NEW x, Begin(t, x),
           TaskOK(x), StepOK(x), WroteOK(x, NoWrites), SteadyOK(x, steady'[t], configMaps),
           \A u \in Handlers \ {t} : steady'[u] = steady[u],
           steady' \in [Handlers -> SUBSET Namespaces]
    PROVE  ServiceInv'
<1>1. /\ Become(t, x) /\ wrote' = [wrote EXCEPT ![t] = NoWrites]
      /\ requests' = requests + 1 /\ foreign' = foreign
      /\ configMaps' = configMaps /\ appNamespace' = appNamespace
    BY DEF Begin
<1>2. /\ wrote \in [Handlers -> [Services -> Data \cup {NoMap}]]
      /\ NoWrites \in [Services -> Data \cup {NoMap}]
    BY ServiceInvParts DEF NoWrites
<1>3. /\ wrote' \in [Handlers -> [Services -> Data \cup {NoMap}]]
      /\ wrote'[t] = NoWrites /\ \A u \in Handlers \ {t} : wrote'[u] = wrote[u]
    BY <1>1, <1>2
<1>4. HandlerOK(x, wrote'[t], steady'[t], configMaps')
    BY <1>1, <1>3 DEF HandlerOK
<1>5. /\ configMaps' \in [Keys -> Data \cup {NoMap}]
      /\ appNamespace' \in [Services -> Namespaces \cup {NoNamespace}]
      /\ requests' \in Nat /\ foreign' \in Nat
    BY <1>1, ServiceInvParts
<1>. QED  BY <1>1, <1>3, <1>4, <1>5, HandlerStep

LEMMA SaveKeeps ==
    ASSUME ServiceInv, NEW t \in Handlers, NEW s \in Saves, Save(t, s)
    PROVE  ServiceInv'
<1> DEFINE x == SaveBegun(s)
<1>1. /\ TaskOK(x) /\ StepOK(x)
      /\ \/ x.at = "idle" /\ x.answer \in {"badRequest", "panic"}
         \/ x.at = "query" /\ x.answer = "none" /\ x.dto.service # ApiGateway
    BY SaveBegunOK
<1>2. Begin(t, x) /\ steady' = steady
    BY DEF Save
<1>. HIDE DEF x
<1>3. WroteOK(x, NoWrites) /\ SteadyOK(x, steady'[t], configMaps)
    BY <1>1 DEF WroteOK, SteadyOK, Saving
<1>. QED  BY <1>1, <1>2, <1>3, BeginKeeps, ServiceInvParts

LEMMA LookForKeeps ==
    ASSUME ServiceInv, NEW t \in Handlers, NEW s \in Services, NEW kind, NEW dto,
           LooksWith(kind, dto),
           LookFor(t, s, Asked(kind, dto))
    PROVE  ServiceInv'
<1> DEFINE x == LookBegun(s, kind, dto)
<1>1. /\ TaskOK(x) /\ StepOK(x) /\ x.at = "load" /\ x.name = s /\ x.next = 1
      /\ x.answer = "none"
    BY LookBegunOK
<1>2. Begin(t, x) /\ steady' = [steady EXCEPT ![t] = Present(s)]
    BY DEF LookFor, LookBegun
<1>. HIDE DEF x
<1>3. /\ steady' \in [Handlers -> SUBSET Namespaces] /\ steady'[t] = Present(s)
      /\ \A u \in Handlers \ {t} : steady'[u] = steady[u]
    BY <1>2, PresentTyped, ServiceInvParts
<1>4. WroteOK(x, NoWrites) /\ SteadyOK(x, steady'[t], configMaps)
    BY <1>1, <1>3, PresentTyped DEF WroteOK, SteadyOK, Saving
<1>. QED  BY <1>1, <1>2, <1>3, <1>4, BeginKeeps

LEMMA PollKeeps ==
    ASSUME ServiceInv, NEW t \in Handlers, NEW s \in Services, NEW p \in Profiles, Poll(t, s, p)
    PROVE  ServiceInv'
<1>1. PICK dto \in PollDtos : dto = [profile |-> p]
    BY DEF PollDtos
<1>2. LookFor(t, s, Asked("poll", dto))
    BY <1>1 DEF Poll, Asked
<1>3. LooksWith("poll", dto)
    BY DEF LooksWith
<1>. QED  BY <1>2, <1>3, LookForKeeps, Zenon

LEMMA EditRouteKeeps ==
    ASSUME ServiceInv, NEW t \in Handlers, NEW edit \in Edits, EditRoute(t, edit)
    PROVE  ServiceInv'
<1>1. LookFor(t, RouteConfigMap, Asked("edit", edit))
    BY DEF EditRoute, Asked
<1>2. LooksWith("edit", edit)
    BY DEF LooksWith
<1>3. RouteConfigMap \in Services
    BY ServiceFacts
<1>. QED  BY <1>1, <1>2, <1>3, LookForKeeps, Zenon

(* A step that changes no config map and no handler's namespaces but one's. *)
LEMMA LookKeeps ==
    ASSUME ServiceInv, NEW t \in Handlers, NEW x, Become(t, x), TaskOK(x), StepOK(x),
           WroteOK(x, wrote[t]), SteadyOK(x, steady'[t], configMaps),
           NEW n \in SUBSET Namespaces, steady' = [steady EXCEPT ![t] = n],
           UNCHANGED <<configMaps, wrote, bounds>>,
           appNamespace' \in [Services -> Namespaces \cup {NoNamespace}]
    PROVE  ServiceInv'
<1>1. /\ steady' \in [Handlers -> SUBSET Namespaces]
      /\ \A u \in Handlers \ {t} : steady'[u] = steady[u]
    BY ServiceInvParts
<1>2. configMaps' = configMaps /\ wrote' = wrote /\ requests' = requests /\ foreign' = foreign
    BY DEF bounds
<1>3. HandlerOK(x, wrote'[t], steady'[t], configMaps')
    BY <1>2 DEF HandlerOK
<1>. QED  BY <1>1, <1>2, <1>3, HandlerStep, ServiceInvParts

LEMMA LoadKeeps ==
    ASSUME ServiceInv, NEW t \in Handlers, Load(t)
    PROVE  ServiceInv'
<1> DEFINE x == task[t]
           ns == appNamespace[x.name]
           at == IF ns = NoNamespace THEN "scan" ELSE "getCached"
           y == LookedAt(x, at, ns, x.next, x.found)
<1>1. /\ x \in Tasks /\ TaskOK(x) /\ StepOK(x) /\ SteadyOK(x, steady[t], configMaps)
      /\ x.at = "load" /\ x.name \in Services
      /\ x.next \in Nat \ {0} /\ x.found \in Data \cup {NoMap}
    BY ServiceInvParts DEF Load, At, Tasks
<1>2. ns \in Namespaces \cup {NoNamespace}
    BY <1>1, ServiceInvParts
<1>3. at \in {"scan", "getCached"} /\ (at = "getCached" => ns \in Namespaces)
    BY <1>2
<1>4. Become(t, y)
    <2>1. y = [x EXCEPT !.at = at, !.namespace = ns]
        BY <1>1 DEF LookedAt, Tasks
    <2>. QED  BY <2>1 DEF Load
<1>. HIDE DEF x, ns, at
<1>5. /\ TaskOK(y) /\ StepOK(y) /\ y.at = at /\ y.name = x.name /\ y.next = x.next
      /\ y.answer = "none"
    BY <1>1, <1>2, <1>3, LookOK DEF Looking
<1>. HIDE DEF y
<1>6. steady' = [steady EXCEPT ![t] = steady[t]] /\ steady'[t] = steady[t]
    BY ServiceInvParts DEF Load
<1>7. WroteOK(y, wrote[t]) /\ SteadyOK(y, steady[t], configMaps)
    BY <1>1, <1>3, <1>5 DEF WroteOK, SteadyOK, Saving
<1>8. UNCHANGED <<configMaps, wrote, bounds, appNamespace>>
    BY DEF Load
<1>. QED  BY <1>4, <1>5, <1>6, <1>7, <1>8, LookKeeps, ServiceInvParts

(* A request uses the config map it has found.                             *)
LEMMA UseKeeps ==
    ASSUME ServiceInv, NEW t \in Handlers, task[t].at \in {"getCached", "store"},
           NEW data \in Data, NEW namespace \in Namespaces, Use(t, data, namespace),
           UNCHANGED <<configMaps, wrote, bounds>>,
           appNamespace' \in [Services -> Namespaces \cup {NoNamespace}]
    PROVE  ServiceInv'
<1> DEFINE y == Used(task[t], data, namespace)
<1>1. TaskOK(task[t]) /\ StepOK(task[t]) /\ steady \in [Handlers -> SUBSET Namespaces]
    BY ServiceInvParts
<1>2. /\ TaskOK(y) /\ StepOK(y) /\ y.kind # "save"
      /\ \/ y.at = "idle" /\ y.answer # "notFound"
         \/ y.at = "load" /\ LooksOn(task[t]) /\ y.name = RouteConfigMap /\ y.next = 1
         \/ y.at = "update" /\ y.dto.service = RouteConfigMap /\ y.rest = <<>>
    BY <1>1, UsedOK
<1>3. Become(t, y) /\ steady' = IF LooksOn(task[t])
                        THEN [steady EXCEPT ![t] = Present(RouteConfigMap)] ELSE steady
    BY DEF Use
<1>. HIDE DEF y
<1>4. y.at # "idle" => y.answer # "notFound"
    BY <1>2 DEF TaskOK
<1>5. WroteOK(y, wrote[t])
    BY <1>2 DEF WroteOK
<1> DEFINE n == IF LooksOn(task[t]) THEN Present(RouteConfigMap) ELSE steady[t]
<1>6. n \subseteq Namespaces
    BY <1>1, PresentTyped, ServiceFacts
<1>7. steady' = [steady EXCEPT ![t] = n] /\ steady'[t] = n
    BY <1>1, <1>3
<1>8. SteadyOK(y, n, configMaps)
    BY <1>2, <1>4, PresentTyped, ServiceFacts DEF SteadyOK
<1>. HIDE DEF n
<1>. QED  BY <1>2, <1>3, <1>5, <1>6, <1>7, <1>8, LookKeeps

LEMMA GetCachedKeeps ==
    ASSUME ServiceInv, NEW t \in Handlers, GetCached(t)
    PROVE  ServiceInv'
<1> DEFINE x == task[t]
           data == configMaps[<<x.name, x.namespace>>]
<1>1. /\ x \in Tasks /\ TaskOK(x) /\ StepOK(x) /\ SteadyOK(x, steady[t], configMaps)
      /\ x.at = "getCached" /\ x.namespace \in Namespaces /\ x.name \in Services
      /\ x.next \in Nat \ {0} /\ x.found \in Data \cup {NoMap}
    BY ServiceInvParts DEF GetCached, At, Tasks, TaskOK
<1>2. UNCHANGED <<configMaps, wrote, bounds, appNamespace>>
    BY DEF GetCached
<1>3. CASE data # NoMap /\ Use(t, data, x.namespace)
    <2>1. data \in Data
        BY <1>1, <1>3, ServiceInvParts DEF Keys
    <2>. QED  BY <1>1, <1>2, <1>3, <2>1, UseKeeps, ServiceInvParts
<1>4. CASE Become(t, [x EXCEPT !.at = "scan"]) /\ steady' = steady
    <2> DEFINE y == LookedAt(x, "scan", x.namespace, x.next, x.found)
    <2>1. Become(t, y)
        <3>1. y = [x EXCEPT !.at = "scan"]
            BY <1>1 DEF LookedAt, Tasks
        <3>. QED  BY <1>4, <3>1
    <2>2. /\ TaskOK(y) /\ StepOK(y) /\ y.at = "scan" /\ y.name = x.name /\ y.next = x.next
          /\ y.answer = "none"
        BY <1>1, LookOK DEF Looking
    <2>. HIDE DEF y
    <2>3. WroteOK(y, wrote[t]) /\ SteadyOK(y, steady[t], configMaps)
        BY <1>1, <2>2 DEF WroteOK, SteadyOK, Saving
    <2>4. steady' = [steady EXCEPT ![t] = steady[t]] /\ steady'[t] = steady[t]
        BY <1>4, ServiceInvParts
    <2>. QED  BY <1>2, <2>1, <2>2, <2>3, <2>4, LookKeeps, ServiceInvParts
<1>. QED  BY <1>3, <1>4 DEF GetCached

LEMMA ScanKeeps ==
    ASSUME ServiceInv, NEW t \in Handlers, Scan(t)
    PROVE  ServiceInv'
<1> DEFINE x == task[t]
           namespace == Registered[x.next]
           data == configMaps[<<x.name, namespace>>]
<1>1. /\ x \in Tasks /\ TaskOK(x) /\ StepOK(x) /\ SteadyOK(x, steady[t], configMaps)
      /\ x.at = "scan" /\ x.next \in DOMAIN Registered /\ x.name \in Services
      /\ x.next \in Nat \ {0} /\ x.found \in Data \cup {NoMap}
      /\ x.namespace \in Namespaces \cup {NoNamespace}
    BY ServiceInvParts DEF Scan, At, Tasks
<1>2. UNCHANGED <<configMaps, wrote, bounds, appNamespace>>
    BY DEF Scan
<1>3. namespace \in Namespaces
    BY <1>1, ServiceFacts
<1>4. CASE /\ data # NoMap /\ steady' = steady
           /\ Become(t, [x EXCEPT !.at = "store", !.found = data, !.namespace = namespace])
    <2> DEFINE y == LookedAt(x, "store", namespace, x.next, data)
    <2>1. data \in Data
        BY <1>1, <1>3, <1>4, ServiceInvParts DEF Keys
    <2>. HIDE DEF data, namespace
    <2>2. Become(t, y)
        <3>1. y = [x EXCEPT !.at = "store", !.found = data, !.namespace = namespace]
            BY <1>1 DEF LookedAt, Tasks
        <3>. QED  BY <1>4, <3>1
    <2>3. TaskOK(y) /\ StepOK(y) /\ y.at = "store" /\ y.answer = "none"
        BY <1>1, <1>3, <2>1, LookOK DEF Looking
    <2>. HIDE DEF y
    <2>4. WroteOK(y, wrote[t]) /\ SteadyOK(y, steady[t], configMaps)
        BY <2>3 DEF WroteOK, SteadyOK, Saving
    <2>5. steady' = [steady EXCEPT ![t] = steady[t]] /\ steady'[t] = steady[t]
        BY <1>4, ServiceInvParts
    <2>. QED  BY <1>2, <2>2, <2>3, <2>4, <2>5, LookKeeps, ServiceInvParts
<1>5. CASE /\ Become(t, [x EXCEPT !.next = @ + 1])
           /\ steady' = [steady EXCEPT ![t] = @ \ {namespace}]
    <2> DEFINE next == x.next + 1
               y == LookedAt(x, "scan", x.namespace, next, x.found)
    <2>1. next \in Nat \ {0} /\ \A m \in Nat : m >= x.next /\ m # x.next => m >= next
        BY <1>1
    <2>2. Become(t, y)
        <3>1. y = [x EXCEPT !.next = @ + 1]
            BY <1>1 DEF LookedAt, Tasks
        <3>. QED  BY <1>5, <3>1
    <2>. HIDE DEF next
    <2>3. /\ TaskOK(y) /\ StepOK(y) /\ y.at = "scan" /\ y.answer = "none"
          /\ y.name = x.name /\ y.next = next
        BY <1>1, <2>1, LookOK DEF Looking
    <2>. HIDE DEF y
    <2>4. WroteOK(y, wrote[t])
        BY <2>3 DEF WroteOK, Saving
    <2>5. /\ steady' = [steady EXCEPT ![t] = steady[t] \ {namespace}]
          /\ steady'[t] = steady[t] \ {namespace} /\ steady[t] \in SUBSET Namespaces
        BY <1>5, ServiceInvParts
    <2>6. SteadyOK(y, steady[t] \ {namespace}, configMaps)
        <3>1. ASSUME NEW n \in steady[t] \ {namespace}
              PROVE  /\ configMaps[<<y.name, n>>] # NoMap
                     /\ \E m \in DOMAIN Registered : m >= y.next /\ Registered[m] = n
            <4>1. PICK m \in DOMAIN Registered : m >= x.next /\ Registered[m] = n
                BY <1>1 DEF SteadyOK
            <4>2. m \in Nat /\ m # x.next
                BY <3>1, <4>1, ServiceAssumption
            <4>3. m >= next
                BY <2>1, <4>1, <4>2
            <4>. QED  BY <1>1, <2>3, <4>1, <4>3 DEF SteadyOK
        <3>. QED  BY <2>3, <3>1 DEF SteadyOK
    <2>. QED  BY <1>2, <2>2, <2>3, <2>4, <2>5, <2>6, LookKeeps, ServiceInvParts
<1>. QED  BY <1>4, <1>5 DEF Scan

LEMMA ScanFailsKeeps ==
    ASSUME ServiceInv, NEW t \in Handlers, ScanFails(t)
    PROVE  ServiceInv'
<1> DEFINE x == task[t]
           y == Ended(Answered(x, "notFound"))
<1>1. /\ x \in Tasks /\ TaskOK(x) /\ StepOK(x) /\ SteadyOK(x, steady[t], configMaps)
      /\ x.at = "scan" /\ x.next \notin DOMAIN Registered /\ x.next \in Nat \ {0}
    BY ServiceInvParts DEF ScanFails, At, Tasks
<1>2. x.kind # "save" /\ x.answer = "none"
    BY <1>1 DEF TaskOK
<1>3. /\ y \in Tasks /\ y.at = "idle" /\ y.kind # "save" /\ y.answer = "notFound"
      /\ TaskOK(y) /\ StepOK(y)
    BY <1>1, <1>2, EndedTyped, IdleOK DEF Answers, First
<1>4. /\ Become(t, y) /\ steady' = [steady EXCEPT ![t] = steady[t]] /\ steady'[t] = steady[t]
      /\ UNCHANGED <<configMaps, wrote, bounds, appNamespace>>
    BY ServiceInvParts DEF ScanFails
<1>. HIDE DEF y
<1>5. steady[t] = {}
    <2>1. ASSUME NEW m \in DOMAIN Registered
          PROVE  ~(m >= x.next)
        BY <1>1, ServiceAssumption
    <2>. QED  BY <1>1, <2>1 DEF SteadyOK
<1>6. WroteOK(y, wrote[t]) /\ SteadyOK(y, steady[t], configMaps)
    BY <1>3, <1>5 DEF WroteOK, SteadyOK, Saving
<1>. QED  BY <1>3, <1>4, <1>6, LookKeeps, ServiceInvParts

LEMMA StoreFoundKeeps ==
    ASSUME ServiceInv, NEW t \in Handlers, StoreFound(t)
    PROVE  ServiceInv'
<1>1. /\ task[t].at = "store" /\ task[t].found \in Data /\ task[t].namespace \in Namespaces
      /\ task[t].name \in Services
    BY ServiceInvParts DEF StoreFound, At, TaskOK, Tasks
<1>2. appNamespace' \in [Services -> Namespaces \cup {NoNamespace}]
    BY <1>1, ServiceInvParts DEF StoreFound
<1>. QED  BY <1>1, <1>2, UseKeeps DEF StoreFound

(* A step of a save, or of the Update of an edit, that leaves the          *)
(* namespaces of all handlers as they are.                                 *)
LEMMA SavingKeeps ==
    ASSUME ServiceInv, NEW t \in Handlers, NEW x, Become(t, x), TaskOK(x), StepOK(x),
           x.at \in Saving \cup {"idle"}, x.answer # "notFound", WroteOK(x, wrote'[t]),
           \A k \in Keys : configMaps[k] # NoMap => configMaps'[k] # NoMap,
           \A u \in Handlers \ {t} : wrote'[u] = wrote[u],
           configMaps' \in [Keys -> Data \cup {NoMap}],
           wrote' \in [Handlers -> [Services -> Data \cup {NoMap}]],
           appNamespace' \in [Services -> Namespaces \cup {NoNamespace}],
           UNCHANGED <<steady, bounds>>
    PROVE  ServiceInv'
<1>1. steady' = steady /\ requests' = requests /\ foreign' = foreign
    BY DEF bounds
<1>2. SteadyOK(x, steady'[t], configMaps')
    BY DEF SteadyOK, Saving
<1>3. HandlerOK(x, wrote'[t], steady'[t], configMaps')
    BY <1>2 DEF HandlerOK
<1>. QED  BY <1>1, <1>3, HandlerStep, ServiceInvParts

(* The end of one half, with what the handler has written until then.      *)
LEMMA HalfDoneWrote ==
    ASSUME NEW x, TaskOK(x), StepOK(x), x.at \in Saving, NEW written, WroteOK(x, written),
           NEW a \in {"ok", "error", "notModified"}, a = "ok" => x.at = "updated"
    PROVE  LET y == HalfDone(x, a) IN
           /\ TaskOK(y) /\ StepOK(y) /\ WroteOK(y, written)
           /\ y.at \in Saving \cup {"idle"} /\ y.answer # "notFound"
<1> DEFINE y == HalfDone(x, a)
<1>1. /\ TaskOK(y) /\ StepOK(y) /\ y.kind = x.kind
      /\ x.rest = <<>> => y.at = "idle" /\ y.dto = x.dto /\ y.answer = First(x, a)
      /\ x.rest # <<>> =>
            /\ y.at = "query" /\ y.dto = x.rest[1]
            /\ y.answer = IF a = "ok" THEN x.answer ELSE First(x, a)
    BY HalfDoneOK
<1>. HIDE DEF y
<1>2. x.answer \in {"none", "error", "notModified"}
    BY DEF TaskOK, Saving
<1>3. CASE x.rest = <<>>
    <2>1. y.at = "idle" /\ y.dto = x.dto /\ y.answer \in {"ok", "error", "notModified"}
        BY <1>1, <1>2, <1>3 DEF First
    <2>2. y.answer = "ok" => a = "ok" /\ x.answer = "none"
        BY <1>1, <1>2, <1>3 DEF First
    <2>3. WroteOK(y, written)
        BY <1>1, <2>1, <2>2 DEF WroteOK, Saving
    <2>. QED  BY <1>1, <2>1, <2>3 DEF y
<1>4. CASE x.rest # <<>>
    <2>1. y.at = "query" /\ y.answer \in {"none", "error", "notModified"}
        BY <1>1, <1>2, <1>4 DEF First
    <2>2. y.answer = "none" => a = "ok" /\ x.answer = "none"
        BY <1>1, <1>2, <1>4 DEF First
    <2>3. x.dto.service = RouteConfigMap
        BY <1>4 DEF StepOK, HalvesOK, Saving
    <2>4. WroteOK(y, written)
        BY <2>1, <2>2, <2>3 DEF WroteOK
    <2>. QED  BY <1>1, <2>1, <2>4 DEF y, Saving
<1>. QED  BY <1>3, <1>4

(* Deciding what to write writes nothing.                                  *)
LEMMA DecidedWrote ==
    ASSUME NEW x, TaskOK(x), StepOK(x), x.at \in {"query", "created"}, NEW written,
           WroteOK(x, written), NEW data \in Data
    PROVE  LET y == Decided(x, data) IN
           /\ TaskOK(y) /\ StepOK(y) /\ WroteOK(y, written)
           /\ y.at \in Saving \cup {"idle"} /\ y.answer # "notFound"
<1> DEFINE y == Decided(x, data)
<1>0. x.at \in Saving /\ x \in Tasks /\ x.dto \in SaveDtos /\ x.answer # "notFound"
    BY DEF Saving, TaskOK
<1>1. TaskOK(y) /\ StepOK(y)
    BY DecidedOK
<1>2. CASE y = HalfDone(x, "notModified")
    BY <1>0, <1>2, HalfDoneWrote
<1>3. CASE y.at = "idle" /\ y.answer = "panic"
    <2>. HIDE DEF y
    <2>. QED  BY <1>1, <1>3 DEF WroteOK, Saving, y
<1>4. ASSUME NEW text \in Yamls, y = Writing(x, data, text)
      PROVE  WroteOK(y, written) /\ y.at \in Saving \cup {"idle"} /\ y.answer # "notFound"
    <2>1. /\ y.at = "update" /\ y.kind = x.kind /\ y.answer = x.answer
          /\ y.dto.service = x.dto.service
        BY <1>0, <1>4 DEF Writing, Tasks, SaveDtos
    <2>. HIDE DEF y
    <2>. QED  BY <1>0, <2>1 DEF WroteOK, Saving
<1>. QED  BY <1>1, <1>2, <1>3, <1>4, DecidedOK

LEMMA QueryKeeps ==
    ASSUME ServiceInv, NEW t \in Handlers, Query(t)
    PROVE  ServiceInv'
<1> DEFINE x == task[t]
<1>1. /\ TaskOK(x) /\ StepOK(x) /\ WroteOK(x, wrote[t]) /\ x.at = "query" /\ x \in Tasks
      /\ x.dto \in SaveDtos
    BY ServiceInvParts DEF Query, At, TaskOK, Saving
<1>2. KeyOf(t) \in Keys
    BY <1>1 DEF KeyOf, Keys, SaveDtos
<1>3. ASSUME NEW y, Become(t, y), TaskOK(y), StepOK(y), WroteOK(y, wrote[t]),
             y.at \in Saving \cup {"idle"}, y.answer # "notFound"
      PROVE  ServiceInv'
    <2>1. configMaps' = configMaps /\ wrote' = wrote /\ appNamespace' = appNamespace
          /\ UNCHANGED <<steady, bounds>>
        BY DEF Query
    <2>. QED  BY <1>3, <2>1, SavingKeeps, ServiceInvParts
<1>4. CASE /\ configMaps[KeyOf(t)] # NoMap
           /\ Become(t, Decided(x, configMaps[KeyOf(t)]))
    <2>1. configMaps[KeyOf(t)] \in Data
        BY <1>2, <1>4, ServiceInvParts
    <2>. QED  BY <1>1, <1>3, <1>4, <2>1, DecidedWrote
<1>5. CASE Become(t, [x EXCEPT !.at = "create"])
    <2> DEFINE y == [x EXCEPT !.at = "create"]
    <2>1. y \in Tasks
        BY <1>1 DEF Tasks, Labels
    <2>2. /\ y.at = "create" /\ y.kind = x.kind /\ y.dto = x.dto /\ y.rest = x.rest
          /\ y.answer = x.answer
        BY <1>1 DEF Tasks
    <2>. HIDE DEF y
    <2>3. TaskOK(y) /\ y.answer # "notFound"
        BY <1>1, <2>1, <2>2 DEF TaskOK, Saving
    <2>4. HalvesOK(y) /\ WritesOK(y) /\ MergedOK(y)
        BY <1>1, <2>2 DEF StepOK, HalvesOK, WritesOK, MergedOK, Saving
    <2>5. WroteOK(y, wrote[t])
        BY <1>1, <2>2 DEF WroteOK, Saving
    <2>. QED  BY <1>3, <1>5, <2>2, <2>3, <2>4, <2>5 DEF StepOK, Saving, y
<1>. QED  BY <1>4, <1>5 DEF Query

LEMMA FailKeeps ==
    ASSUME ServiceInv, NEW t \in Handlers, task[t].at \in {"create", "update"}, Fail(t),
           Write(t, FALSE) \/ UNCHANGED <<configMaps, wrote>>,
           UNCHANGED <<appNamespace, steady, bounds>>
    PROVE  ServiceInv'
<1>1. /\ TaskOK(task[t]) /\ StepOK(task[t]) /\ WroteOK(task[t], wrote[t])
      /\ task[t].at \in Saving
    BY ServiceInvParts DEF Saving
<1>2. /\ \A k \in Keys : configMaps[k] # NoMap => configMaps'[k] # NoMap
      /\ configMaps' \in [Keys -> Data \cup {NoMap}] /\ wrote' = wrote
    <2>1. CASE Write(t, FALSE)
        <3>1. wrote' = wrote
            BY <2>1 DEF Write
        <3>. QED  BY <1>1, <2>1, <3>1, WriteTyped, ServiceInvParts
    <2>2. CASE UNCHANGED <<configMaps, wrote>>
        BY <2>2, ServiceInvParts
    <2>. QED  BY <2>1, <2>2
<1> DEFINE y == HalfDone(task[t], "error")
<1>3. /\ TaskOK(y) /\ StepOK(y) /\ WroteOK(y, wrote[t])
      /\ y.at \in Saving \cup {"idle"} /\ y.answer # "notFound"
    BY <1>1, HalfDoneWrote
<1>4. Become(t, y)
    BY DEF Fail
<1>. HIDE DEF y
<1>. QED  BY <1>2, <1>3, <1>4, SavingKeeps, ServiceInvParts

(* A handler that has written.                                             *)
LEMMA WrittenKeeps ==
    ASSUME ServiceInv, NEW t \in Handlers, NEW y, Become(t, y), TaskOK(y), StepOK(y),
           task[t].at \in {"create", "update"}, Write(t, TRUE),
           y.at \in {"created", "updated"}, y.kind = task[t].kind, y.dto = task[t].dto,
           y.answer = task[t].answer, UNCHANGED <<appNamespace, steady, bounds>>
    PROVE  ServiceInv'
<1>1. /\ TaskOK(task[t]) /\ WroteOK(task[t], wrote[t]) /\ task[t].at \in Saving
      /\ task[t].answer # "notFound"
    BY ServiceInvParts DEF Saving, TaskOK
<1>2. /\ configMaps' \in [Keys -> Data \cup {NoMap}]
      /\ \A k \in Keys : configMaps[k] # NoMap => configMaps'[k] # NoMap
      /\ wrote' \in [Handlers -> [Services -> Data \cup {NoMap}]]
      /\ \A u \in Handlers \ {t} : wrote'[u] = wrote[u]
      /\ wrote[t][RouteConfigMap] # NoMap => wrote'[t][RouteConfigMap] # NoMap
      /\ wrote'[t][task[t].dto.service] # NoMap
    BY <1>1, WriteTyped, ServiceFacts, ServiceInvParts
<1>3. WroteOK(y, wrote'[t])
    BY <1>1, <1>2 DEF WroteOK, Saving
<1>. QED  BY <1>1, <1>2, <1>3, SavingKeeps, ServiceInvParts DEF Saving

LEMMA CreateKeeps ==
    ASSUME ServiceInv, NEW t \in Handlers, Create(t)
    PROVE  ServiceInv'
<1> DEFINE x == task[t]
           data == newV1ConfigMap(x.dto.profile, x.dto.text)
           y == [x EXCEPT !.at = "created", !.found = data]
<1>1. /\ TaskOK(x) /\ StepOK(x) /\ x.at = "create" /\ x \in Tasks /\ x.dto \in SaveDtos
      /\ UNCHANGED <<appNamespace, steady, bounds>>
    BY ServiceInvParts DEF Create, At, TaskOK, Saving
<1>2. CASE Write(t, TRUE) /\ Become(t, y)
    <2>1. data \in Data
        BY <1>1, NewMapTyped DEF SaveDtos
    <2>. HIDE DEF data
    <2>2. y \in Tasks
        BY <1>1, <2>1 DEF Tasks, Labels
    <2>3. /\ y.at = "created" /\ y.kind = x.kind /\ y.dto = x.dto /\ y.rest = x.rest
          /\ y.answer = x.answer /\ y.found = data
        BY <1>1 DEF Tasks
    <2>. HIDE DEF y
    <2>4. TaskOK(y)
        BY <1>1, <2>1, <2>2, <2>3 DEF TaskOK, Saving
    <2>5. HalvesOK(y) /\ WritesOK(y) /\ MergedOK(y)
        BY <1>1, <2>3 DEF StepOK, HalvesOK, WritesOK, MergedOK, Saving
    <2>. QED  BY <1>1, <1>2, <2>3, <2>4, <2>5, WrittenKeeps DEF StepOK
<1>. QED  BY <1>1, <1>2, FailKeeps DEF Create

LEMMA StoreTyped ==
    ASSUME ServiceInv, NEW t \in Handlers, task[t].at \in Saving, StoreNamespace(t)
    PROVE  appNamespace' \in [Services -> Namespaces \cup {NoNamespace}]
BY ServiceInvParts DEF StoreNamespace, TaskOK, SaveDtos

LEMMA CreatedKeeps ==
    ASSUME ServiceInv, NEW t \in Handlers, Created(t)
    PROVE  ServiceInv'
<1> DEFINE y == Decided(task[t], task[t].found)
<1>1. /\ TaskOK(task[t]) /\ StepOK(task[t]) /\ WroteOK(task[t], wrote[t])
      /\ task[t].at = "created" /\ task[t].found \in Data
      /\ Become(t, y) /\ StoreNamespace(t) /\ UNCHANGED <<configMaps, wrote, steady, bounds>>
    BY ServiceInvParts DEF Created, At, TaskOK
<1>2. /\ TaskOK(y) /\ StepOK(y) /\ WroteOK(y, wrote[t])
      /\ y.at \in Saving \cup {"idle"} /\ y.answer # "notFound"
    BY <1>1, DecidedWrote
<1>. HIDE DEF y
<1>. QED  BY <1>1, <1>2, SavingKeeps, StoreTyped, ServiceInvParts DEF Saving

LEMMA UpdateKeeps ==
    ASSUME ServiceInv, NEW t \in Handlers, Update(t)
    PROVE  ServiceInv'
<1> DEFINE x == task[t]
           y == [x EXCEPT !.at = "updated"]
<1>1. /\ TaskOK(x) /\ StepOK(x) /\ x.at = "update" /\ x \in Tasks
      /\ UNCHANGED <<appNamespace, steady, bounds>>
    BY ServiceInvParts DEF Update, At
<1>2. CASE Write(t, TRUE) /\ Become(t, y)
    <2>1. y \in Tasks
        BY <1>1 DEF Tasks, Labels
    <2>2. /\ y.at = "updated" /\ y.kind = x.kind /\ y.dto = x.dto /\ y.rest = x.rest
          /\ y.answer = x.answer
        BY <1>1 DEF Tasks
    <2>. HIDE DEF y
    <2>3. TaskOK(y)
        BY <1>1, <2>1, <2>2 DEF TaskOK, Saving
    <2>4. HalvesOK(y) /\ WritesOK(y) /\ MergedOK(y)
        BY <1>1, <2>2 DEF StepOK, HalvesOK, WritesOK, MergedOK, Saving
    <2>. QED  BY <1>1, <1>2, <2>2, <2>3, <2>4, WrittenKeeps DEF StepOK
<1>. QED  BY <1>1, <1>2, FailKeeps DEF Update

LEMMA UpdatedKeeps ==
    ASSUME ServiceInv, NEW t \in Handlers, Updated(t)
    PROVE  ServiceInv'
<1> DEFINE y == HalfDone(task[t], "ok")
<1>1. /\ TaskOK(task[t]) /\ StepOK(task[t]) /\ WroteOK(task[t], wrote[t])
      /\ task[t].at = "updated" /\ task[t].at \in Saving
      /\ Become(t, y) /\ StoreNamespace(t) /\ UNCHANGED <<configMaps, wrote, steady, bounds>>
    BY ServiceInvParts DEF Updated, At, Saving
<1>2. /\ TaskOK(y) /\ StepOK(y) /\ WroteOK(y, wrote[t])
      /\ y.at \in Saving \cup {"idle"} /\ y.answer # "notFound"
    BY <1>1, HalfDoneWrote
<1>. HIDE DEF y
<1>. QED  BY <1>1, <1>2, SavingKeeps, StoreTyped, ServiceInvParts

LEMMA ForeignKeeps ==
    ASSUME ServiceInv, NEW k \in Keys, NEW data \in Data \cup {NoMap}, Foreign(k, data)
    PROVE  ServiceInv'
<1>1. /\ configMaps' = [configMaps EXCEPT ![k] = data]
      /\ steady' = IF data # NoMap THEN steady
                   ELSE [t \in Handlers |-> IF task[t].name = k[1] THEN steady[t] \ {k[2]}
                                            ELSE steady[t]]
      /\ appNamespace' = appNamespace /\ task' = task /\ wrote' = wrote
      /\ requests' = requests /\ foreign' = foreign + 1
    BY DEF Foreign
<1>2. /\ configMaps \in [Keys -> Data \cup {NoMap}] /\ task \in [Handlers -> Tasks]
      /\ steady \in [Handlers -> SUBSET Namespaces]
      /\ ConfigTypeOK /\ \A t \in Handlers : HandlerOK(task[t], wrote[t], steady[t], configMaps)
    BY DEF ServiceInv, ConfigTypeOK
<1>3. /\ configMaps' \in [Keys -> Data \cup {NoMap}]
      /\ steady' \in [Handlers -> SUBSET Namespaces]
    BY <1>1, <1>2
<1>4. ASSUME NEW t \in Handlers
      PROVE  HandlerOK(task[t], wrote[t], steady'[t], configMaps')
    <2>1. /\ task[t].name \in Services /\ steady[t] \subseteq Namespaces
          /\ SteadyOK(task[t], steady[t], configMaps)
        BY <1>2 DEF Tasks, HandlerOK
    <2>2. steady'[t] \subseteq steady[t]
        BY <1>1, <1>2
    <2>3. ASSUME NEW n \in steady'[t], configMaps[<<task[t].name, n>>] # NoMap
          PROVE  configMaps'[<<task[t].name, n>>] # NoMap
        <3>1. <<task[t].name, n>> \in Keys
            BY <2>1, <2>2 DEF Keys
        <3>2. CASE <<task[t].name, n>> # k
            BY <1>1, <1>2, <2>3, <3>1, <3>2
        <3>3. CASE <<task[t].name, n>> = k
            <4>1. task[t].name = k[1] /\ n = k[2]
                BY <3>3
            <4>2. data # NoMap
                BY <1>1, <1>2, <2>3, <4>1
            <4>. QED  BY <1>1, <1>2, <3>1, <3>3, <4>2
        <3>. QED  BY <3>2, <3>3
    <2>4. SteadyOK(task[t], steady'[t], configMaps')
        BY <2>1, <2>2, <2>3 DEF SteadyOK
    <2>. QED  BY <1>2, <2>4 DEF HandlerOK
<1>5. ConfigTypeOK'
    BY <1>1, <1>2, <1>3 DEF ConfigTypeOK, TaskOK
<1>. QED  BY <1>1, <1>4, <1>5 DEF ServiceInv, HandlerOK, TaskOK, StepOK, HalvesOK, WritesOK,
                                 MergedOK, EditMade, AddMade, WroteOK, SteadyOK

(* The invariant of the config service.                                    *)
LEMMA ServiceStep == ServiceInv /\ [Next]_vars => ServiceInv'
<1>. SUFFICES ASSUME ServiceInv, [Next]_vars PROVE ServiceInv'
    OBVIOUS
<1>1. ASSUME NEW t \in Handlers, Step(t)
      PROVE  ServiceInv'
    BY <1>1, QueryKeeps, CreateKeeps, CreatedKeeps, UpdateKeeps, UpdatedKeeps, LoadKeeps,
       GetCachedKeeps, ScanKeeps, ScanFailsKeeps, StoreFoundKeeps DEF Step
<1>2. ASSUME NEW t \in Handlers, Request(t)
      PROVE  ServiceInv'
    BY <1>2, SaveKeeps, PollKeeps, EditRouteKeeps DEF Request
<1>3. ASSUME NEW k \in Keys, Foreign(k, NoMap)
      PROVE  ServiceInv'
    BY <1>3, ForeignKeeps
<1>4. ASSUME NEW k \in Keys, NEW yaml \in ForeignYaml,
             Foreign(k, newV1ConfigMap(DefaultProfile, yaml))
      PROVE  ServiceInv'
    <2>1. newV1ConfigMap(DefaultProfile, yaml) \in Data
        BY NewMapTyped, ServiceAssumption
    <2>. QED  BY <1>4, <2>1, ForeignKeeps
<1>5. CASE UNCHANGED vars
    BY <1>5 DEF vars, ServiceInv, HandlerOK, ConfigTypeOK, TaskOK, StepOK, HalvesOK, WritesOK,
                MergedOK, EditMade, AddMade, WroteOK, SteadyOK
<1>. QED  BY <1>1, <1>2, <1>3, <1>4, <1>5 DEF Next

LEMMA ServiceHolds == Spec => []ServiceInv
BY ServiceInit, ServiceStep, PTL DEF Spec

(* Every variable has its type, and every handler what its next call is    *)
(* about.                                                                  *)
THEOREM ConfigTyped == Spec => []ConfigTypeOK
<1>1. ServiceInv => ConfigTypeOK
    BY DEF ServiceInv
<1>. QED  BY <1>1, ServiceHolds, PTL

(* A Save that is answered 200 has written every config map it is about.   *)
THEOREM SaveIsWritten == Spec => []SavedIsWritten
<1>1. ServiceInv => SavedIsWritten
    BY DEF ServiceInv, HandlerOK, WroteOK, SavedIsWritten, At
<1>. QED  BY <1>1, ServiceHolds, PTL

(* A config map that is there all the time is found, if no call fails.     *)
THEOREM PresentFound == Spec => []PresentIsFound
<1>1. ServiceInv => PresentIsFound
    BY DEF ServiceInv, HandlerOK, SteadyOK, PresentIsFound
<1>. QED  BY <1>1, ServiceHolds, PTL

-----------------------------------------------------------------------------
(* A handler's request moves on by its own steps only.                     *)
LEMMA OwnSteps ==
    ASSUME ServiceInv, Next, NEW t \in Handlers, task'[t] # task[t]
    PROVE  Step(t) \/ Request(t)
<1>1. task \in [Handlers -> Tasks]
    BY DEF ServiceInv, ConfigTypeOK
<1>2. ASSUME NEW u \in Handlers, NEW x, Become(u, x)
      PROVE  u = t
    BY <1>1, <1>2 DEF Become
<1>3. ASSUME NEW u \in Handlers, Step(u)
      PROVE  u = t
    BY <1>2, <1>3 DEF Step, Query, Create, Created, Update, Updated, Fail, Load, GetCached,
                      Scan, ScanFails, StoreFound, Use
<1>4. ASSUME NEW u \in Handlers, Request(u)
      PROVE  u = t
    BY <1>2, <1>4 DEF Request, Save, Poll, EditRoute, LookFor, Begin
<1>5. ASSUME NEW k, NEW data, Foreign(k, data)
      PROVE  FALSE
    BY <1>5 DEF Foreign
<1>. QED  BY <1>3, <1>4, <1>5 DEF Next

(* What an Update that nobody has raced replaces, and by what.             *)
LEMMA UnracedWrites ==
    ASSUME ServiceInv, Next, NEW t \in Handlers, Unraced(t)
    PROVE  /\ NewProfile(t) = task[t].dto.text
           /\ Profile(t) = task[t].found[task[t].dto.profile] /\ Profile(t) \in Yamls
           /\ task[t].at = "update" /\ MergedOK(task[t]) /\ WritesOK(task[t])
<1>1. /\ task[t].at = "update" /\ task'[t].at # "update"
      /\ task[t].found = configMaps[KeyOf(t)] /\ configMaps' # configMaps
    BY DEF Unraced, At
<1>2. /\ TaskOK(task[t]) /\ StepOK(task[t]) /\ task[t].dto \in SaveDtos
      /\ task[t].found \in Data /\ task[t].at \in Saving
      /\ configMaps \in [Keys -> Data \cup {NoMap}]
    BY <1>1, ServiceInvParts DEF TaskOK, Saving
<1>3. Step(t) \/ Request(t)
    BY <1>1, OwnSteps
<1>4. Update(t)
    BY <1>1, <1>3 DEF Step, Query, Create, Created, Updated, Load, GetCached, Scan, ScanFails,
                      StoreFound, Request, Save, Poll, EditRoute, LookFor, Begin, At
<1>5. PICK answered \in BOOLEAN : Write(t, answered)
    BY <1>1, <1>4 DEF Update
<1>6. KeyOf(t) \in Keys
    BY <1>2 DEF KeyOf, Keys, SaveDtos
<1>7. configMaps'[KeyOf(t)] = newV1ConfigMap(task[t].dto.profile, task[t].dto.text)
    BY <1>2, <1>5, <1>6 DEF Write
<1>8. task[t].dto.profile \in Profiles /\ task[t].dto.text \in Yamls
    BY <1>2 DEF SaveDtos
<1>9. NewProfile(t) = task[t].dto.text
    BY <1>7, <1>8, NewMapTyped DEF NewProfile
<1>10. task[t].found[task[t].dto.profile] \in Yamls
    BY <1>2, <1>8 DEF Data
<1>. QED  BY <1>1, <1>2, <1>9, <1>10 DEF Profile, StepOK

(* A request about one route leaves the other routes, and what else is     *)
(* under zuul, as they are, unless it is raced.                            *)
THEOREM EditsAreExact == Spec => EditIsExact
<1> DEFINE Exact(t) ==
        task[t].kind = "edit" /\ Unraced(t) =>
            LET edit == task[t].dto.source
                old == Profile(t)[ZuulNode]
                new == NewProfile(t)[ZuulNode]
            IN  /\ \A k \in Names \ {RoutesNode} : new[k] = old[k]
                /\ \A k \in Names \ {edit.name} : new[RoutesNode][k] = old[RoutesNode][k]
                /\ Has(new[RoutesNode], edit.name) <=> edit.path # NoKey
<1>1. ASSUME ServiceInv, Next, NEW t \in Handlers, task[t].kind = "edit", Unraced(t)
      PROVE  Exact(t)
    <2>1. /\ NewProfile(t) = task[t].dto.text /\ EditMade(task[t])
          /\ Profile(t) = task[t].found[DefaultProfile]
        BY <1>1, UnracedWrites DEF MergedOK, EditMade
    <2>2. /\ Profile(t) \in Trees /\ task[t].dto.source \in Edits
          /\ ~EditPanics(task[t].dto.source, Profile(t))
          /\ NewProfile(t) = Edited(task[t].dto.source, Profile(t))
        BY <2>1 DEF EditMade
    <2>. QED  BY <2>2, EditTyped
<1>2. ServiceInv /\ [Next]_vars => [\A t \in Handlers : Exact(t)]_vars
    BY <1>1
<1>. HIDE DEF Exact
<1>3. Spec => [][\A t \in Handlers : Exact(t)]_vars
    BY <1>2, ServiceHolds, PTL DEF Spec
<1>. QED  BY <1>3 DEF Exact, EditIsExact

(* A Save with the policy "add" keeps what the profile has and adds what   *)
(* it has not, unless it is raced.                                         *)
THEOREM AddsAreExact == Spec => AddIsExact
<1> DEFINE Exact(t) ==
        /\ task[t].kind = "save" /\ Unraced(t) /\ task[t].dto.policy = "add"
        /\ Profile(t) \notin Texts
        => IsAdd(Profile(t), task[t].dto.source, NewProfile(t))
<1>1. ASSUME ServiceInv, Next, NEW t \in Handlers, task[t].kind = "save", Unraced(t),
             task[t].dto.policy = "add", Profile(t) \notin Texts
      PROVE  Exact(t)
    <2>1. /\ NewProfile(t) = recursiveAdd(Profile(t), task[t].dto.source)
          /\ task[t].dto.source \in Trees /\ Profile(t) \in Yamls
        BY <1>1, UnracedWrites DEF MergedOK, AddMade, WritesOK, Saving
    <2>2. Profile(t) \in Trees
        BY <1>1, <2>1, ServiceFacts
    <2>. QED  BY <2>1, <2>2, AddExact
<1>2. ServiceInv /\ [Next]_vars => [\A t \in Handlers : Exact(t)]_vars
    BY <1>1
<1>. HIDE DEF Exact
<1>3. Spec => [][\A t \in Handlers : Exact(t)]_vars
    BY <1>2, ServiceHolds, PTL DEF Spec
<1>. QED  BY <1>3 DEF Exact, AddIsExact

(* A Save with the policy "not" changes no config map that exists.         *)
THEOREM NotKeeps == Spec => NotKeepsExisting
<1> DEFINE Keeps(t) ==
        Moves(t) /\ task[t].at \notin {"idle", "load", "getCached", "scan", "store"}
            /\ task[t].dto.policy = "not" =>
            \A k \in Keys : configMaps[k] # NoMap => configMaps'[k] = configMaps[k]
<1>1. ASSUME ServiceInv, Next, NEW t \in Handlers, Moves(t),
             task[t].at \notin {"idle", "load", "getCached", "scan", "store"},
             task[t].dto.policy = "not",
             NEW k \in Keys, configMaps[k] # NoMap
      PROVE  configMaps'[k] = configMaps[k]
    <2>1. Step(t) \/ Request(t)
        BY <1>1, OwnSteps DEF Moves
    <2>2. task[t].at \notin {"update", "updated"} /\ configMaps \in [Keys -> Data \cup {NoMap}]
        BY <1>1, ServiceInvParts DEF StepOK, WritesOK
    <2>3. Query(t) \/ Create(t) \/ Created(t)
        BY <1>1, <2>1, <2>2 DEF Step, Update, Updated, Load, GetCached, Scan, ScanFails,
                      StoreFound, Request, Save, Poll, EditRoute, LookFor, Begin, At
    <2>4. ASSUME NEW answered, configMaps[KeyOf(t)] = NoMap, Write(t, answered)
          PROVE  configMaps'[k] = configMaps[k]
        <3>1. k # KeyOf(t)
            BY <1>1, <2>4
        <3>. QED  BY <2>2, <2>4, <3>1 DEF Write
    <2>. QED  BY <2>3, <2>4 DEF Query, Create, Created
<1>2. ServiceInv /\ [Next]_vars => [\A t \in Handlers : Keeps(t)]_vars
    BY <1>1
<1>. HIDE DEF Keeps
<1>3. Spec => [][\A t \in Handlers : Keeps(t)]_vars
    BY <1>2, ServiceHolds, PTL DEF Spec
<1>. QED  BY <1>3 DEF Keeps, NotKeepsExisting

-----------------------------------------------------------------------------
(* What a handler is about to write into the gateway's config map has no   *)
(* routes: neither what it was given nor, once created, what it found.     *)
RoutesOK(x) ==
    /\ x.at \in Saving => DtoOK(x.dto)
    /\ x.at # "idle" /\ x.rest # <<>> => DtoOK(x.rest[1])
    /\ x.at = "created" /\ x.dto.service = ApiGateway =>
            \A p \in Profiles : NoRoutes(x.found[p])

RoutesInv == GatewayHoldsNoRoutes /\ \A t \in Handlers : RoutesOK(task[t])

(* Only a save writes to the gateway.                                      *)
LEMMA OthersRoutes ==
    ASSUME NEW y, TaskOK(y), StepOK(y), y.kind # "save" \/ y.at \in Looking
    PROVE  RoutesOK(y)
<1>1. y.at \in {"query", "create", "created"} => y.kind = "save"
    BY DEF StepOK, WritesOK
<1>2. y.at \in Saving => y.dto.service = RouteConfigMap
    BY <1>1 DEF StepOK, WritesOK, Saving, Looking
<1>3. y.at = "idle" \/ y.rest = <<>>
    BY DEF StepOK, HalvesOK, Saving, Looking
<1>. QED  BY <1>1, <1>2, <1>3, ServiceFacts DEF RoutesOK, DtoOK, Looking

LEMMA HalfDoneRoutes ==
    ASSUME NEW x, TaskOK(x), StepOK(x), x.at \in Saving, RoutesOK(x),
           NEW a \in {"ok", "error", "notModified"}
    PROVE  RoutesOK(HalfDone(x, a))
<1> DEFINE y == HalfDone(x, a)
<1>1. /\ x.rest = <<>> => y.at = "idle"
      /\ x.rest # <<>> => y.at = "query" /\ y.dto = x.rest[1] /\ y.rest = <<>>
    BY HalfDoneOK
<1>2. x.rest # <<>> => DtoOK(x.rest[1])
    BY DEF RoutesOK, Saving
<1>. HIDE DEF y
<1>. QED  BY <1>1, <1>2 DEF RoutesOK, Saving, y

(* What is merged into a configuration without routes has none.            *)
LEMMA DecidedRoutes ==
    ASSUME NEW x, TaskOK(x), StepOK(x), x.at \in {"query", "created"}, RoutesOK(x),
           NEW data \in Data,
           x.dto.service = ApiGateway => \A p \in Profiles : NoRoutes(data[p])
    PROVE  RoutesOK(Decided(x, data))
<1> DEFINE y == Decided(x, data)
<1>1. /\ x \in Tasks /\ x.at \in Saving /\ x.dto \in SaveDtos /\ x.dto.source \in Trees
      /\ x.dto.profile \in Profiles /\ DtoOK(x.dto)
      /\ x.rest # <<>> => DtoOK(x.rest[1])
    BY DEF TaskOK, StepOK, WritesOK, SaveDtos, Saving, RoutesOK
<1>2. CASE y = HalfDone(x, "notModified")
    BY <1>1, <1>2, HalfDoneRoutes
<1>3. CASE y.at = "idle"
    <2>. HIDE DEF y
    <2>. QED  BY <1>3 DEF RoutesOK, Saving, y
<1>4. ASSUME NEW text \in Yamls, y = Writing(x, data, text),
             \/ text = x.dto.text
             \/ /\ data[x.dto.profile] # NoYaml
                /\ text = processProperty(x.dto, data[x.dto.profile])
      PROVE  RoutesOK(y)
    <2>1. /\ y.at = "update" /\ y.rest = x.rest /\ y.dto.service = x.dto.service
          /\ y.dto.text = text /\ y.dto.source = x.dto.source
        BY <1>1, <1>4 DEF Writing, Tasks, SaveDtos
    <2>. HIDE DEF y
    <2>2. x.dto.service = ApiGateway => NoRoutes(text)
        <3>1. CASE text = x.dto.text
            BY <1>1, <3>1 DEF DtoOK
        <3>2. CASE /\ data[x.dto.profile] # NoYaml
                   /\ text = processProperty(x.dto, data[x.dto.profile])
            <4>1. data[x.dto.profile] \in Yamls
                BY <1>1 DEF Data
            <4>. QED  BY <1>1, <3>2, <4>1, ProcessTyped DEF DtoOK, NoRoutes
        <3>. QED  BY <1>4, <3>1, <3>2
    <2>3. DtoOK(y.dto)
        BY <1>1, <2>1, <2>2 DEF DtoOK
    <2>. QED  BY <1>1, <2>1, <2>3 DEF RoutesOK
<1>. QED  BY <1>2, <1>3, <1>4, DecidedOK

(* A step that writes nothing, or what a handler has to write, leaves the  *)
(* gateway without routes.                                                 *)
LEMMA WriteRoutes ==
    ASSUME ServiceInv, RoutesInv, NEW t \in Handlers, task[t].at \in Saving,
           NEW answered, Write(t, answered)
    PROVE  GatewayHoldsNoRoutes'
<1> DEFINE data == newV1ConfigMap(task[t].dto.profile, task[t].dto.text)
<1>1. /\ task[t].dto.profile \in Profiles /\ task[t].dto.text \in Yamls /\ DtoOK(task[t].dto)
      /\ configMaps \in [Keys -> Data \cup {NoMap}]
    BY ServiceInvParts DEF TaskOK, SaveDtos, RoutesInv, RoutesOK
<1>2. configMaps' = [configMaps EXCEPT ![KeyOf(t)] = data]
    BY DEF Write
<1>3. \A p \in Profiles : data[p] \in {task[t].dto.text, NoYaml}
    BY <1>1, NewMapTyped
<1>4. NoRoutes(NoYaml)
    BY ServiceFacts, TreeTyped DEF NoRoutes, Texts
<1>. HIDE DEF data
<1>5. ASSUME NEW n \in Namespaces, NEW p \in Profiles, configMaps'[<<ApiGateway, n>>] # NoMap
      PROVE  NoRoutes(configMaps'[<<ApiGateway, n>>][p])
    <2>1. <<ApiGateway, n>> \in Keys
        BY ServiceFacts DEF Keys
    <2>2. CASE <<ApiGateway, n>> = KeyOf(t)
        <3>1. task[t].dto.service = ApiGateway /\ configMaps'[<<ApiGateway, n>>] = data
            BY <1>1, <1>2, <2>1, <2>2 DEF KeyOf
        <3>. QED  BY <1>1, <1>3, <1>4, <3>1 DEF DtoOK
    <2>3. CASE <<ApiGateway, n>> # KeyOf(t)
        <3>1. configMaps'[<<ApiGateway, n>>] = configMaps[<<ApiGateway, n>>]
            BY <1>1, <1>2, <2>1, <2>3
        <3>. QED  BY <1>5, <3>1 DEF RoutesInv, GatewayHoldsNoRoutes, RoutesKeptOut
    <2>. QED  BY <2>2, <2>3
<1>. QED  BY <1>5 DEF GatewayHoldsNoRoutes, RoutesKeptOut

(* The config maps of the gateway after a step of a handler.               *)
LEMMA StepRoutes ==
    ASSUME ServiceInv, RoutesInv, NEW t \in Handlers, Step(t) \/ Request(t)
    PROVE  GatewayHoldsNoRoutes'
<1>1. CASE configMaps' = configMaps
    BY <1>1 DEF RoutesInv, GatewayHoldsNoRoutes, RoutesKeptOut, NoRoutes
<1>2. CASE Create(t) \/ Update(t)
    <2>1. task[t].at \in Saving
        BY <1>2 DEF Create, Update, At, Saving
    <2>2. UNCHANGED <<configMaps, wrote>> \/ \E answered \in BOOLEAN : Write(t, answered)
        BY <1>2 DEF Create, Update
    <2>. QED  BY <1>1, <2>1, <2>2, WriteRoutes
<1>. QED  BY <1>1, <1>2 DEF Step, Query, Created, Updated, Load, GetCached, Scan, ScanFails,
                    StoreFound, Request, Save, Poll, EditRoute, LookFor, Begin

(* What a handler is about after a step of its save.                       *)
LEMMA SavingRoutes ==
    ASSUME ServiceInv, RoutesInv, NEW t \in Handlers,
           Query(t) \/ Create(t) \/ Created(t) \/ Update(t) \/ Updated(t)
    PROVE  RoutesOK(task'[t])
<1> DEFINE x == task[t]
<1>1. /\ TaskOK(x) /\ StepOK(x) /\ RoutesOK(x) /\ x \in Tasks
      /\ task \in [Handlers -> Tasks] /\ configMaps \in [Keys -> Data \cup {NoMap}]
      /\ x.at \in Saving /\ x.dto \in SaveDtos
    BY ServiceInvParts DEF RoutesInv, Query, Create, Created, Update, Updated, At, TaskOK, Saving
<1>2. \A y : Become(t, y) => task'[t] = y
    BY <1>1 DEF Become
<1>3. /\ x.dto.service \in Services /\ x.dto.namespace \in Namespaces
      /\ x.dto.profile \in Profiles /\ x.dto.text \in Yamls /\ KeyOf(t) \in Keys
    BY <1>1 DEF SaveDtos, KeyOf, Keys
<1>. HIDE DEF x
<1>4. ASSUME NEW a \in {"ok", "error", "notModified"}, Become(t, HalfDone(x, a))
      PROVE  RoutesOK(task'[t])
    BY <1>1, <1>2, <1>4, HalfDoneRoutes
<1>5. ASSUME NEW y, Become(t, y), y.at \in {"create", "updated"}, y.dto = x.dto,
             y.rest = x.rest
      PROVE  RoutesOK(task'[t])
    BY <1>1, <1>2, <1>5 DEF RoutesOK, Saving
<1>6. CASE Query(t)
    <2>1. CASE configMaps[KeyOf(t)] # NoMap /\ Become(t, Decided(x, configMaps[KeyOf(t)]))
        <3> DEFINE data == configMaps[KeyOf(t)]
        <3>1. data \in Data /\ x.at = "query"
            BY <1>1, <1>3, <1>6, <2>1 DEF Query, At, x
        <3>2. x.dto.service = ApiGateway => \A p \in Profiles : NoRoutes(data[p])
            <4>1. KeyOf(t) = <<x.dto.service, x.dto.namespace>>
                BY DEF KeyOf, x
            <4>. QED  BY <1>3, <2>1, <4>1 DEF RoutesInv, GatewayHoldsNoRoutes, RoutesKeptOut
        <3>. HIDE DEF data
        <3>3. RoutesOK(Decided(x, data))
            BY <1>1, <3>1, <3>2, DecidedRoutes
        <3>. QED  BY <1>2, <2>1, <3>3 DEF data
    <2>2. CASE Become(t, [x EXCEPT !.at = "create"])
        <3> DEFINE y == [x EXCEPT !.at = "create"]
        <3>1. y.at = "create" /\ y.dto = x.dto /\ y.rest = x.rest
            BY <1>1 DEF Tasks
        <3>. HIDE DEF y
        <3>. QED  BY <1>5, <2>2, <3>1 DEF y
    <2>. QED  BY <1>6, <2>1, <2>2 DEF Query, x
<1>7. CASE Create(t)
    <2> DEFINE data == newV1ConfigMap(x.dto.profile, x.dto.text)
               y == [x EXCEPT !.at = "created", !.found = data]
    <2>1. CASE Become(t, y)
        <3>1. y.at = "created" /\ y.dto = x.dto /\ y.rest = x.rest /\ y.found = data
            BY <1>1 DEF Tasks
        <3>2. DtoOK(x.dto) /\ (x.rest # <<>> => DtoOK(x.rest[1]))
            BY <1>1 DEF RoutesOK, Saving
        <3>3. \A p \in Profiles : data[p] \in {x.dto.text, NoYaml}
            BY <1>3, NewMapTyped
        <3>4. NoRoutes(NoYaml)
            BY ServiceFacts, TreeTyped DEF NoRoutes, Texts
        <3>. HIDE DEF data, y
        <3>5. x.dto.service = ApiGateway => \A p \in Profiles : NoRoutes(data[p])
            BY <3>2, <3>3, <3>4 DEF DtoOK
        <3>6. RoutesOK(y)
            BY <3>1, <3>2, <3>5 DEF RoutesOK
        <3>. QED  BY <1>2, <2>1, <3>6
    <2>2. CASE Fail(t)
        BY <1>4, <2>2 DEF Fail, x
    <2>. QED  BY <1>7, <2>1, <2>2 DEF Create, x
<1>8. CASE Created(t)
    <2>1. x.at = "created" /\ x.found \in Data /\ Become(t, Decided(x, x.found))
        BY <1>1, <1>8 DEF Created, At, TaskOK, x
    <2>2. x.dto.service = ApiGateway => \A p \in Profiles : NoRoutes(x.found[p])
        BY <1>1, <2>1 DEF RoutesOK
    <2>. QED  BY <1>1, <1>2, <2>1, <2>2, DecidedRoutes
<1>9. CASE Update(t)
    <2>1. CASE Become(t, [x EXCEPT !.at = "updated"])
        <3> DEFINE y == [x EXCEPT !.at = "updated"]
        <3>1. y.at = "updated" /\ y.dto = x.dto /\ y.rest = x.rest
            BY <1>1 DEF Tasks
        <3>. HIDE DEF y
        <3>. QED  BY <1>5, <2>1, <3>1 DEF y
    <2>2. CASE Fail(t)
        BY <1>4, <2>2 DEF Fail, x
    <2>. QED  BY <1>9, <2>1, <2>2 DEF Update, x
<1>10. CASE Updated(t)
    BY <1>4, <1>10 DEF Updated, x
<1>. QED  BY <1>6, <1>7, <1>8, <1>9, <1>10

(* A handler that looks a config map up is not at a save.                  *)
LEMMA LookingRoutes ==
    ASSUME ServiceInv, ServiceInv', NEW t \in Handlers,
           Load(t) \/ GetCached(t) \/ Scan(t) \/ ScanFails(t) \/ StoreFound(t)
    PROVE  RoutesOK(task'[t])
<1> DEFINE x == task[t]
<1>1. /\ TaskOK(x) /\ StepOK(x) /\ x \in Tasks /\ task \in [Handlers -> Tasks]
      /\ configMaps \in [Keys -> Data \cup {NoMap}] /\ x.at \in Looking
    BY ServiceInvParts DEF Load, GetCached, Scan, ScanFails, StoreFound, At, Looking
<1>2. \A y : Become(t, y) => task'[t] = y
    BY <1>1 DEF Become
<1>3. TaskOK(task'[t]) /\ StepOK(task'[t])
    <2>1. \A u \in Handlers : HandlerOK(task'[u], wrote'[u], steady'[u], configMaps')
        BY DEF ServiceInv, HandlerOK, TaskOK, StepOK, HalvesOK, WritesOK, MergedOK, EditMade,
               AddMade, WroteOK, SteadyOK
    <2>. QED  BY <2>1 DEF HandlerOK
<1>4. x.kind # "save"
    BY <1>1 DEF TaskOK, Looking
<1>. HIDE DEF x
<1>5. ASSUME NEW y, Become(t, y), y.kind = x.kind \/ y.at \in Looking
      PROVE  RoutesOK(task'[t])
    BY <1>2, <1>3, <1>4, <1>5, OthersRoutes
<1>6. ASSUME x.at \in {"getCached", "store"}, NEW data \in Data, NEW namespace \in Namespaces,
             Use(t, data, namespace)
      PROVE  RoutesOK(task'[t])
    <2>1. Used(x, data, namespace).kind = x.kind
        BY <1>1, <1>6, UsedOK
    <2>. QED  BY <1>5, <1>6, <2>1 DEF Use, x
<1>7. CASE Load(t)
    <2> DEFINE at == IF appNamespace[x.name] = NoNamespace THEN "scan" ELSE "getCached"
               y == [x EXCEPT !.at = at, !.namespace = appNamespace[x.name]]
    <2>1. y.kind = x.kind
        BY <1>1 DEF Tasks
    <2>. QED  BY <1>5, <1>7, <2>1 DEF Load, x
<1>8. CASE GetCached(t)
    <2>1. x.at = "getCached" /\ x.namespace \in Namespaces /\ x.name \in Services
        BY <1>1, <1>8 DEF GetCached, At, TaskOK, Tasks, x
    <2>2. configMaps[<<x.name, x.namespace>>] \in Data \cup {NoMap}
        BY <1>1, <2>1 DEF Keys
    <2>3. [x EXCEPT !.at = "scan"].kind = x.kind
        BY <1>1 DEF Tasks
    <2>. QED  BY <1>5, <1>6, <1>8, <2>1, <2>2, <2>3 DEF GetCached, x
<1>9. CASE Scan(t)
    <2>1. ASSUME NEW data, NEW namespace
          PROVE  [x EXCEPT !.at = "store", !.found = data, !.namespace = namespace].kind = x.kind
        BY <1>1 DEF Tasks
    <2>2. [x EXCEPT !.next = @ + 1].kind = x.kind
        BY <1>1 DEF Tasks
    <2>. QED  BY <1>5, <1>9, <2>1, <2>2 DEF Scan, x
<1>10. CASE ScanFails(t)
    <2>1. Ended(Answered(x, "notFound")).kind = x.kind
        BY <1>1, EndedTyped DEF Answers
    <2>. QED  BY <1>5, <1>10, <2>1 DEF ScanFails, x
<1>11. CASE StoreFound(t)
    <2>1. x.at = "store" /\ x.found \in Data /\ x.namespace \in Namespaces
        BY <1>1, <1>11 DEF StoreFound, At, TaskOK, x
    <2>. QED  BY <1>6, <1>11, <2>1 DEF StoreFound, x
<1>. QED  BY <1>7, <1>8, <1>9, <1>10, <1>11

LEMMA RequestRoutes ==
    ASSUME ServiceInv, ServiceInv', NEW t \in Handlers, Request(t)
    PROVE  RoutesOK(task'[t])
<1>1. task \in [Handlers -> Tasks]
    BY ServiceInvParts
<1>2. ASSUME NEW s \in Saves, Save(t, s)
      PROVE  RoutesOK(task'[t])
    <2> DEFINE y == SaveBegun(s)
    <2>1. task'[t] = y
        BY <1>1, <1>2 DEF Save, Begin, Become
    <2>2. \/ y.at = "idle"
          \/ /\ y.at = "query" /\ y.dto.service # ApiGateway
             /\ y.rest # <<>> => DtoOK(y.rest[1])
        BY SaveBegunOK
    <2>. HIDE DEF y
    <2>. QED  BY <2>1, <2>2 DEF RoutesOK, DtoOK, Saving
<1>3. ASSUME NEW s \in Services, NEW kind, NEW dto, LooksWith(kind, dto),
             LookFor(t, s, Asked(kind, dto))
      PROVE  RoutesOK(task'[t])
    <2> DEFINE y == LookBegun(s, kind, dto)
    <2>1. task'[t] = y
        BY <1>1, <1>3 DEF LookFor, LookBegun, Begin, Become
    <2>2. TaskOK(y) /\ StepOK(y) /\ y.at = "load"
        BY <1>3, LookBegunOK
    <2>. HIDE DEF y
    <2>. QED  BY <2>1, <2>2, OthersRoutes DEF Looking
<1>4. ASSUME NEW s \in Services, NEW p \in Profiles, Poll(t, s, p)
      PROVE  RoutesOK(task'[t])
    <2>1. PICK dto \in PollDtos : dto = [profile |-> p]
        BY DEF PollDtos
    <2>2. LookFor(t, s, Asked("poll", dto)) /\ LooksWith("poll", dto)
        BY <1>4, <2>1 DEF Poll, Asked, LooksWith
    <2>. QED  BY <1>3, <2>2, Zenon
<1>5. ASSUME NEW edit \in Edits, EditRoute(t, edit)
      PROVE  RoutesOK(task'[t])
    <2>1. LookFor(t, RouteConfigMap, Asked("edit", edit)) /\ LooksWith("edit", edit)
        BY <1>5 DEF EditRoute, Asked, LooksWith
    <2>2. RouteConfigMap \in Services
        BY ServiceFacts
    <2>. QED  BY <1>3, <2>1, <2>2, Zenon
<1>. QED  BY <1>2, <1>4, <1>5 DEF Request

LEMMA RoutesInit ==
    ASSUME OthersWriteNoRoutes
    PROVE  Init => RoutesInv
<1>1. Idle.at = "idle"
    BY IdleTyped
<1>2. RoutesOK(Idle)
    BY <1>1 DEF RoutesOK, Saving
<1>. QED  BY <1>2 DEF Init, RoutesInv, GatewayHoldsNoRoutes, OthersWriteNoRoutes

LEMMA RoutesStep ==
    ASSUME OthersWriteNoRoutes, ServiceInv, ServiceInv', RoutesInv, [Next]_vars
    PROVE  RoutesInv'
<1>1. GatewayHoldsNoRoutes'
    <2>1. ASSUME NEW t \in Handlers, Step(t) \/ Request(t)
          PROVE  GatewayHoldsNoRoutes'
        BY <2>1, StepRoutes
    <2>2. ASSUME NEW k \in Keys, NEW data \in Data \cup {NoMap}, Foreign(k, data),
                 data # NoMap => \A p \in Profiles : NoRoutes(data[p])
          PROVE  GatewayHoldsNoRoutes'
        <3>1. /\ configMaps' = [configMaps EXCEPT ![k] = data]
              /\ configMaps \in [Keys -> Data \cup {NoMap}]
            BY <2>2 DEF Foreign, ServiceInv, ConfigTypeOK
        <3>2. \A n \in Namespaces : <<ApiGateway, n>> \in Keys
            BY ServiceFacts DEF Keys
        <3>3. \A n \in Namespaces : configMaps'[<<ApiGateway, n>>] \in
                                        {configMaps[<<ApiGateway, n>>], data}
            BY <3>1, <3>2
        <3>. QED  BY <2>2, <3>3 DEF RoutesInv, GatewayHoldsNoRoutes, RoutesKeptOut, NoRoutes
    <2>3. ASSUME NEW yaml \in ForeignYaml
          PROVE  LET data == newV1ConfigMap(DefaultProfile, yaml) IN
                 data \in Data /\ \A p \in Profiles : NoRoutes(data[p])
        <3> DEFINE data == newV1ConfigMap(DefaultProfile, yaml)
        <3>1. data \in Data /\ \A p \in Profiles : data[p] \in {yaml, NoYaml}
            BY NewMapTyped, ServiceAssumption
        <3>2. NoRoutes(NoYaml) /\ NoRoutes(yaml)
            BY ServiceFacts, TreeTyped DEF NoRoutes, Texts, OthersWriteNoRoutes
        <3>. HIDE DEF data
        <3>. QED  BY <3>1, <3>2 DEF data
    <2>4. CASE UNCHANGED vars
        BY <2>4 DEF vars, RoutesInv, GatewayHoldsNoRoutes, RoutesKeptOut, NoRoutes
    <2>. QED  BY <2>1, <2>2, <2>3, <2>4 DEF Next
<1>2. ASSUME NEW t \in Handlers
      PROVE  RoutesOK(task'[t])
    <2>1. CASE task'[t] = task[t]
        BY <2>1 DEF RoutesInv
    <2>2. CASE task'[t] # task[t]
        <3>1. Next
            BY <2>2 DEF vars
        <3>. QED  BY <2>2, <3>1, OwnSteps, SavingRoutes, LookingRoutes, RequestRoutes DEF Step
    <2>. QED  BY <2>1, <2>2
<1>. QED  BY <1>1, <1>2 DEF RoutesInv, RoutesOK, DtoOK, NoRoutes

(* Whatever is saved, added and removed, the gateway's own config map      *)
(* never gets routes, as long as nobody else writes any into it.           *)
THEOREM GatewayFree ==
    ASSUME OthersWriteNoRoutes
    PROVE  Spec => []GatewayHoldsNoRoutes
<1>1. RoutesInv => GatewayHoldsNoRoutes
    BY DEF RoutesInv
<1>2. Init => RoutesInv
    BY RoutesInit
<1>3. ServiceInv /\ ServiceInv' /\ RoutesInv /\ [Next]_vars => RoutesInv'
    BY RoutesStep
<1>. QED  BY <1>1, <1>2, <1>3, ServiceHolds, PTL DEF Spec
=============================================================================
