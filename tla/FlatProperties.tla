--------------------------- MODULE FlatProperties ---------------------------
(***************************************************************************)
(* The properties a service is served: the tree of its configuration       *)
(* flattened (pkg/utils/convertor.go), and for a gateway put together from *)
(* two (Poll in pkg/api/service/config_service.go).  A flat map is a       *)
(* function on the properties it has, which are sequences of words: under  *)
(* a name <<"a">> the name <<"b">> comes to the property a.b.              *)
(***************************************************************************)
EXTENDS PropertyTree

CONSTANT ConfigServerAdditions  \* the properties every service is served

ASSUME NameAssumption == IsFiniteSet(Names) /\ Names \subseteq Seq(STRING)

Lists == DOMAIN ListItems

(* Maps in lists and lists in these maps end somewhere, as YAML is finite. *)
ASSUME ListAssumption ==
    \E depth \in [Lists -> 0 .. MaxDepth] :
        \A l \in Lists : \A i \in DOMAIN ListItems[l] :
            IsMap(ListItems[l][i]) =>
                \A k \in Names : IsList(ListItems[l][i][k]) =>
                    depth[ListItems[l][i][k]] < depth[l]

(* The one map, and the other where the one has nothing.                   *)
Overlay(upper, lower) ==
    [p \in DOMAIN upper \cup DOMAIN lower |->
        IF p \in DOMAIN upper THEN upper[p] ELSE lower[p]]

Without(flat, properties) == [p \in DOMAIN flat \ properties |-> flat[p]]

Prefixed(k, flat) ==
    [p \in {k \o q : q \in DOMAIN flat} |-> flat[SubSeq(p, Len(k) + 1, Len(p))]]

Keyed(t) == {k \in Names : Has(t, k)}

(* What is under a name, of which a map comes to one of some outcomes.     *)
Under(k, v, outcomes) ==
    IF v = Nil THEN {<<>>}
    ELSE IF IsMap(v) THEN {Prefixed(k, flat) : flat \in outcomes}
    ELSE {[p \in {k} |-> v]}

(* Of two keys that come to one property the later one wins.               *)
Both(earlier, later) == {Overlay(l, e) : l \in later, e \in earlier}

Unvisited == Trees \X SUBSET Names

(* Faulty variant: a map is flattened without its name.                    *)
visitsUnnamed[x \in Unvisited] ==
    IF x[2] = {} THEN {<<>>}
    ELSE UNION {Both(LET v == x[1][k] IN
                     IF IsMap(v) THEN visitsUnnamed[<<v, Keyed(v)>>] ELSE Under(k, v, {}),
                     visitsUnnamed[<<x[1], x[2] \ {k}>>]) : k \in x[2]}

FlattenUnnamed(t) == visitsUnnamed[<<t, Keyed(t)>>]

(* recursive: a map is ranged over in any order, so the outcome is one of  *)
(* a set.  An element is a tree and those of its names that are to come.   *)
visits[x \in Unvisited] ==
    IF x[2] = {} THEN {<<>>}
    ELSE UNION {Both(Under(k, x[1][k], visits[<<x[1][k], Keyed(x[1][k])>>]),
                     visits[<<x[1], x[2] \ {k}>>]) : k \in x[2]}

ConvertRecursiveMapToSingleMap(t) == visits[<<t, Keyed(t)>>]

-----------------------------------------------------------------------------
(* An answer is put together as a set of <<property, value>>: where two    *)
(* keys of a map come to one property, either may be the later one.        *)
Entries(flat) == {<<p, flat[p]>> : p \in DOMAIN flat}

Over(upper, lower) == upper \cup {e \in lower : \A u \in upper : u[1] # e[1]}

appendConfigServerAddition(answer) == Over(Entries(ConfigServerAdditions), answer)

(* A list is handed out item by item, as p[0], p[1], ..., and an item that *)
(* is a map key by key, as p[0].k.  Maps of such a map stay values, and so *)
(* does a list right in a list.                                            *)
Index(i) == <<"[]", ToString(i - 1)>>

Handed(p, v, items) == IF IsList(v) THEN {<<p \o e[1], e[2]>> : e \in items} ELSE {<<p, v>>}

itemsOf[l \in Lists] ==
    UNION {LET item == ListItems[l][i] IN
           IF IsMap(item)
           THEN UNION {Handed(Index(i) \o k, item[k], itemsOf[item[k]]) : k \in Keyed(item)}
           ELSE {<<Index(i), item>>} : i \in DOMAIN ListItems[l]}

(* The type of Nil has no kind here either.                                *)
nilIn[l \in Lists] ==
    \E i \in DOMAIN ListItems[l] :
        LET item == ListItems[l][i] IN
        item = Nil \/ (IsMap(item) /\ \E k \in Names : IsList(item[k]) /\ nilIn[item[k]])

ZuulPanics(routes) == \E p \in DOMAIN routes : IsList(routes[p]) /\ nilIn[routes[p]]

processZuulRoot(routes) ==
    UNION {Handed(p, routes[p], itemsOf[routes[p]]) : p \in DOMAIN routes}

IsRouteProperty(p) == Len(p) > 2 /\ <<p[1]>> = ZuulNode /\ <<p[2]>> = RoutesNode

(* Faulty variant: everything of zuul's is taken from the gateway's own.   *)
GatewayWithoutZuul(own, routes) ==
    appendConfigServerAddition(Over(processZuulRoot(routes),
        Entries(Without(own, {p \in DOMAIN own : <<p[1]>> = ZuulNode}))))

(* What Poll answers a gateway, where ZuulPanics does not end it: its own  *)
(* properties but for routes, over them everything in zuul-route, and over *)
(* both the additions.                                                     *)
GatewayProperties(own, routes) ==
    appendConfigServerAddition(Over(processZuulRoot(routes),
        Entries(Without(own, {p \in DOMAIN own : IsRouteProperty(p)}))))

-----------------------------------------------------------------------------
(* References.                                                             *)

(* The property a path comes to.                                           *)
property[p \in Seq(Names)] == IF p = <<>> THEN <<>> ELSE Head(p) \o property[Tail(p)]

Property(p) == property[p]

Valued(t) == {p \in PathsOf(t) : NodeAt(t, p) \in Leaves \ {Nil}}

(* A flat map has the properties of the tree, each with the value of a     *)
(* path that comes to it.                                                  *)
IsFlat(t, flat) ==
    /\ DOMAIN flat = {Property(p) : p \in Valued(t)}
    /\ \A k \in DOMAIN flat : \E p \in Valued(t) :
            Property(p) = k /\ NodeAt(t, p) = flat[k]

(* No property is spelled in two ways.                                     *)
Unambiguous(t) ==
    \A p, q \in Valued(t) : Property(p) = Property(q) => p = q

IsRoute(p) == IsRouteProperty(p) \/ p = ZuulNode \o RoutesNode

(* No route is spelled with dots, where separateRoute does not look.       *)
RoutesNested(t) ==
    \A p \in Valued(t) : IsRoute(Property(p)) =>
        Len(p) > 1 /\ p[1] = ZuulNode /\ p[2] = RoutesNode

(* A place in a list is a sequence of steps: <<i, k>> to the key k of the  *)
(* i-th item, or <<i, NoKey>> to an item that is no map.  Each but the     *)
(* last leads to a list, and the last does not if it leads to a key.       *)
Steps == (Nat \ {0}) \X (Names \cup {NoKey})

Reached(l, step) ==
    IF step[2] = NoKey THEN ListItems[l][step[1]] ELSE ListItems[l][step[1]][step[2]]

StepsFrom(l) ==
    UNION {LET item == ListItems[l][i] IN
           {i} \X (IF IsMap(item) THEN Keyed(item) ELSE {NoKey}) : i \in DOMAIN ListItems[l]}

LeadsOn(l, step) == step[2] # NoKey /\ IsList(Reached(l, step))

placesIn[l \in Lists] ==
    {<<step>> : step \in {s \in StepsFrom(l) : ~LeadsOn(l, s)}}
        \cup UNION {{<<step>> \o q : q \in placesIn[Reached(l, step)]} :
                        step \in {s \in StepsFrom(l) : LeadsOn(l, s)}}

valueAt[x \in Lists \X Seq(Steps)] ==
    LET v == Reached(x[1], Head(x[2]))
    IN  IF IsList(v) /\ Len(x[2]) > 1 THEN valueAt[<<v, Tail(x[2])>>] ELSE v

spelling[q \in Seq(Steps)] ==
    IF q = <<>> THEN <<>>
    ELSE Index(Head(q)[1]) \o (IF Head(q)[2] = NoKey THEN <<>> ELSE Head(q)[2])
            \o spelling[Tail(q)]

(* What a gateway is served of the tree that was saved for it: the value   *)
(* on every path, but of a list of routes the value at every place.        *)
Saved(t) ==
    LET lists == {p \in Valued(t) : IsRoute(Property(p)) /\ IsList(NodeAt(t, p))} IN
    {<<Property(p), NodeAt(t, p)>> : p \in Valued(t) \ lists}
        \cup UNION {{<<Property(p) \o spelling[q], valueAt[<<NodeAt(t, p), q>>]>> :
                        q \in placesIn[NodeAt(t, p)]} : p \in lists}
=============================================================================
