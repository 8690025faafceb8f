---------------------------- MODULE PropertyTree ----------------------------
(***************************************************************************)
(* The configuration of a service as the config service reads it from      *)
(* YAML, and how it merges it and splits off the routes                    *)
(* (pkg/api/service/config_service.go).                                    *)
(*                                                                         *)
(* A tree maps every name to a leaf, a tree, or NoKey where it has no such *)
(* key.  A name is a sequence of words, as a key of YAML can have dots in  *)
(* it: the name <<"a", "b">> is the key a.b.                               *)
(***************************************************************************)
EXTENDS Integers, Sequences, FiniteSets, TLC

CONSTANTS
    Names,      \* the keys of maps
    Leaves,     \* scalars, lists and Nil
    Nil,        \* the value of a key that has none
    NoKey,
    ListItems,  \* the items of each list; its domain are the lists
    MaxDepth    \* maps are in maps at most this often

(* The trees with up to n levels below the first.                          *)
TreesTo[n \in Nat] ==
    [Names -> Leaves \cup {NoKey} \cup IF n = 0 THEN {} ELSE TreesTo[n - 1]]

Trees == TreesTo[MaxDepth]

ZuulNode == <<"zuul">>
RoutesNode == <<"routes">>

ASSUME TreeAssumption ==
    /\ {ZuulNode, RoutesNode} \subseteq Names
    /\ Nil \in Leaves /\ NoKey \notin Leaves \cup Names
    /\ MaxDepth \in Nat \ {0}
    /\ \A l \in Leaves \cup {NoKey} : l \notin Trees
    /\ DOMAIN ListItems \subseteq Leaves \ {Nil}
    /\ \A l \in DOMAIN ListItems : ListItems[l] \in Seq(Leaves \cup Trees)

IsList(v) == v \in DOMAIN ListItems
IsMap(v) == v \notin Leaves \cup {NoKey}

EmptyTree == [k \in Names |-> NoKey]

Single(name, v) == [EmptyTree EXCEPT ![name] = v]

Has(t, name) == t[name] # NoKey

Pairs == Trees \X Trees

-----------------------------------------------------------------------------
(* Faulty variants of the merges: the value asked for wins; a name that is *)
(* in both is left alone, also if it has children.                         *)
overwriting[p \in Pairs] ==
    [k \in Names |->
        LET old == p[1][k]  new == p[2][k]
        IN  IF IsMap(old) /\ IsMap(new) THEN overwriting[<<old, new>>]
            ELSE IF new = NoKey THEN old ELSE new]

AddOverwriting(old, new) == overwriting[<<old, new>>]

UpdateTopOnly(old, new) ==
    [k \in Names |-> IF IsMap(old[k]) \/ ~Has(new, k) THEN old[k] ELSE new[k]]

(* A key the old map has keeps its value, but maps are merged.             *)
added[p \in Pairs] ==
    [k \in Names |->
        LET old == p[1][k]  new == p[2][k]
        IN  IF old = NoKey THEN new
            ELSE IF IsMap(old) /\ IsMap(new) THEN added[<<old, new>>]
            ELSE old]

recursiveAdd(old, new) == added[<<old, new>>]

(* Two lists under one key: the comparison of the two values panics.       *)
panics[p \in Pairs] ==
    \E k \in Names :
        LET old == p[1][k]  new == p[2][k]
        IN  \/ IsList(old) /\ IsList(new)
            \/ IsMap(old) /\ IsMap(new) /\ panics[<<old, new>>]

UpdatePanics(old, new) == panics[<<old, new>>]

(* A leaf takes the new value, unless either is Nil; a map is merged with  *)
(* a map and is not replaced by a leaf.                                    *)
updated[p \in Pairs] ==
    [k \in Names |->
        LET old == p[1][k]  new == p[2][k]
        IN  IF old = NoKey THEN new
            ELSE IF new \in {NoKey, Nil} \/ old = Nil THEN old
            ELSE IF ~IsMap(old) THEN new
            ELSE IF IsMap(new) THEN updated[<<old, new>>]
            ELSE old]

recursiveAddAndUpdate(old, new) == updated[<<old, new>>]

-----------------------------------------------------------------------------
HasRoutes(t) == IsMap(t[ZuulNode]) /\ Has(t[ZuulNode], RoutesNode)

(* The type of Nil has no kind.                                            *)
SeparatePanics(t) == t[ZuulNode] = Nil

(* separateRoute: what stays with the gateway and what goes to zuul-route. *)
(* The first is the map that was given, whose routes it deletes.           *)
WithoutRoutes(t) ==
    IF HasRoutes(t) THEN [t EXCEPT ![ZuulNode] = [@ EXCEPT ![RoutesNode] = NoKey]]
    ELSE t

RouteTree(t) ==
    Single(ZuulNode, IF HasRoutes(t) THEN Single(RoutesNode, t[ZuulNode][RoutesNode])
                     ELSE EmptyTree)

-----------------------------------------------------------------------------
(* References.  A path is the sequence of names that leads to a node.      *)
Paths == Seq(Names) \ {<<>>}

(* Where the walk along a path ends, at its last name or before at what is *)
(* not a map.                                                              *)
walk[x \in Trees \X Paths] ==
    LET next == x[1][Head(x[2])]
    IN  IF IsMap(next) /\ Len(x[2]) > 1 THEN walk[<<next, Tail(x[2])>>]
        ELSE [node |-> next, whole |-> Len(x[2]) = 1]

LastOn(t, p) == walk[<<t, p>>].node

NodeAt(t, p) == IF walk[<<t, p>>].whole THEN LastOn(t, p) ELSE NoKey

pathsOf[t \in Trees] ==
    {<<k>> : k \in {n \in Names : Has(t, n)}}
        \cup UNION {{<<k>> \o p : p \in pathsOf[t[k]]} : k \in {n \in Names : IsMap(t[n])}}

PathsOf(t) == pathsOf[t]

Same(v, w) == v = w \/ (IsMap(v) /\ IsMap(w))

(* On this path: a node of the old tree is as it was, and one of the new   *)
(* tree is there unless the path leads through a leaf of the old one.      *)
AddAt(old, new, merged, p) ==
    Same(NodeAt(merged, p),
         IF NodeAt(old, p) # NoKey THEN NodeAt(old, p)
         ELSE IF LastOn(old, p) # NoKey THEN NoKey
         ELSE NodeAt(new, p))

IsValue(v) == v \in Leaves \ {Nil}

(* What an update asks for on this path: what the new tree has, where it   *)
(* has a value or a map, or where the old tree has nothing, and else what  *)
(* the old tree has.                                                       *)
Wanted(old, new, p) ==
    IF IsValue(LastOn(new, p)) \/ IsMap(NodeAt(new, p)) \/ NodeAt(old, p) = NoKey
    THEN NodeAt(new, p) ELSE NodeAt(old, p)

(* The exceptions recursiveAddAndUpdate makes: the old tree is left as it  *)
(* is where it has Nil, and where it has a map and the new tree a leaf.    *)
Stays(old, new, p) ==
    \/ LastOn(old, p) = Nil
    \/ /\ IsValue(LastOn(new, p))
       /\ IsMap(NodeAt(old, p)) \/ NodeAt(new, p) = NoKey

UpdateAt(old, new, merged, p) ==
    Same(NodeAt(merged, p),
         IF Stays(old, new, p) THEN NodeAt(old, p) ELSE Wanted(old, new, p))

PathsOfAny(old, new, merged) == PathsOf(old) \cup PathsOf(new) \cup PathsOf(merged)

IsAdd(old, new, merged) ==
    \A p \in PathsOfAny(old, new, merged) : AddAt(old, new, merged, p)

IsUpdate(old, new, merged) ==
    \A p \in PathsOfAny(old, new, merged) : UpdateAt(old, new, merged, p)
=============================================================================
