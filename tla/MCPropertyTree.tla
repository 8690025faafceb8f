--------------------------- MODULE MCPropertyTree ---------------------------
(***************************************************************************)
(* ProfileMerge for TLC: the YAML of a profile is any of a set of trees at *)
(* the start.                                                              *)
(***************************************************************************)
EXTENDS ProfileMerge

CONSTANTS v1, v2, list, inner, holed, hole

A == <<"a">>
B == <<"b">>
AB == <<"a", "b">>
DottedRoute == <<"zuul", "routes", "a">>

Keys == {A, B, AB, ZuulNode, RoutesNode, DottedRoute}

(* The trees with these names alone.                                       *)
With(names, V) == {f @@ EmptyTree : f \in UNION {[D -> V] : D \in SUBSET names}}

(* A list of a value, a list and a map that has lists, a map and Nil; and  *)
(* one that has an item without a value in a map.                          *)
Entry == [EmptyTree EXCEPT ![A] = inner, ![AB] = Single(B, inner), ![RoutesNode] = Nil]
Items ==
    list :> <<v1, inner, Entry>> @@ inner :> <<v2, Single(B, v1)>>
        @@ holed :> <<Single(A, inner), Single(B, hole)>> @@ hole :> <<v1, Nil>>

Served == A :> v1 @@ <<"a", "b", "c">> :> v2

(* Trees two levels deep over a, a.b and, below a, a and b.                *)
TreesOver(leaves) == With({A, AB}, leaves \cup With({A, B}, leaves))

MergedTrees == TreesOver({v1, v2, list, Nil})
MergingTrees == TreesOver({v2, Nil}) \cup TreesOver({list})

(* The configuration of a gateway, with routes below zuul, with dots, or   *)
(* with none; zuul can be a leaf.                                          *)
Routes == {v1, list, holed, Nil} \cup With({A, B}, {v1, list, Nil}) \cup {Single(B, holed)}
Zuul == {v1} \cup {[h EXCEPT ![RoutesNode] = r] :
                    r \in Routes \cup {NoKey}, h \in {EmptyTree, Single(B, v2)}}
Gateways ==
    {[o EXCEPT ![ZuulNode] = z] :
        z \in Zuul \cup {NoKey}, o \in With({A, DottedRoute}, {v2, list})}

Profiles == MergedTrees \cup Gateways

(* The YAML a: {a: null}, a.b: [...].                                      *)
Unchanging == {A :> Single(A, Nil) @@ AB :> list @@ EmptyTree}

Additions == {Single(A, Single(B, v)) : v \in {v1, v2, Nil}}

=============================================================================
